-------------------------- MODULE BuffereventSock --------------------------
(***************************************************************************)
(* The bufferevent of a socket (bufferevent_sock.c), the one the server    *)
(* uses, with its connection attempt, its timeouts and its callbacks.  Of  *)
(* the rate limits only the suspensions are here (see RateLimit).          *)
(***************************************************************************)
EXTENDS Integers, Sequences, FiniteSets

CONSTANTS CloseOnFree, Deferred,
          Does,         \* the calls and happenings of this instance
          Marks,        \* the high-water marks that are set
          MaxLen        \* bound on the bytes of a buffer

VARIABLES w,            \* the bufferevent
          op            \* what happened last

vars == <<w, op>>

b == "b"

(* event_add: an event whose callback is about to run is not inserted, and *)
(* renewing a timeout that is due takes that callback back.  Without a     *)
(* timeout it leaves one that is pending.                                  *)
Active(ev) == ev \cap {"ready", "due"} # {}
Added(ev, set) ==
    LET io == IF Active(ev) THEN ev ELSE ev \cup {"on"}
    IN  IF set THEN (io \ {"due"}) \cup {"timed"} ELSE io
EventOf(v, x, rw) == IF rw = "R" THEN v[x].evr ELSE v[x].evw
TimeoutOf(v, x, rw) == IF rw = "R" THEN v[x].trd ELSE v[x].twr
TooLate(ev) == Active(ev) /\ "on" \notin ev

be_socket_enable(v, x, evs) ==
    [v EXCEPT ![x].evr = IF "R" \in evs THEN Added(@, TimeoutOf(v, x, "R")) ELSE @,
              ![x].evw = IF "W" \in evs THEN Added(@, TimeoutOf(v, x, "W")) ELSE @,
              ![x].every = @ \cup {rw \in evs : TimeoutOf(v, x, rw)},
              ![x].late = (@ \ evs) \cup {rw \in evs : TooLate(EventOf(v, x, rw))}]

(* event_pending, asked for EV_READ or EV_WRITE.                           *)
Pending(ev) == ev \cap {"on", "ready"} # {}

(* Writing is not disabled while the socket is connecting.                 *)
be_socket_disable(v, x, evs) ==
    [v EXCEPT ![x].evr = IF "R" \in evs THEN {} ELSE @,
              ![x].evw = IF "W" \in evs /\ "connecting" \notin v[x].conn THEN {} ELSE @]

be_socket_destruct(v, x) ==
    [v EXCEPT ![x].evr = {}, ![x].evw = {},
              ![x].fd = IF CloseOnFree /\ @ = "open" THEN "closed" ELSE @]

INSTANCE Bufferevent WITH be_enable <- be_socket_enable, be_disable <- be_socket_disable,
                          be_destruct <- be_socket_destruct

bufferevent_socket_new == bufferevent_init_common

Init == w = [x \in {b} |-> bufferevent_socket_new] /\ op = "new"

bufferevent_socket_outbuf_cb(v, x) ==
    IF "W" \in v[x].en /\ ~Pending(v[x].evw) /\ v[x].ws = {}
    THEN be_socket_enable(v, x, {"W"}) ELSE v

(* A result of read or write: a number of bytes, or one of these.          *)
EOF == 0
ERROR == -1
RETRY == -2
Outcome(n) == IF n = EOF THEN {"EOF"} ELSE {"ERROR"}

Fail(v, x, rw, what) ==
    _bufferevent_run_eventcb(bufferevent_disable(v, x, {rw}), x, {rw} \cup what)

bufferevent_readcb(v0, x, event, n) ==
    LET v == bufferevent_incref(v0, x)
        grown == InputGrew(v, x, n)
        z == IF event = "timeout" THEN Fail(v, x, "R", {"TIMEOUT"})
             ELSE IF v[x].high # 0 /\ v[x].in >= v[x].high
             THEN bufferevent_suspend_read(v, x, "WM")
             ELSE IF v[x].rs # {} \/ n = RETRY THEN v
             ELSE IF n <= 0 THEN Fail(v, x, "R", Outcome(n))
             ELSE IF grown[x].in >= grown[x].low THEN _bufferevent_run_readcb(grown, x)
             ELSE grown
    IN  bufferevent_decref(z, x)

(* The event is left when there is nothing more to write; the callback is  *)
(* not run for a connection that was made and had nothing to write.        *)
Wrote(v, x, n, connected) ==
    LET sent == [v EXCEPT ![x].out = @ - n]
        z == IF sent[x].out = 0 THEN event_del(sent, x, "evw") ELSE sent
    IN  IF (n > 0 \/ ~connected) /\ z[x].out <= z[x].wlow
        THEN _bufferevent_run_writecb(z, x) ELSE z

Written(v, x, n, connected) ==
    IF v[x].ws # {} THEN v
    ELSE IF v[x].out = 0 THEN Wrote(v, x, 0, connected)
    ELSE IF n = RETRY THEN v
    ELSE IF n <= 0 THEN Fail(v, x, "W", Outcome(n))
    ELSE Wrote(v, x, n, connected)

(* c is what evutil_socket_finished_connecting finds: 0 for not yet.       *)
bufferevent_writecb(v0, x, event, c0, n) ==
    LET v == bufferevent_incref(v0, x)
        c == IF "refused" \in v[x].conn THEN -1 ELSE c0
        done == [v EXCEPT ![x].conn = @ \ {"connecting", "refused"}]
        dead == event_del(event_del([done EXCEPT ![x].conn = @ \cup {"failed"}],
                                    x, "evw"), x, "evr")
        told == _bufferevent_run_eventcb(done, x, {"CONNECTED"})
        z == IF event = "timeout" THEN Fail(v, x, "W", {"TIMEOUT"})
             ELSE IF "connecting" \notin v[x].conn THEN Written(v, x, n, FALSE)
             ELSE IF c = 0 THEN [v EXCEPT ![x].conn = @ \ {"refused"}]
             ELSE IF c < 0 THEN _bufferevent_run_eventcb(dead, x, {"ERROR"})
             ELSE IF "W" \notin told[x].en \/ told[x].ws # {} THEN event_del(told, x, "evw")
             ELSE Written(told, x, n, TRUE)
    IN  bufferevent_decref(z, x)

Reassigned(v, x) ==
    [event_del(event_del(v, x, "evr"), x, "evw") EXCEPT ![x].fd = "open", ![x].every = {}]

(* Mutant of be_socket_setfd: nothing is enabled on the new descriptor.    *)
Mutant_setfd_quiet(v, x) == Reassigned(v, x)

be_socket_setfd(v, x) ==
    LET z == Reassigned(v, x)
    IN  bufferevent_enable(z, x, z[x].en)

(* r is the result of connect: -1 failed, 0 in progress, 1 done, 2 refused.*)
bufferevent_socket_connect(v0, x, r) ==
    LET v == bufferevent_incref(v0, x)
        set == be_socket_setfd(v, x)
        started == [set EXCEPT ![x].conn = (@ \ {"failed"}) \cup {"connecting"}
                                            \cup IF r = 2 THEN {"refused"} ELSE {}]
        z == IF r < 0 THEN _bufferevent_run_eventcb(v, x, {"ERROR"})
             ELSE IF r = 0 THEN be_socket_enable(started, x, {"W"})
             ELSE [started EXCEPT ![x].evw = @ \cup {"ready"}]
    IN  bufferevent_decref(z, x)

bufferevent_socket_connect_hostname(v, x) ==
    bufferevent_incref(
        bufferevent_suspend_read(
            bufferevent_suspend_write([v EXCEPT ![x].conn = @ \cup {"lookup"}], x, "LOOKUP"),
            x, "LOOKUP"), x)

bufferevent_connect_getaddrinfo_cb(v, x, found, r) ==
    LET z == bufferevent_unsuspend_read(
                 bufferevent_unsuspend_write([v EXCEPT ![x].conn = @ \ {"lookup"}],
                                             x, "LOOKUP"), x, "LOOKUP")
    IN  bufferevent_decref(IF found THEN bufferevent_socket_connect(z, x, r)
                           ELSE _bufferevent_run_eventcb(z, x, {"ERROR"}), x)

be_socket_adj_timeouts(v, x) ==
    be_socket_enable(v, x, (IF Pending(v[x].evr) THEN {"R"} ELSE {})
                             \cup (IF Pending(v[x].evw) THEN {"W"} ELSE {}))

bufferevent_set_timeouts(v, x, rd, wr) ==
    be_socket_adj_timeouts([v EXCEPT ![x].trd = rd, ![x].twr = wr], x)

bufferevent_disable_hard(v, x, evs) ==
    be_socket_disable([v EXCEPT ![x].en = @ \ evs, ![x].conn = @ \ {"connecting"}], x, evs)

-----------------------------------------------------------------------------
(* The event loop and the application                                      *)

Do(name, v) ==
    /\ name \in Does
    /\ op' = name
    /\ w' = v

Now == [w EXCEPT ![b].calls = <<>>]
me == w[b]
Alive == ~me.freed
Results(n) == {EOF, ERROR, RETRY} \cup 1 .. n
ReadMax == IF me.high > 0 THEN me.high - me.in ELSE MaxLen - me.in

(* The loop makes an event active when its descriptor is ready, or when    *)
(* its timeout is over; other callbacks may run before its own.            *)
Ready ==
    \/ /\ me.fd = "open" /\ "on" \in me.evr /\ me.in < MaxLen
       /\ Do("ready", [Now EXCEPT ![b].evr = @ \cup {"ready"}])
    \/ /\ me.fd = "open" /\ "on" \in me.evw
       /\ Do("ready", [Now EXCEPT ![b].evw = @ \cup {"ready"}])

timeout_process ==
    \/ "timed" \in me.evr /\ Do("due", [Now EXCEPT ![b].evr = {"due"}])
    \/ "timed" \in me.evw /\ Do("due", [Now EXCEPT ![b].evw = {"due"}])

(* It runs: first the timeout starts again, which adds the event anew.     *)
Runs(ev, again) == (ev \ {"ready", "due"}) \cup IF again THEN {"on", "timed"} ELSE {}
event_persist_closure(rw) ==
    [Now EXCEPT ![b].evr = IF rw = "R" THEN Runs(@, "R" \in me.every) ELSE @,
                ![b].evw = IF rw = "W" THEN Runs(@, "W" \in me.every) ELSE @]
Why(ev) == IF "due" \in ev THEN "timeout" ELSE "io"

ReadEvent ==
    /\ me.evr \cap {"ready", "due"} # {}
    /\ \E n \in Results(ReadMax) :
          Do("read event", bufferevent_readcb(event_persist_closure("R"), b, Why(me.evr), n))

WriteEvent ==
    /\ me.evw \cap {"ready", "due"} # {}
    /\ \E c \in {-1, 0, 1}, n \in Results(me.out) :
          Do("write event",
             bufferevent_writecb(event_persist_closure("W"), b, Why(me.evw), c, n))

DeferredCallbacks ==
    me.queued /\ Do("deferred", bufferevent_run_deferred_callbacks(Now, b))

Application ==
    /\ Alive
    /\ \/ \E n \in 1 .. MaxLen - me.out :
             Do("write", bufferevent_socket_outbuf_cb([Now EXCEPT ![b].out = @ + n], b))
       \/ \E n \in 1 .. me.in : Do("read", InputShrank(Now, b, n))
       \/ \E e \in {"R", "W"} : \/ Do("enable", bufferevent_enable(Now, b, {e}))
                                \/ Do("disable", bufferevent_disable(Now, b, {e}))
                                \/ Do("disable hard", bufferevent_disable_hard(Now, b, {e}))
       \/ \E h \in Marks : Do("watermark", bufferevent_setwatermark(Now, b, 0, h))
       \/ \E rd, wr \in BOOLEAN : Do("timeouts", bufferevent_set_timeouts(Now, b, rd, wr))
       \/ Do("free", bufferevent_free(Now, b))
       \/ \E p \in {"free", "disable"} : Do("plan", [Now EXCEPT ![b].plan = p])
       \/ me.fd = "none" /\ "lookup" \notin me.conn
            /\ \/ Do("setfd", be_socket_setfd(Now, b))
               \/ Do("lookup", bufferevent_socket_connect_hostname(Now, b))
               \/ \E r \in {-1, 0, 1, 2} : Do("connect", bufferevent_socket_connect(Now, b, r))

(* The resolver answers; the rate limit, or a filter, suspends.            *)
Resolved ==
    /\ "lookup" \in me.conn
    /\ \E found \in BOOLEAN, r \in {-1, 0, 1, 2} :
          Do("lookup", bufferevent_connect_getaddrinfo_cb(Now, b, found, r))

Limit ==
    /\ ~me.gone
    /\ \/ Do("limit", bufferevent_suspend_read(Now, b, "BW"))
       \/ Do("limit", bufferevent_suspend_write(Now, b, "BW"))
       \/ Do("limit", bufferevent_unsuspend_read(Now, b, "BW"))
       \/ Do("limit", bufferevent_unsuspend_write(Now, b, "BW"))

Next ==
    \/ Ready \/ timeout_process \/ ReadEvent \/ WriteEvent \/ DeferredCallbacks
    \/ Application \/ Resolved \/ Limit

Spec == Init /\ [][Next]_vars

-----------------------------------------------------------------------------
(* Properties                                                              *)

(* What is to be written, or read, is never left without an event that     *)
(* will do it: no path through marks, suspensions, timeouts, a connection  *)
(* attempt and a new descriptor loses it, but for an event that was added  *)
(* while its callback was about to run (bufferevent.c:406-427).            *)
Works == ~me.gone /\ me.fd = "open" /\ me.conn \cap {"failed", "connecting"} = {}
NothingForgotten ==
    Works => /\ me.out > 0 /\ "W" \in me.en /\ me.ws = {} /\ "W" \notin me.late
                    => me.evw \ {"timed"} # {}
             /\ "R" \in me.en /\ me.rs = {} /\ "R" \notin me.late => me.evr \ {"timed"} # {}

(* As the comment of bufferevent_socket_outbuf_cb has it, whoever adds data*)
(* starts the writing; a bufferevent whose write timeout is due then stops *)
(* waiting for its descriptor instead (bufferevent_sock.c:110-119).        *)
WritesStart ==
    Works /\ me.out > 0 /\ "W" \in me.en /\ me.ws = {} => me.evw \ {"timed"} # {}

(* Nothing is read, or written, while that is disabled or suspended, for   *)
(* whatever combination of reasons (bufferevent.c:65-111).                 *)
OnlyWhenWilling ==
    Works => /\ me.rs # {} \/ "R" \notin me.en => ~Pending(me.evr)
             /\ me.ws # {} \/ "W" \notin me.en => ~Pending(me.evw)

(* A buffer at its mark is not read into, and a read does not take it      *)
(* beyond (bufferevent_sock.c:149-156, bufferevent.c:114-130).             *)
FullStops == ~me.gone /\ me.high > 0 /\ me.in >= me.high => ~Pending(me.evr)
WithinMark == w'[b].in > me.in /\ me.high > 0 => w'[b].in <= me.high

(* Whoever holds a reference is counted: the application until it frees    *)
(* the bufferevent, callbacks that wait, a name that is looked up.  After  *)
(* the last one the descriptor is closed and no event is left              *)
(* (bufferevent.c:604-666).                                                *)
References ==
    /\ ~me.bad
    /\ me.ref = (IF me.freed THEN 0 ELSE 1) + (IF me.queued THEN 1 ELSE 0)
                  + (IF "lookup" \in me.conn THEN 1 ELSE 0)
    /\ me.gone <=> me.ref = 0
    /\ me.gone => me.evr = {} /\ me.evw = {} /\ (CloseOnFree => me.fd # "open")

(* The application hears nothing more after bufferevent_free, also when it *)
(* frees in a callback, or callbacks wait (bufferevent.c:675-682).         *)
SilentAfterFree == me.freed => w'[b].calls = <<>>

(* The end of the stream is not reported before the data that came first,  *)
(* whose callback is still to run (bufferevent.c:132-163).                 *)
DataBeforeEnd ==
    \A i \in DOMAIN w'[b].calls :
        w'[b].calls[i].cb = "E" /\ "EOF" \in w'[b].calls[i].what
            => /\ "R" \notin w'[b].pend \/ ~w'[b].cb
               /\ \A j \in i .. Len(w'[b].calls) : w'[b].calls[j].cb # "R"

=============================================================================
