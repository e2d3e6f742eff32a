---------------------------- MODULE Bufferevent ----------------------------
(***************************************************************************)
(* What all kinds of bufferevent share (bufferevent.c), as operators that  *)
(* take the world w, the records of all bufferevents by name, and return   *)
(* it after a call on the bufferevent x.  The operations that each kind    *)
(* implements itself are the parameters of the module.                     *)
(***************************************************************************)
EXTENDS Integers, Sequences, FiniteSets

CONSTANTS Deferred,             \* BEV_OPT_DEFER_CALLBACKS
          be_enable(_, _, _), be_disable(_, _, _), be_destruct(_, _)

(* An event of the event loop is a subset of {"on", "timed", "ready",      *)
(* "due"}: it waits for its descriptor or for its timeout, and its callback*)
(* is about to run for the one or the other.                               *)
event_del(w, x, f) == [w EXCEPT ![x][f] = {}]
Timed(set) == IF set THEN {"timed"} ELSE {}

(* in and out are the lengths of the buffers; conn says that a socket is   *)
(* connecting, was refused, failed or waits for the lookup of its name.    *)
(* plan is what the callbacks of the application will do; calls are those  *)
(* made in this step; every holds the directions whose event renews its    *)
(* timeout each time it runs (ev_io_timeout), and late, a history of the   *)
(* model, those whose event was added too late to be inserted.             *)
bufferevent_init_common ==
    [en |-> {"W"}, rs |-> {}, ws |-> {}, evr |-> {}, evw |-> {}, every |-> {}, late |-> {},
     trd |-> FALSE, twr |-> FALSE, in |-> 0, out |-> 0,
     low |-> 0, high |-> 0, wlow |-> 0, whigh |-> 0,
     cb |-> TRUE, pend |-> {}, pendE |-> {}, queued |-> FALSE, ref |-> 1,
     plan |-> "nothing", calls |-> <<>>, freed |-> FALSE, gone |-> FALSE, bad |-> FALSE,
     fd |-> "none", conn |-> {}]

bufferevent_suspend_read(w, x, what) ==
    LET v == IF w[x].rs = {} THEN be_disable(w, x, {"R"}) ELSE w
    IN  [v EXCEPT ![x].rs = @ \cup {what}]

bufferevent_unsuspend_read(w, x, what) ==
    LET v == [w EXCEPT ![x].rs = @ \ {what}]
    IN  IF v[x].rs = {} /\ "R" \in v[x].en THEN be_enable(v, x, {"R"}) ELSE v

bufferevent_suspend_write(w, x, what) ==
    LET v == IF w[x].ws = {} THEN be_disable(w, x, {"W"}) ELSE w
    IN  [v EXCEPT ![x].ws = @ \cup {what}]

bufferevent_unsuspend_write(w, x, what) ==
    LET v == [w EXCEPT ![x].ws = @ \ {what}]
    IN  IF v[x].ws = {} /\ "W" \in v[x].en THEN be_enable(v, x, {"W"}) ELSE v

(* The callback of the input buffer, which runs while a mark is set.       *)
bufferevent_inbuf_wm_cb(w, x) ==
    IF w[x].high = 0 THEN w
    ELSE IF w[x].in >= w[x].high THEN bufferevent_suspend_read(w, x, "WM")
                                 ELSE bufferevent_unsuspend_read(w, x, "WM")

InputGrew(w, x, n) == bufferevent_inbuf_wm_cb([w EXCEPT ![x].in = @ + n], x)
InputShrank(w, x, n) == bufferevent_inbuf_wm_cb([w EXCEPT ![x].in = @ - n], x)

-----------------------------------------------------------------------------
(* Enabling, watermarks, timeouts                                          *)

bufferevent_enable(w, x, evs) ==
    LET impl == evs \ ((IF w[x].rs # {} THEN {"R"} ELSE {})
                         \cup (IF w[x].ws # {} THEN {"W"} ELSE {}))
        v == [w EXCEPT ![x].en = @ \cup evs]
    IN  IF impl = {} THEN v ELSE be_enable(v, x, impl)

bufferevent_disable(w, x, evs) == be_disable([w EXCEPT ![x].en = @ \ evs], x, evs)

bufferevent_setwatermark(w, x, low, high) ==
    LET v == [w EXCEPT ![x].low = low, ![x].high = high]
    IN  IF high > 0 /\ v[x].in >= high THEN bufferevent_suspend_read(v, x, "WM")
                                       ELSE bufferevent_unsuspend_read(v, x, "WM")

-----------------------------------------------------------------------------
(* References and callbacks                                                *)

bufferevent_incref(w, x) == [w EXCEPT ![x].ref = @ + 1]

bufferevent_decref(w, x) ==
    LET v == [w EXCEPT ![x].ref = @ - 1, ![x].bad = @ \/ w[x].ref = 0]
    IN  IF v[x].ref = 0 THEN be_destruct([v EXCEPT ![x].gone = TRUE], x) ELSE v

bufferevent_free(w, x) ==
    bufferevent_decref([w EXCEPT ![x].cb = FALSE, ![x].freed = TRUE], x)

(* A callback of the application, which may free or disable its            *)
(* bufferevent; the caller holds a reference.                              *)
Callback(w, x, name, what) ==
    LET v == [w EXCEPT ![x].calls = Append(@, [cb |-> name, what |-> what])]
    IN  CASE v[x].plan = "free" -> bufferevent_free(v, x)
          [] v[x].plan = "disable" -> bufferevent_disable(v, x, {"R", "W"})
          [] OTHER -> v

SCHEDULE_DEFERRED(w, x) ==
    IF w[x].queued THEN w ELSE bufferevent_incref([w EXCEPT ![x].queued = TRUE], x)

_bufferevent_run_readcb(w, x) ==
    IF ~w[x].cb THEN w
    ELSE IF Deferred THEN SCHEDULE_DEFERRED([w EXCEPT ![x].pend = @ \cup {"R"}], x)
                     ELSE Callback(w, x, "R", {})

_bufferevent_run_writecb(w, x) ==
    IF ~w[x].cb THEN w
    ELSE IF Deferred THEN SCHEDULE_DEFERRED([w EXCEPT ![x].pend = @ \cup {"W"}], x)
                     ELSE Callback(w, x, "W", {})

_bufferevent_run_eventcb(w, x, what) ==
    IF ~w[x].cb THEN w
    ELSE IF Deferred THEN SCHEDULE_DEFERRED([w EXCEPT ![x].pendE = @ \cup what], x)
                     ELSE Callback(w, x, "E", what)

(* One callback of the deferred ones, if it is pending and still set.      *)
Deliver(w, x, name) ==
    IF name \notin w[x].pend \/ ~w[x].cb THEN w
    ELSE Callback([w EXCEPT ![x].pend = @ \ {name}], x, name, {})

DeliverEvent(w, x, what) ==
    IF what = {} \/ ~w[x].cb THEN w
    ELSE Callback([w EXCEPT ![x].pendE = @ \ what], x, "E", what)

(* Mutant of bufferevent_run_deferred_callbacks: events come first.        *)
Mutant_events_first(w, x) ==
    LET v == DeliverEvent([w EXCEPT ![x].queued = FALSE], x, w[x].pendE)
    IN  bufferevent_decref(Deliver(Deliver(v, x, "R"), x, "W"), x)

bufferevent_run_deferred_callbacks(w, x) ==
    LET first == DeliverEvent([w EXCEPT ![x].queued = FALSE], x,
                              w[x].pendE \cap {"CONNECTED"})
        data == Deliver(Deliver(first, x, "R"), x, "W")
    IN  bufferevent_decref(DeliverEvent(data, x, data[x].pendE), x)

(* The timers of the kinds that have no descriptor.                        *)
bufferevent_generic_timeout_cb(w, x, rw) ==
    bufferevent_decref(
        _bufferevent_run_eventcb(bufferevent_disable(bufferevent_incref(w, x), x, {rw}), x,
                                 {"TIMEOUT", rw}), x)

=============================================================================
