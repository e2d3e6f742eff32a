-------------------------- MODULE BuffereventPair --------------------------
(***************************************************************************)
(* Two bufferevents that are each other's peer (bufferevent_pair.c): what  *)
(* one writes goes straight to the input of the other.  Their callbacks    *)
(* are always deferred.                                                    *)
(***************************************************************************)
EXTENDS Integers, Sequences, FiniteSets

CONSTANTS Does, Marks, MaxLen,
          MaxRef     \* bound of the references

VARIABLES w, op

vars == <<w, op>>

Pair == {"a", "b"}
other(x) == CHOOSE y \in Pair : y # x
Linked(v) == \A x \in Pair : ~v[x].gone

(* The timers of a bufferevent that times out.                             *)
Reset(v, x, f, set) == [v EXCEPT ![x][f] = IF set THEN {"timed"} ELSE @]
BEV_RESET_GENERIC_READ_TIMEOUT(v, x) == Reset(v, x, "evr", v[x].trd)
BEV_RESET_GENERIC_WRITE_TIMEOUT(v, x) == Reset(v, x, "evw", v[x].twr)

be_pair_disable(v, x, evs) ==
    [v EXCEPT ![x].evr = IF "R" \in evs THEN {} ELSE @,
              ![x].evw = IF "W" \in evs THEN {} ELSE @]

be_pair_destruct(v, x) == [v EXCEPT ![x].evr = {}, ![x].evw = {}]

be_pair_wants_to_talk(v, src) ==
    LET dst == other(src)
    IN  "W" \in v[src].en /\ "R" \in v[dst].en /\ v[dst].rs = {} /\ v[src].out > 0

ReadTimer(v, x, evs) == IF "R" \in evs THEN BEV_RESET_GENERIC_READ_TIMEOUT(v, x) ELSE v
WriteTimer(v, x, evs) ==
    IF "W" \in evs /\ v[x].out > 0 THEN BEV_RESET_GENERIC_WRITE_TIMEOUT(v, x) ELSE v

(* The mark of the input, when bytes come in: be_pair_enable, to which     *)
(* unsuspending comes back, then finds nothing to hand over.               *)
Full(v, x) ==
    [IF v[x].rs = {} THEN be_pair_disable(v, x, {"R"}) ELSE v EXCEPT ![x].rs = @ \cup {"WM"}]
Open(v, x) ==
    IF v[x].rs # {} \/ "R" \notin v[x].en THEN v
    ELSE [ReadTimer(v, x, {"R"}) EXCEPT ![x].bad = @ \/ be_pair_wants_to_talk(v, other(x))]
Arrived(v, x) ==
    IF v[x].high = 0 THEN v
    ELSE IF v[x].in >= v[x].high THEN Full(v, x)
    ELSE Open([v EXCEPT ![x].rs = @ \ {"WM"}], x)

(* A callback is put into the queue (see Bufferevent).                     *)
Defer(v, x, rw) ==
    IF ~v[x].cb THEN v
    ELSE [v EXCEPT ![x].pend = @ \cup {rw}, ![x].queued = TRUE,
                   ![x].ref = IF v[x].queued THEN @ ELSE @ + 1]

Room(v, x) == v[x].high - v[x].in
Limited(v, x) == v[x].high > 0 /\ Room(v, x) > 0

Moved(v, src, n) ==
    Arrived([v EXCEPT ![src].out = @ - n, ![other(src)].in = @ + n], other(src))

(* The timer of writing that is set again, or stopped, is that of dst.     *)
Retimed(v, dst, n) ==
    IF n = 0 THEN v
    ELSE IF v[dst].out > 0
    THEN BEV_RESET_GENERIC_WRITE_TIMEOUT(BEV_RESET_GENERIC_READ_TIMEOUT(v, dst), dst)
    ELSE [BEV_RESET_GENERIC_READ_TIMEOUT(v, dst) EXCEPT ![dst].evw = {}]

ReaderTold(v, dst) == IF v[dst].in >= v[dst].low THEN Defer(v, dst, "R") ELSE v
WriterTold(v, src) == IF v[src].out <= v[src].wlow THEN Defer(v, src, "W") ELSE v

be_pair_transfer(v, src, ignore_wm) ==
    LET dst == other(src)
        n == IF Limited(v, dst) THEN Room(v, dst) ELSE v[src].out
        moved == IF n < v[src].out THEN n ELSE v[src].out
    IN  IF v[dst].high > 0 /\ ~Limited(v, dst) /\ ~ignore_wm THEN v
        ELSE WriterTold(ReaderTold(Retimed(Moved(v, src, moved), dst, n), dst), src)

HandOver(v, src, asked) ==
    IF asked /\ Linked(v) /\ be_pair_wants_to_talk(v, src)
    THEN be_pair_transfer(v, src, FALSE) ELSE v

be_pair_enable(v, x, evs) ==
    HandOver(HandOver(WriteTimer(ReadTimer(v, x, evs), x, evs), other(x), "R" \in evs),
             x, "W" \in evs)

INSTANCE Bufferevent WITH Deferred <- TRUE, be_enable <- be_pair_enable,
                          be_disable <- be_pair_disable, be_destruct <- be_pair_destruct

be_pair_outbuf_cb(v, x) ==
    HandOver(v, x, TRUE)

(* References that are taken at the start are kept by the early returns.   *)
be_pair_flush(v, x, evs, mode) ==
    LET Flushed(z, src, asked) == IF asked THEN be_pair_transfer(z, src, TRUE) ELSE z
        Ended(z) == IF mode # "FINISHED" THEN z
                    ELSE _bufferevent_run_eventcb(z, other(x), evs \cup {"EOF"})
    IN  IF ~Linked(v) THEN bufferevent_incref(v, x)
        ELSE IF mode = "NORMAL" THEN bufferevent_incref(bufferevent_incref(v, x), other(x))
        ELSE Ended(Flushed(Flushed(v, other(x), "R" \in evs), x, "W" \in evs))

_bufferevent_generic_adj_timeouts(v, x) ==
    LET me == v[x]
        r == "R" \in me.en /\ me.rs = {} /\ me.trd
        wr == "W" \in me.en /\ me.ws = {} /\ me.twr /\ me.out > 0
    IN  [v EXCEPT ![x].evr = IF r THEN {"timed"} ELSE {},
                  ![x].evw = IF wr THEN {"timed"} ELSE {}]

bufferevent_pair_new == [x \in Pair |-> bufferevent_init_common]

Init == w = bufferevent_pair_new /\ op = "new"

-----------------------------------------------------------------------------
(* The event loop and the application                                      *)

Do(name, v) == name \in Does /\ op' = name /\ w' = v
Now == [x \in Pair |-> [w[x] EXCEPT !.calls = <<>>]]

Timeout(x) ==
    \E rw \in {"R", "W"} :
        /\ (IF rw = "R" THEN w[x].evr ELSE w[x].evw) # {}
        /\ LET fired == [Now EXCEPT ![x].evr = IF rw = "R" THEN {} ELSE @,
                                    ![x].evw = IF rw = "W" THEN {} ELSE @]
           IN  Do("timeout", bufferevent_generic_timeout_cb(fired, x, rw))

DeferredCallbacks(x) ==
    w[x].queued /\ Do("deferred", bufferevent_run_deferred_callbacks(Now, x))

(* The input may hold more than its mark after a flush.                    *)
Application(x) ==
    /\ ~w[x].freed
    /\ \/ \E n \in 1 .. MaxLen - w[x].out - w[other(x)].in :
             Do("write", be_pair_outbuf_cb([Now EXCEPT ![x].out = @ + n], x))
       \/ \E n \in 1 .. w[x].in : Do("read", InputShrank(Now, x, n))
       \/ \E e \in {"R", "W"} : \/ Do("enable", bufferevent_enable(Now, x, {e}))
                                \/ Do("disable", bufferevent_disable(Now, x, {e}))
                                \/ Linked(w) /\ Do("flush", be_pair_flush(Now, x, {e}, "FLUSH"))
                                \/ Linked(w) /\ Do("finish", be_pair_flush(Now, x, {e}, "FINISHED"))
                                \/ w[x].ref < MaxRef /\ Do("flush normally", be_pair_flush(Now, x, {e}, "NORMAL"))
       \/ \E h \in Marks : Do("watermark", bufferevent_setwatermark(Now, x, 0, h))
       \/ Do("timeouts", _bufferevent_generic_adj_timeouts(
                            [Now EXCEPT ![x].trd = TRUE, ![x].twr = TRUE], x))
       \/ Do("free", bufferevent_free(Now, x))

Next == \E x \in Pair : Timeout(x) \/ DeferredCallbacks(x) \/ Application(x)

Spec == Init /\ [][Next]_vars

-----------------------------------------------------------------------------
(* Properties                                                              *)

(* What one side wrote and the other wants to read has been handed over,   *)
(* whoever was enabled, drained or unsuspended last (bufferevent_pair.c:   *)
(* 219-264).                                                               *)
NothingStuck ==
    /\ \A x \in Pair : ~w[x].bad
    /\ Linked(w) => \A x \in Pair : ~be_pair_wants_to_talk(w, x)

(* The input of a side with a mark grows beyond it in a flush only.        *)
WithinMark ==
    \A x \in Pair : w'[x].in > w[x].in /\ w'[x].high > 0 /\ op' \notin {"flush", "finish"}
                      => w'[x].in <= w'[x].high

(* The references are those of the application and of callbacks that wait. *)
References ==
    \A x \in Pair :
        /\ w[x].ref = (IF w[x].freed THEN 0 ELSE 1) + (IF w[x].queued THEN 1 ELSE 0)
        /\ w[x].gone <=> w[x].ref = 0

=============================================================================
