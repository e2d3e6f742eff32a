------------------------- MODULE BuffereventFilter -------------------------
(***************************************************************************)
(* A filtering bufferevent on top of another bufferevent                   *)
(* (bufferevent_filter.c).  Data is counted in bytes.  f is the filter, u  *)
(* the underlying bufferevent, which a socket fills and drains, io what    *)
(* has passed the two ends.  Callbacks of the user run at once (no         *)
(* BEV_OPT_DEFER_CALLBACKS); what they do is chosen with the event that    *)
(* leads to them.  Timeouts are those of BuffereventPair and left out.     *)
(***************************************************************************)
EXTENDS Integers

CONSTANTS
    Filter,          \* "null", or "pairs": a filter that moves two bytes at a time
    Close,           \* BEV_OPT_CLOSE_ON_FREE
    ReadHigh,        \* wm_read.high of the filter, 0 for none
    WriteHigh,       \* wm_write.high of the underlying bufferevent, 0 for none
    MaxIn, MaxOut    \* bounds: bytes that arrive, bytes that the user writes

WatermarksAssumption == {ReadHigh, WriteHigh, MaxIn, MaxOut} \subseteq Nat

VARIABLES f, u, io

vars == <<f, u, io>>
Now == [f |-> f, u |-> u, io |-> io]
Becomes(s) == f' = s.f /\ u' = s.u /\ io' = s.io

-----------------------------------------------------------------------------
(* bufferevent_filter_new *)
Init ==
    /\ f = [ref |-> 1, cbs |-> TRUE, reads |-> FALSE, writes |-> TRUE, wmsusp |-> FALSE,
            input |-> 0, output |-> 0, got_eof |-> FALSE, told |-> TRUE, flushed |-> FALSE]
    /\ u = [ref |-> 2, mine |-> TRUE, cb |-> TRUE, reads |-> TRUE, susp |-> TRUE, input |-> 0, output |-> 0]
    /\ io = [arrived |-> 0, eof |-> FALSE, taken |-> 0, added |-> 0, sent |-> 0]

(* A filter that is asked to move some of n bytes, up to lim or any number  *)
(* if lim is -1.  be_null_filter takes 0 for success of                     *)
(* evbuffer_remove_buffer, which returns the number of bytes it moved.      *)
Most(n, lim) == IF lim = -1 \/ n < lim THEN n ELSE lim
Process(n, lim, mode) ==
    CASE Filter = "null" -> [moved |-> Most(n, lim), res |-> IF Most(n, lim) = 0 THEN "ok" ELSE "error"]
      [] Filter = "pairs" /\ mode # "normal" -> [moved |-> n, res |-> "ok"]
      [] OTHER -> [moved |-> 2 * (Most(n, lim) \div 2), res |-> IF Most(n, lim) > 1 THEN "ok" ELSE "more"]

be_underlying_writebuf_full(s, mode) == mode = "normal" /\ WriteHigh > 0 /\ s.u.output >= WriteHigh
be_readbuf_full(s, mode) == mode = "normal" /\ ReadHigh > 0 /\ s.f.input >= ReadHigh

(* Suspending the filter's reading, for the watermark or because the user   *)
(* disables it, suspends the underlying one's (BEV_SUSPEND_FILT_READ).      *)
be_filter_enable(s) == [s EXCEPT !.u.susp = FALSE]
be_filter_disable(s) == [s EXCEPT !.u.susp = TRUE]

(* bufferevent_inbuf_wm_cb, after every change of the filter's input.       *)
InputChanged(s) ==
    CASE ReadHigh > 0 /\ s.f.input >= ReadHigh ->
            be_filter_disable([s EXCEPT !.f.wmsusp = TRUE])
      [] ReadHigh > 0 /\ s.f.input < ReadHigh /\ s.f.reads ->
            be_filter_enable([s EXCEPT !.f.wmsusp = FALSE])
      [] OTHER -> [s EXCEPT !.f.wmsusp = FALSE]

(* What the user's callbacks do: take what was read, or free the filter;    *)
(* write more.  bufferevent_free drops the user's reference and callbacks.  *)
Reads == [take : BOOLEAN, free : BOOLEAN]
Ends == [free : BOOLEAN]
Writes == [write : 0 .. 2]
Released(s) == [s EXCEPT !.f.ref = @ - 1, !.f.cbs = FALSE]
Taken(s, n) == InputChanged([s EXCEPT !.f.input = @ - n, !.io.taken = @ + n])

run_readcb(s, c) ==
    LET t == IF c.take THEN Taken(s, s.f.input) ELSE s IN
    CASE ~ s.f.cbs -> s
      [] s.f.cbs /\ c.free -> Released([t EXCEPT !.f.told = TRUE])
      [] OTHER -> [t EXCEPT !.f.told = TRUE]

-----------------------------------------------------------------------------
(* Mutant of ReadLimit: the limit is the watermark, whatever is there.      *)
Mutant_ReadLimit(s, mode) == IF mode = "normal" /\ ReadHigh > 0 THEN ReadHigh ELSE -1

ReadLimit(s, mode) == IF mode = "normal" /\ ReadHigh > 0 THEN ReadHigh - s.f.input ELSE -1

MoveIn(s, r) == InputChanged([s EXCEPT !.u.input = @ - r.moved, !.f.input = @ + r.moved,
                                       !.f.told = @ /\ r.moved = 0])

RECURSIVE InLoop(_, _, _), InLooped(_, _, _, _)
InLooped(t, mode, processed, res) ==
    IF res = "ok" /\ t.f.reads /\ t.u.input > 0 /\ ~ be_readbuf_full(t, mode)
    THEN InLoop(t, mode, TRUE)
    ELSE [s |-> t, processed |-> processed \/ res = "ok"]
InLoop(s, mode, processed) ==
    LET r == Process(s.u.input, ReadLimit(s, mode), mode) IN
    InLooped(MoveIn(s, r), mode, processed, r.res)

be_filter_process_input(s, mode) ==
    IF mode = "normal" /\ (~ s.f.reads \/ be_readbuf_full(s, mode)) THEN [s |-> s, processed |-> FALSE]
    ELSE InLoop(s, mode, FALSE)

WriteLimit(s, mode) == IF mode = "normal" /\ WriteHigh > 0 THEN WriteHigh - s.u.output ELSE -1
MoveOut(s, r) == [s EXCEPT !.f.output = @ - r.moved, !.u.output = @ + r.moved]
More(s, mode) == s.f.writes /\ s.f.output > 0 /\ ~ be_underlying_writebuf_full(s, mode)

RECURSIVE OutLoop(_, _, _, _), OutLooped(_, _, _, _, _), run_writecb(_, _)

be_filter_process_output(s, mode, c) ==
    IF mode = "normal" /\ ~ More(s, mode) THEN s ELSE OutLoop(s, mode, FALSE, c)

(* What the user writes to the filter's output runs                        *)
(* bufferevent_filtered_outbuf_cb at once, in the write callback too:      *)
(* evbuffer_cb_set_flags(.., 0) does not switch it off, for it only sets   *)
(* flags (buffer.c:3009), so that be_filter_process_output is entered      *)
(* again from its own call of the write callback.                          *)
Written(s, n, c) ==
    LET t == [s EXCEPT !.f.output = @ + n, !.io.added = @ + n] IN
    IF n > 0 THEN be_filter_process_output(t, "normal", c) ELSE s

run_writecb(s, c) ==
    IF s.f.cbs THEN Written(s, IF s.io.added + c.write <= MaxOut THEN c.write ELSE 0, c) ELSE s

Again(s, mode, res, c) == IF res = "ok" /\ More(s, mode) THEN OutLoop(s, mode, FALSE, c) ELSE s
OutLooped(t, mode, processed, res, c) ==
    CASE res = "ok" /\ More(t, mode) -> OutLoop(t, mode, TRUE, c)
      [] ~ (res = "ok" /\ More(t, mode)) /\ (processed \/ res = "ok") /\ t.f.output = 0 ->
            Again(run_writecb(t, c), mode, res, c)
      [] OTHER -> t
OutLoop(s, mode, processed, c) ==
    LET r == Process(s.f.output, WriteLimit(s, mode), mode) IN
    OutLooped(MoveOut(s, r), mode, processed, r.res, c)

-----------------------------------------------------------------------------
(* _bufferevent_decref_and_unlock and be_filter_destruct *)

Decref(s) == [s EXCEPT !.u.ref = @ - 1]

be_filter_destruct(s) ==
    CASE Close /\ s.u.ref < 2 -> s
      [] Close /\ s.u.ref >= 2 -> Decref([s EXCEPT !.u.cb = FALSE, !.u.mine = FALSE])
      [] OTHER -> [s EXCEPT !.u.cb = FALSE, !.u.susp = FALSE]

Unlocked(s) == IF s.f.ref > 0 THEN s ELSE Decref(be_filter_destruct(s))

be_filter_readcb(s, c) ==
    LET r == be_filter_process_input(s, IF s.f.got_eof THEN "finished" ELSE "normal") IN
    Unlocked(IF r.processed /\ r.s.f.input >= 0 THEN run_readcb(r.s, c) ELSE r.s)

(* Mutant of be_filter_writecb: room in the underlying buffer is not used.  *)
Mutant_be_filter_writecb(s, c) == Unlocked(s)

be_filter_writecb(s, c) == Unlocked(be_filter_process_output(s, "normal", c))
be_filter_eventcb(s, c) == Unlocked(IF s.f.cbs /\ c.free THEN Released(s) ELSE s)

Live == f.ref > 0

(* The socket has data, room or an end for the underlying bufferevent.      *)
NetRead == \E n \in 1 .. 2, c \in Reads :
    LET s == [Now EXCEPT !.u.input = @ + n, !.io.arrived = @ + n] IN
    /\ u.ref > 0 /\ u.reads /\ ~ u.susp /\ ~ io.eof /\ io.arrived + n <= MaxIn
    /\ Becomes(IF u.cb THEN be_filter_readcb(s, c) ELSE s)

NetWrite == \E n \in 1 .. u.output, c \in Writes :
    LET s == [Now EXCEPT !.u.output = @ - n, !.io.sent = @ + n] IN
    /\ u.ref > 0
    /\ Becomes(IF u.cb /\ s.u.output = 0 THEN be_filter_writecb(s, c) ELSE s)

NetEof == \E c \in Ends :
    LET s == [Now EXCEPT !.u.reads = FALSE, !.io.eof = TRUE] IN
    /\ u.ref > 0 /\ u.reads /\ ~ u.susp /\ ~ io.eof
    /\ Becomes(IF u.cb THEN be_filter_eventcb(s, c) ELSE s)

(* What the user does.                                                     *)
Write == \E n \in 1 .. 2, c \in Writes :
    /\ Live /\ f.cbs /\ io.added + n <= MaxOut
    /\ Becomes(Unlocked(Written(Now, n, c)))

Drain == Live /\ f.cbs /\ f.input > 0 /\ Becomes(Taken(Now, 1))

EnableRead == /\ Live /\ f.cbs /\ ~ f.reads
              /\ LET s == [Now EXCEPT !.f.reads = TRUE] IN
                 Becomes(IF f.wmsusp THEN s ELSE be_filter_enable(s))
DisableRead == Live /\ f.cbs /\ f.reads /\ Becomes(be_filter_disable([Now EXCEPT !.f.reads = FALSE]))
EnableWrite == Live /\ f.cbs /\ ~ f.writes /\ Becomes([Now EXCEPT !.f.writes = TRUE])
DisableWrite == Live /\ f.cbs /\ f.writes /\ Becomes([Now EXCEPT !.f.writes = FALSE])

(* bufferevent_flush on the underlying socket does nothing.                 *)
be_filter_flush(s, iotype, mode, c) ==
    LET t == IF "read" \in iotype THEN be_filter_process_input(s, mode).s ELSE s IN
    Unlocked(IF "write" \in iotype THEN be_filter_process_output(t, mode, c) ELSE t)

Flush == \E iotype \in {{"read"}, {"write"}, {"read", "write"}}, mode \in {"flush", "finished"}, c \in Writes :
    Live /\ f.cbs /\ Becomes(be_filter_flush([Now EXCEPT !.f.flushed = TRUE], iotype, mode, c))

FreeFilter == Live /\ f.cbs /\ Becomes(Unlocked(Released(Now)))
FreeUnderlying == u.mine /\ Becomes(Decref([Now EXCEPT !.u.cb = FALSE, !.u.mine = FALSE]))

NetNext == NetRead \/ NetWrite
UserNext == Write \/ Drain \/ EnableRead
Ending == NetEof \/ DisableRead \/ Flush \/ FreeFilter \/ FreeUnderlying
Next == NetNext \/ UserNext \/ Ending \/ EnableWrite \/ DisableWrite

Spec == Init /\ [][Next]_vars

(* The user who never disables writing.                                     *)
WritingNext == NetNext \/ UserNext \/ Ending

-----------------------------------------------------------------------------
TypeOK ==
    /\ f.ref \in 0 .. 1 /\ u.ref \in 0 .. 2
    /\ {f.input, f.output, u.input, u.output} \subseteq Nat
    /\ io.arrived = u.input + f.input + io.taken /\ io.added = f.output + u.output + io.sent

(* The underlying bufferevent is referenced by its user and by the filter,  *)
(* also when one is freed in a callback of the other: it lives as long as   *)
(* either, and a filter that is gone is not called.  Without                *)
(* BEV_OPT_CLOSE_ON_FREE its user has it back, reading as before.           *)
Detached ==
    /\ u.ref = (IF u.mine THEN 1 ELSE 0) + f.ref
    /\ f.ref = 0 => ~ u.cb
    /\ f.ref = 0 /\ Close => u.ref = 0
    /\ f.ref = 0 /\ ~ Close => ~ u.susp

(* Filters that keep to their limit do not overfill the buffers: neither    *)
(* the filter's input nor the underlying output exceeds its high watermark  *)
(* until the user asks for a flush (be_filter_process_input and             *)
(* be_filter_process_output compute the limits).                            *)
WatermarksKept ==
    ~ f.flushed => /\ ReadHigh > 0 => f.input <= ReadHigh
                   /\ WriteHigh > 0 => u.output <= WriteHigh

(* Between two events no data lies in the output that the filter would move *)
(* and the underlying bufferevent would take, what the write callback adds  *)
(* included.                                                                *)
NoForgottenOutput ==
    Live /\ u.cb /\ f.writes /\ u.output = 0 => f.output < 2

(* What arrives in the input is announced with the read callback, in the    *)
(* same step (be_filter_readcb; a flush announces nothing).                 *)
ReadcbRuns == Live /\ f.cbs /\ ~ f.flushed => f.told

=============================================================================
