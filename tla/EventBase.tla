----------------------------- MODULE EventBase -----------------------------
(***************************************************************************)
(* libevent's event base, libevent/event.c: events that are added, deleted *)
(* and activated, the queues they are kept in, timers in the heap and in   *)
(* the list of one common timeout, deferred callbacks, and the loop that   *)
(* dispatches them.  One thread uses the base, as in this server (thread   *)
(* support is never switched on): the application calls into libevent      *)
(* between loops and from callbacks.  The state is the struct event_base   *)
(* with its events; the functions of event.c are operators that take and   *)
(* return it, so that a function that calls others is a composition.       *)
(* Which descriptors and signals are ready is the environment's choice.    *)
(***************************************************************************)
EXTENDS Integers, Sequences, FiniteSets, SequencesExt

CONSTANTS Ev,           \* the application's events
          Kind,         \* [Ev -> {"io", "signal", "timer"}]
          Persist,      \* the events with EV_PERSIST
          NPri,         \* nactivequeues
          Deferred,     \* the application's deferred callbacks
          MaxDeferred,  \* MAX_DEFERRED
          Delay,        \* the delays that event_add is given
          CommonDelay,  \* the delays that have a common timeout, at most one
          MonotonicClock, \* use_monotonic
          MaxTime,      \* bound on the clock
          MaxOps,       \* bound on the calls of the application
          CTL,          \* ctl->timeout_event, the timer of the common list
          EXIT          \* the event_once of event_base_loopexit

EvAssumption == {CTL, EXIT} \cap Ev = {} /\ CTL # EXIT
KindAssumption == Kind \in [Ev -> {"io", "signal", "timer"}]
BoundAssumption ==
    /\ NPri \in Nat \ {0} /\ MaxDeferred \in Nat \ {0}
    /\ MaxTime \in Nat /\ MaxOps \in Nat /\ Delay \cup CommonDelay \subseteq Nat
    /\ Cardinality(CommonDelay) <= 1

VARIABLES
    base,      \* struct event_base and its events
    pc,        \* where event_base_loop is
    at,        \* the queue, the event or the callback it works on
    clock,     \* the system clock
    ops,       \* calls made so far
    asked      \* what the application asked of each event last

vars == <<base, pc, at, clock, ops, asked>>

Event == Ev \cup {CTL, EXIT}
KindOf(e) == IF e \in Ev THEN Kind[e] ELSE "timer"
Internal(e) == e = CTL
NoTime == [tv |-> -1, common |-> FALSE]
NoLoop == [ev |-> EXIT, n |-> 0]

(* event_base_new, event_base_priority_init, event_base_init_common_timeout *)
(* and event_assign, which puts events into the middle priority.           *)
NewBase ==
    [flags |-> [e \in Event |-> {}],
     pri |-> [e \in Event |-> IF Internal(e) THEN 0 ELSE NPri \div 2],
     timeout |-> [e \in Event |-> NoTime],
     io_timeout |-> [e \in Event |-> NoTime],
     res |-> [e \in Event |-> {}],
     ncalls |-> [e \in Event |-> 0],
     pncalls |-> [e \in Event |-> FALSE],  \* points to the loop's counter
     loop |-> NoLoop,                      \* the counter of event_signal_closure
     eventqueue |-> <<>>,
     activequeues |-> [i \in 0 .. NPri - 1 |-> <<>>],
     timeheap |-> {},
     ctl |-> <<>>,
     event_count |-> 0,
     event_count_active |-> 0,
     defer_queue |-> <<>>,
     event_running_priority |-> 0,
     event_gotterm |-> FALSE, event_break |-> FALSE, event_continue |-> FALSE,
     tv_cache |-> -1, event_tv |-> 1,
     fatal |-> FALSE]    \* event_errx or a failed EVUTIL_ASSERT

Init ==
    /\ base = NewBase
    /\ pc = "idle"
    /\ at = [i |-> 0, count |-> 0, flag |-> "none", cb |-> EXIT]
    /\ clock = 1
    /\ ops = 0
    /\ asked = [e \in Ev |-> "nothing"]

(* Mutant of N_ACTIVE_CALLBACKS: deferred callbacks are not counted.      *)
Mutant_no_deferred(b) == b.event_count_active
gettime(b) == IF b.tv_cache >= 0 THEN b.tv_cache ELSE clock
N_ACTIVE_CALLBACKS(b) == b.event_count_active + Len(b.defer_queue)
event_haveevents(b) == b.event_count > 0
Fatal(b) == [b EXCEPT !.fatal = TRUE]
Drop(s, e) == SelectSeq(s, LAMBDA x : x # e)

-----------------------------------------------------------------------------
(* The queues                                                              *)

(* After the last event that is not due later, searching from the end.     *)
insert_common_timeout_inorder(b, e) ==
    LET before == {i \in 1 .. Len(b.ctl) :
                      b.timeout[b.ctl[i]].tv <= b.timeout[e].tv}
    IN  [b EXCEPT !.ctl = InsertAt(@, 1 + Max(before \cup {0}), e)]

event_queue_insert(b, e, q) ==
    IF q \in b.flags[e]
    THEN IF q = "ACTIVE" THEN b ELSE Fatal(b)
    ELSE LET c == [b EXCEPT !.flags[e] = @ \cup {q},
                            !.event_count = @ + (IF Internal(e) THEN 0 ELSE 1)]
         IN  CASE q = "INSERTED" -> [c EXCEPT !.eventqueue = Append(@, e)]
               [] q = "ACTIVE" ->
                    [c EXCEPT !.event_count_active = @ + 1,
                              !.activequeues[b.pri[e]] = Append(@, e)]
               [] q = "TIMEOUT" /\ b.timeout[e].common ->
                    insert_common_timeout_inorder(c, e)
               [] OTHER -> [c EXCEPT !.timeheap = @ \cup {e}]

event_queue_remove(b, e, q) ==
    IF q \notin b.flags[e]
    THEN Fatal(b)
    ELSE LET c == [b EXCEPT !.flags[e] = @ \ {q},
                            !.event_count = @ - (IF Internal(e) THEN 0 ELSE 1)]
         IN  CASE q = "INSERTED" -> [c EXCEPT !.eventqueue = Drop(@, e)]
               [] q = "ACTIVE" ->
                    [c EXCEPT !.event_count_active = @ - 1,
                              !.activequeues[b.pri[e]] = Drop(@, e)]
               [] q = "TIMEOUT" /\ b.timeout[e].common ->
                    [c EXCEPT !.ctl = Drop(@, e)]
               [] OTHER -> [c EXCEPT !.timeheap = @ \ {e}]

RemoveIf(b, e, q) ==
    IF q \in b.flags[e] THEN event_queue_remove(b, e, q) ELSE b

(* "Abort loop": *ev->ev_pncalls = 0 ends the loop of event_signal_closure *)
(* that still runs for this event.  A pointer that outlived its loop is    *)
(* written through all the same, outside of what is modelled.              *)
AbortLoop(b, e) ==
    IF KindOf(e) = "signal" /\ b.ncalls[e] # 0 /\ b.pncalls[e]
           /\ b.loop.ev = e
    THEN [b EXCEPT !.loop.n = 0] ELSE b

(* The end of event_add_internal: the timer is moved to its new time; an   *)
(* event that is active because of its old time is no longer so.           *)
SetTimeout(b, e, t) ==
    LET c == RemoveIf(b, e, "TIMEOUT")
        d == IF "ACTIVE" \in c.flags[e] /\ "TIMEOUT" \in c.res[e]
             THEN event_queue_remove(AbortLoop(c, e), e, "ACTIVE") ELSE c
    IN  event_queue_insert([d EXCEPT !.timeout[e] = t], e, "TIMEOUT")

(* Mutant of common_timeout_schedule: the timer of the list is only set    *)
(* when it is not set already.                                             *)
Mutant_keep_timer(b, head) ==
    IF "TIMEOUT" \in b.flags[CTL] THEN b
    ELSE SetTimeout(b, CTL, [tv |-> b.timeout[head].tv + 1, common |-> FALSE])

(* The timer of the common list is set to the time of the first event.     *)
common_timeout_schedule(b, head) ==
    SetTimeout(b, CTL, [tv |-> b.timeout[head].tv, common |-> FALSE])

(* event_add_internal; tv is NoTime for NULL.                              *)
event_add_internal(b, e, tv, absolute) ==
    LET b1 == IF KindOf(e) # "timer"
                     /\ b.flags[e] \cap {"INSERTED", "ACTIVE"} = {}
              THEN event_queue_insert(b, e, "INSERTED") ELSE b
        b2 == IF e \in Persist /\ KindOf(e) # "signal" /\ ~absolute
              THEN [b1 EXCEPT !.io_timeout[e] = tv] ELSE b1
        b3 == SetTimeout(b2, e, IF absolute THEN tv
                                ELSE [tv EXCEPT !.tv = gettime(b) + @])
    IN  IF tv = NoTime THEN b1
        ELSE IF b3.timeout[e].common /\ b3.ctl[1] = e
             THEN common_timeout_schedule(b3, e) ELSE b3

event_del_internal(b, e) ==
    LET b1 == RemoveIf(AbortLoop(b, e), e, "TIMEOUT")
        b2 == RemoveIf(b1, e, "ACTIVE")
    IN  RemoveIf(b2, e, "INSERTED")

event_active_nolock(b, e, res, n) ==
    IF "ACTIVE" \in b.flags[e]
    THEN [b EXCEPT !.res[e] = @ \cup res]
    ELSE LET signal == KindOf(e) = "signal"
         IN  event_queue_insert(
                 [b EXCEPT !.res[e] = res,
                           !.event_continue =
                               @ \/ b.pri[e] < b.event_running_priority,
                           !.ncalls[e] = IF signal THEN n ELSE @,
                           !.pncalls[e] = IF signal THEN FALSE ELSE @],
                 e, "ACTIVE")

(* An event whose time has come: off every queue, then active.             *)
TimeUp(b, e) == event_active_nolock(event_del_internal(b, e), e, {"TIMEOUT"}, 1)

-----------------------------------------------------------------------------
(* Calls of the application, between loops and in callbacks                *)

Calls == pc \in {"idle", "callback", "deferred_cb"} /\ ops < MaxOps

Called(b) == base' = b /\ ops' = ops + 1 /\ UNCHANGED <<pc, at, clock>>

event_add(e, tv) ==
    /\ Calls
    /\ KindOf(e) = "timer" => tv # NoTime
    /\ Called(event_add_internal(base, e, tv, FALSE))
    /\ asked' = [asked EXCEPT ![e] = IF tv = NoTime THEN "wait" ELSE "timeout"]

(* Mutant of event_del: an event that is active already stays so.          *)
Mutant_keep_active(e) ==
    /\ Calls
    /\ Called(IF "ACTIVE" \in base.flags[e] THEN base
              ELSE event_del_internal(base, e))
    /\ asked' = [asked EXCEPT ![e] = "delete"]

event_del(e) ==
    /\ Calls
    /\ Called(event_del_internal(base, e))
    /\ asked' = [asked EXCEPT ![e] = "delete"]

event_active(e, n) ==
    /\ Calls
    /\ Called(event_active_nolock(base, e, {"READ"}, n))
    /\ asked' = [asked EXCEPT ![e] = IF @ = "wait" THEN "wait" ELSE "active"]

event_priority_set(e, p) ==
    /\ Calls
    /\ "ACTIVE" \notin base.flags[e]
    /\ Called([base EXCEPT !.pri[e] = p])
    /\ UNCHANGED asked

event_deferred_cb_schedule(c) ==
    /\ Calls
    /\ c \notin Range(base.defer_queue)
    /\ Called([base EXCEPT !.defer_queue = Append(@, c)])
    /\ UNCHANGED asked

event_deferred_cb_cancel(c) ==
    /\ Calls
    /\ c \in Range(base.defer_queue)
    /\ Called([base EXCEPT !.defer_queue = Drop(@, c)])
    /\ UNCHANGED asked

event_base_loopbreak ==
    /\ Calls
    /\ Called([base EXCEPT !.event_break = TRUE])
    /\ UNCHANGED asked

(* event_base_once allocates an event; one at a time is modelled.          *)
event_base_loopexit(d) ==
    /\ Calls
    /\ base.flags[EXIT] = {}
    /\ Called(event_add_internal(base, EXIT, [tv |-> d, common |-> FALSE], FALSE))
    /\ UNCHANGED asked

(* Every queue is emptied; the assertions at the end are fatal.            *)
event_base_free ==
    /\ pc = "idle"
    /\ ops < MaxOps
    /\ LET others == SetToSeq({e \in Event : ~Internal(e)})
           b == FoldLeft(event_del_internal, event_del_internal(base, CTL), others)
       IN  base' = IF b.timeheap # {} \/ b.eventqueue # <<>>
                          \/ \E i \in DOMAIN b.activequeues :
                                b.activequeues[i] # <<>>
                   THEN Fatal(b) ELSE b
    /\ pc' = "freed"
    /\ UNCHANGED <<at, clock, ops, asked>>

-----------------------------------------------------------------------------
(* event_base_loop                                                         *)

Step(b, next) == base' = b /\ pc' = next /\ UNCHANGED <<clock, ops, asked>>

(* A call of event_base_loop; in a callback it is refused.                 *)
loop_start(flag) ==
    /\ pc = "idle"
    /\ ops < MaxOps
    /\ base' = [base EXCEPT !.tv_cache = -1, !.event_gotterm = FALSE,
                            !.event_break = FALSE]
    /\ at' = [at EXCEPT !.flag = flag]
    /\ pc' = "head"
    /\ ops' = ops + 1
    /\ UNCHANGED <<clock, asked>>

(* A clock that went backwards moves every timer by the same amount.       *)
timeout_correct(b) ==
    LET now == gettime(b)
        off == b.event_tv - now
    IN  IF MonotonicClock THEN b
        ELSE [b EXCEPT !.event_tv = now,
                       !.timeout = [e \in Event |->
                          IF off > 0 /\ e \in b.timeheap \cup Range(b.ctl)
                          THEN [@[e] EXCEPT !.tv = @ - off] ELSE @[e]]]

(* The head of the loop, up to evsel->dispatch.                            *)
loop_head ==
    /\ pc = "head"
    /\ LET b1 == [base EXCEPT !.event_continue = FALSE]
           b2 == timeout_correct(b1)
           b3 == [b2 EXCEPT !.event_tv = gettime(b2), !.tv_cache = -1]
       IN  IF base.event_gotterm \/ base.event_break
           THEN Step([b1 EXCEPT !.tv_cache = -1], "idle")
           ELSE IF ~event_haveevents(b2) /\ N_ACTIVE_CALLBACKS(b2) = 0
           THEN Step([b2 EXCEPT !.tv_cache = -1], "idle")
           ELSE Step(b3, "dispatch")
    /\ UNCHANGED at

(* timeout_next: how long dispatch may wait; -1 is for ever.               *)
timeout_next(b) ==
    IF b.timeheap = {} THEN -1
    ELSE Max({0} \cup {Min({b.timeout[e].tv : e \in b.timeheap}) - clock})

Waits == at.flag # "NONBLOCK" /\ N_ACTIVE_CALLBACKS(base) = 0

(* evsel->dispatch returns with any of the inserted events ready, or with  *)
(* none when it does not wait or the first timer is due; signals may have  *)
(* been delivered twice.  The time is cached.                              *)
loop_dispatch(ready, n) ==
    /\ pc = "dispatch"
    /\ ready \subseteq Range(base.eventqueue)
    /\ ready # {} \/ ~Waits \/ timeout_next(base) = 0
    /\ LET b == FoldLeft(LAMBDA s, e : event_active_nolock(s, e, {"READ"}, n),
                         base, SetToSeq(ready))
       IN  Step([b EXCEPT !.tv_cache = clock], "timeouts")
    /\ UNCHANGED at

(* evsel->dispatch reports -1 (epoll_wait failed for another reason than a *)
(* signal): the loop ends at once with -1.                                 *)
loop_fails ==
    /\ pc = "dispatch"
    /\ Step([base EXCEPT !.tv_cache = -1], "idle")
    /\ UNCHANGED at

(* One round of timeout_process: the event at the top of the heap is due.  *)
timeout_process(e) ==
    /\ pc = "timeouts"
    /\ e \in base.timeheap
    /\ \A f \in base.timeheap : base.timeout[e].tv <= base.timeout[f].tv
    /\ base.timeout[e].tv <= gettime(base)
    /\ Step(TimeUp(base, e), "timeouts")
    /\ UNCHANGED at

timeouts_done ==
    /\ pc = "timeouts"
    /\ \A e \in base.timeheap : base.timeout[e].tv > gettime(base)
    /\ IF N_ACTIVE_CALLBACKS(base) > 0
       THEN Step(base, "active") /\ at' = [at EXCEPT !.i = 0, !.count = 0]
       ELSE /\ IF at.flag = "NONBLOCK"
               THEN Step([base EXCEPT !.tv_cache = -1], "idle")
               ELSE Step(base, "head")
            /\ UNCHANGED at

(* event_process_active: the first queue that holds an event, and the next *)
(* ones as long as only internal events were run.                          *)
process_active ==
    /\ pc = "active"
    /\ LET full == {i \in at.i .. NPri - 1 : base.activequeues[i] # <<>>}
       IN  IF full # {} /\ at.count = 0
           THEN /\ Step([base EXCEPT !.event_running_priority = Min(full)], "queue")
                /\ at' = [at EXCEPT !.i = Min(full)]
           ELSE /\ Step(base, "deferred")
                /\ at' = [at EXCEPT !.i = 0]

(* event_persist_closure: the next time is one interval after the one that *)
(* was due, or after now when another event came or that is past already.  *)
event_persist_closure(b, e) ==
    LET delay == b.io_timeout[e]
        now == gettime(b)
        from == IF "TIMEOUT" \in b.res[e] THEN b.timeout[e].tv ELSE now
        run_at == IF from + delay.tv < now THEN now + delay.tv ELSE from + delay.tv
    IN  IF delay = NoTime \/ delay = [tv |-> 0, common |-> FALSE] THEN b
        ELSE IF b.timeout[e].common # delay.common THEN Fatal(b)
        ELSE event_add_internal(b, e, [tv |-> run_at, common |-> delay.common], TRUE)

(* common_timeout_callback: every event of the list that is due, and the   *)
(* timer for the first that is not.                                        *)
common_timeout_callback(b) ==
    LET late == {i \in DOMAIN b.ctl : b.timeout[b.ctl[i]].tv > gettime(b)}
        n == IF late = {} THEN Len(b.ctl) ELSE Min(late) - 1
        c == FoldLeft(TimeUp, b, SubSeq(b.ctl, 1, n))
    IN  IF c.ctl = <<>> THEN c ELSE common_timeout_schedule(c, c.ctl[1])

(* event_process_active_single_queue up to the callback.  Internal         *)
(* callbacks and event_loopexit_cb are run in the step.                    *)
queue_next ==
    /\ pc = "queue"
    /\ base.activequeues[at.i] # <<>>
    /\ LET e == base.activequeues[at.i][1]
           b == IF e \in Persist THEN event_queue_remove(base, e, "ACTIVE")
                                 ELSE event_del_internal(base, e)
           Count == [at EXCEPT !.count = @ + (IF Internal(e) THEN 0 ELSE 1),
                               !.cb = e]
       IN  /\ at' = Count
           /\ CASE e = CTL -> Step(common_timeout_callback(b), "called")
                [] e = EXIT -> Step([b EXCEPT !.event_gotterm = TRUE], "called")
                [] KindOf(e) = "signal" ->
                     Step([b EXCEPT !.loop = [ev |-> e, n |-> b.ncalls[e]],
                                    !.pncalls[e] = (b.ncalls[e] # 0)], "signal")
                [] e \in Persist -> Step(event_persist_closure(b, e), "callback")
                [] OTHER -> Step(b, "callback")

(* event_signal_closure: once per delivery, until the event is deleted.    *)
signal_call ==
    /\ pc = "signal"
    /\ LET e == base.loop.ev
           n == base.loop.n - 1
       IN  IF base.loop.n = 0
           THEN Step([base EXCEPT !.loop = NoLoop], "called")
           ELSE Step([base EXCEPT !.loop.n = n, !.ncalls[e] = n,
                                  !.pncalls[e] = (n # 0 /\ @)], "callback")
    /\ UNCHANGED at

(* The callback returns.                                                   *)
callback_return ==
    /\ pc = "callback"
    /\ IF KindOf(at.cb) = "signal"
       THEN IF base.event_break
            THEN Step([base EXCEPT !.loop = NoLoop,
                          !.pncalls[at.cb] = @ /\ base.loop.n = 0], "called")
            ELSE Step(base, "signal")
       ELSE Step(base, "called")
    /\ UNCHANGED at

(* After the callback: stop, leave the queue, or take its next event.      *)
queue_after ==
    /\ \/ pc = "called"
       \/ pc = "queue" /\ base.activequeues[at.i] = <<>>
    /\ IF pc = "called" /\ base.event_break
       THEN /\ Step([base EXCEPT !.event_running_priority = -1], "end")
            /\ at' = [at EXCEPT !.count = -1]
       ELSE IF pc = "called" /\ ~base.event_continue
       THEN /\ Step(base, "queue")
            /\ UNCHANGED at
       ELSE /\ Step(base, "active")
            /\ at' = [at EXCEPT !.i = @ + 1]

(* event_process_deferred_callbacks, at most MAX_DEFERRED of them.         *)
deferred_next ==
    /\ pc = "deferred"
    /\ IF base.defer_queue # <<>> /\ at.i < MaxDeferred /\ (at.i > 0 => ~base.event_break)
       THEN /\ Step([base EXCEPT !.defer_queue = Tail(@)], "deferred_cb")
            /\ at' = [at EXCEPT !.i = @ + 1, !.cb = base.defer_queue[1]]
       ELSE /\ Step([base EXCEPT !.event_running_priority = -1], "end")
            /\ UNCHANGED at

deferred_return == pc = "deferred_cb" /\ Step(base, "deferred") /\ UNCHANGED at

(* The end of a round: with EVLOOP_ONCE the loop may be over.              *)
loop_end ==
    /\ pc = "end"
    /\ IF at.flag = "ONCE" /\ N_ACTIVE_CALLBACKS(base) = 0 /\ at.count # 0
       THEN Step([base EXCEPT !.tv_cache = -1], "idle")
       ELSE Step(base, "head")
    /\ UNCHANGED at

-----------------------------------------------------------------------------
(* The clock goes on while the loop waits or a callback runs; one that is  *)
(* not monotonic may be set back.                                          *)
tick ==
    /\ pc \in {"idle", "dispatch", "callback"}
    /\ clock < MaxTime
    /\ clock' = clock + 1
    /\ UNCHANGED <<base, pc, at, ops, asked>>

set_back ==
    /\ ~MonotonicClock
    /\ pc \in {"idle", "dispatch", "callback"}
    /\ clock > 1
    /\ ops < MaxOps
    /\ ops' = ops + 1
    /\ clock' = clock - 1
    /\ UNCHANGED <<base, pc, at, asked>>

Timeouts == {NoTime} \cup [tv : Delay, common : {FALSE}]
                     \cup [tv : CommonDelay, common : {TRUE}]

Application ==
    \/ \E e \in Ev, tv \in Timeouts : event_add(e, tv)
    \/ \E e \in Ev : event_del(e)
    \/ \E e \in Ev, n \in 1 .. 2 : event_active(e, n)
    \/ \E e \in Ev, p \in 0 .. NPri - 1 : event_priority_set(e, p)
    \/ \E c \in Deferred : event_deferred_cb_schedule(c) \/ event_deferred_cb_cancel(c)
    \/ event_base_loopbreak
    \/ \E d \in Delay : event_base_loopexit(d)
    \/ event_base_free
    \/ \E f \in {"none", "ONCE", "NONBLOCK"} : loop_start(f)

Loop ==
    \/ loop_head
    \/ \E r \in SUBSET Ev, n \in 1 .. 2 : loop_dispatch(r, n)
    \/ \E e \in Event : timeout_process(e)
    \/ timeouts_done \/ process_active \/ queue_next \/ signal_call
    \/ callback_return \/ queue_after \/ deferred_next \/ deferred_return
    \/ loop_end

Next == Application \/ Loop \/ loop_fails \/ tick \/ set_back

Spec == Init /\ [][Next]_vars

-----------------------------------------------------------------------------
(* Properties                                                              *)

(* The counters, the flags and the queues say the same: every event is on  *)
(* exactly the queues of its flags, once, and event_count, which decides   *)
(* whether the loop goes on, is the number of places non-internal events   *)
(* are in (event.c:2546-2657).                                             *)
QueuesAgree ==
    LET On(q) == {e \in Event : q \in base.flags[e]}
        Queue(i) == base.activequeues[i]
    IN  /\ Range(base.eventqueue) = On("INSERTED")
        /\ base.timeheap \cup Range(base.ctl) = On("TIMEOUT")
        /\ UNION {Range(Queue(i)) : i \in DOMAIN base.activequeues} = On("ACTIVE")
        /\ \A i \in DOMAIN base.activequeues :
              IsInjective(Queue(i)) /\ \A e \in Range(Queue(i)) : base.pri[e] = i
        /\ IsInjective(base.ctl) /\ IsInjective(base.eventqueue)
        /\ base.event_count_active = Cardinality(On("ACTIVE"))
        /\ base.event_count =
              Cardinality({on \in (Event \ {CTL}) \X {"INSERTED", "ACTIVE", "TIMEOUT"} :
                              on[2] \in base.flags[on[1]]})

(* The checks of the code itself never fail: no event is put on a queue it *)
(* is on or taken off one it is not on (event_errx, event.c:2551, 2627),   *)
(* a persistent event keeps its kind of timeout (event.c:1276) and nothing *)
(* is left when the base is freed (event.c:775-782).                       *)
ChecksHold == ~base.fatal

(* No event of the common timeout is forgotten: while the list is not      *)
(* empty it is sorted and its timer is active or set no later than the     *)
(* time of its first event (event.c:1142-1177, 2190-2196).                 *)
CommonHeadScheduled ==
    base.ctl # <<>> =>
        /\ \A i \in 1 .. Len(base.ctl) - 1 :
              base.timeout[base.ctl[i]].tv <= base.timeout[base.ctl[i + 1]].tv
        /\ \/ "ACTIVE" \in base.flags[CTL]
           \/ /\ CTL \in base.timeheap
              /\ base.timeout[CTL].tv <= base.timeout[base.ctl[1]].tv

(* "Lower priorities are always process before higher priorities."         *)
(* (event.c:1422): a callback starts only when no event of a lower         *)
(* priority number is active.                                              *)
LowerFirst ==
    pc = "queue" /\ pc' = "callback" =>
        \A i \in 0 .. at.i - 1 : base.activequeues[i] = <<>>

(* An event that was deleted is not called: when the callback of an I/O    *)
(* event or a timer starts, the last the application asked was not to      *)
(* delete it (event.c:2240-2311).                                          *)
DeletedNotCalled ==
    pc = "queue" /\ pc' = "callback" => asked[at'.cb] # "delete"

(* A loop that ends by itself has nothing left to wait for, so no timer    *)
(* and no active event is left behind (event.c:1608-1613).                 *)
EndsEmpty ==
    pc = "head" /\ pc' = "idle" /\ ~base.event_gotterm /\ ~base.event_break
        => \A e \in Event \ {CTL} : base.flags[e] = {}

=============================================================================
