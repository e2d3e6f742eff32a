----------------------------- MODULE EvSignal ------------------------------
(***************************************************************************)
(* Signals in libevent: the list of events of a signal (evmap.c) and the   *)
(* backend that catches it (signal.c).  The handler writes the number of   *)
(* the signal into the socket pair of ONE base, evsig_base; evsig_cb of    *)
(* that base reads the bytes in its loop, counts them and activates the    *)
(* events; the loop calls an active event later, once for each byte that   *)
(* made it active.  The dispositions, evsig_base and its descriptor belong *)
(* to the process, the lists and the saved handlers to a base.  Events are *)
(* persistent, as those of evsignal_new are.                               *)
(***************************************************************************)
EXTENDS Integers, FiniteSets, Functions

CONSTANTS Base,       \* event bases
          Sig,        \* signal numbers
          Ev,         \* signal events
          BaseOf,     \* [Ev -> Base]
          SigOf,      \* [Ev -> Sig]
          None,       \* evsig_base = NULL
          Room,       \* bytes that a socket pair holds
          MaxRaise,   \* bound on signals delivered
          MaxCalls    \* bound on adds, deletes and loops

EvAssumption == BaseOf \in [Ev -> Base] /\ SigOf \in [Ev -> Sig]
BoundAssumption == {Room, MaxRaise, MaxCalls} \subseteq Nat
NoneAssumption == None \notin Base \cup Ev

VARIABLES
    base,      \* [Base -> struct evsig_info and struct event_signal_map]
    glob,      \* evsig_base, evsig_base_n_signals_added and evsig_base_fd
    handler,   \* [Sig -> "original" or "evsig_handler"]
    active,    \* [Ev -> ev_ncalls while it is in the active queue, else 0]
    running,   \* [Base -> the signal event whose callback runs, or None]
    left,      \* [Base -> ncalls of its event_signal_closure]
    called,    \* [Ev -> calls of its callback]
    asserted,  \* an EVUTIL_ASSERT failed or a list was not there
    raised, calls   \* bounded counters

vars == <<base, glob, handler, active, running, left, called, asserted, raised,
          calls>>
queue == <<active, running, left>>

(* evsig_init: the socket pair is made, its event is not added yet.  A     *)
(* signal without a list has no slot in the map.  list has the events of a *)
(* signal, pair how often each signal's number is in the socket pair.      *)
Init ==
    /\ base = [x \in Base |-> [list |-> [s \in Sig |-> {}], slot |-> {},
                               sh_old |-> [s \in Sig |-> "none"],
                               ev_signal_added |-> FALSE,
                               ev_n_signals_added |-> 0,
                               life |-> "used", pair |-> [s \in Sig |-> 0]]]
    /\ glob = [base |-> None, n |-> 0]
    /\ handler = [s \in Sig |-> "original"]
    /\ active = [e \in Ev |-> 0] /\ called = [e \in Ev |-> 0]
    /\ running = [x \in Base |-> None] /\ left = [x \in Base |-> 0]
    /\ asserted = FALSE /\ raised = 0 /\ calls = 0

-----------------------------------------------------------------------------
(* signal.c: operators on the state w = [base, glob, handler].             *)

w == [base |-> base, glob |-> glob, handler |-> handler]

evsig_set_base(v, x) ==
    [v EXCEPT !.glob = [base |-> x, n |-> v.base[x].ev_n_signals_added]]

evsig_set_handler(v, x, s) ==
    [v EXCEPT !.base[x].sh_old[s] = v.handler[s], !.handler[s] = "evsig_handler"]

evsig_restore_handler(v, x, s) ==
    [v EXCEPT !.handler[s] = v.base[x].sh_old[s], !.base[x].sh_old[s] = "none"]

(* Mutant of evsig_add: the base is named when the handler is in place and *)
(* only if no base is named.                                               *)
Mutant_first_base(v, x, s) ==
    LET n == v.base[x].ev_n_signals_added + 1
        u == evsig_set_handler([v EXCEPT !.base[x].ev_n_signals_added = n,
                 !.glob = IF @.base = None THEN @ ELSE [base |-> x, n |-> n]], x, s)
    IN  [u EXCEPT !.base[x].ev_signal_added = TRUE]

evsig_add(v, x, s) ==
    LET n == v.base[x].ev_n_signals_added + 1
        u == evsig_set_handler([v EXCEPT !.base[x].ev_n_signals_added = n,
                                          !.glob = [base |-> x, n |-> n]], x, s)
    IN  [u EXCEPT !.base[x].ev_signal_added = TRUE]

evsig_del(v, x, s) ==
    evsig_restore_handler([v EXCEPT !.base[x].ev_n_signals_added = @ - 1,
                                     !.glob.n = @ - 1], x, s)

(* Each signal that is still caught gets back what the base had saved.     *)
evsig_dealloc(v, x) ==
    LET u == [v EXCEPT
            !.handler = [s \in Sig |-> IF v.base[x].sh_old[s] # "none"
                                       THEN v.base[x].sh_old[s] ELSE @[s]],
            !.base[x].sh_old = [s \in Sig |-> "none"],
            !.base[x].ev_signal_added = FALSE,
            !.base[x].life = "freed", !.base[x].pair = [s \in Sig |-> 0]]
    IN  IF v.glob.base = x THEN [u EXCEPT !.glob = [base |-> None, n |-> 0]] ELSE u

-----------------------------------------------------------------------------
(* evmap.c                                                                 *)

evmap_signal_add(v, e) ==
    LET x == BaseOf[e]
        s == SigOf[e]
        u == IF v.base[x].list[s] = {} THEN evsig_add(v, x, s) ELSE v
    IN  [u EXCEPT !.base[x].slot = @ \cup {s}, !.base[x].list[s] = @ \cup {e}]

evmap_signal_del(v, e) ==
    LET x == BaseOf[e]
        s == SigOf[e]
        u == IF v.base[x].list[s] = {e} THEN evsig_del(v, x, s) ELSE v
    IN  [u EXCEPT !.base[x].list[s] = @ \ {e}]

(* What evsig_cb finds in the pair: how often each signal was caught.      *)
ncaught(x) == base[x].pair
Bytes(x) == FoldFunction(LAMBDA m, n : m + n, 0, base[x].pair)

(* EVUTIL_ASSERT(sig < map->nentries); a slot that was never made is NULL. *)
NoSlot(x) == \E s \in Sig : ncaught(x)[s] > 0 /\ s \notin base[x].slot

-----------------------------------------------------------------------------
Become(v) ==
    /\ base' = v.base /\ glob' = v.glob /\ handler' = v.handler
    /\ UNCHANGED <<called, asserted, raised>>

MayCall == calls < MaxCalls /\ ~asserted /\ calls' = calls + 1
InUse(x) == base[x].life = "used"
Between(x) == InUse(x) /\ running[x] = None
Added(e) == e \in base[BaseOf[e]].list[SigOf[e]]

Add(e) ==
    /\ MayCall /\ InUse(BaseOf[e]) /\ ~Added(e)
    /\ Become(evmap_signal_add(w, e)) /\ UNCHANGED queue

(* event_del: the event leaves the active queue, and through ev_pncalls    *)
(* the calls that are left of the callback that runs.                      *)
event_del(e) ==
    /\ Become(evmap_signal_del(w, e))
    /\ active' = [active EXCEPT ![e] = 0]
    /\ left' = IF running[BaseOf[e]] = e THEN [left EXCEPT ![BaseOf[e]] = 0] ELSE left
    /\ UNCHANGED running

Del(e) == MayCall /\ InUse(BaseOf[e]) /\ Added(e) /\ event_del(e)

(* event_base_free deletes the events that are left, then the backend and  *)
(* the map (evmap_signal_clear); a signal may come between any two steps.  *)
Free(x) ==
    /\ MayCall /\ Between(x)
    /\ Become([w EXCEPT !.base[x].life = "freeing"]) /\ UNCHANGED queue

FreeEvent(e) ==
    /\ base[BaseOf[e]].life = "freeing" /\ Added(e) /\ calls' = calls
    /\ event_del(e)

FreeBackend(x) ==
    /\ base[x].life = "freeing" /\ \A e \in Ev : BaseOf[e] = x => ~Added(e)
    /\ calls' = calls
    /\ Become([evsig_dealloc(w, x) EXCEPT !.base[x].slot = {}])
    /\ UNCHANGED queue

(* event_base_loop: the base of the loop becomes the one that is informed  *)
(* if it has signals.                                                      *)
Loop(x) ==
    /\ MayCall /\ Between(x) /\ base[x].ev_signal_added
    /\ Become(evsig_set_base(w, x)) /\ UNCHANGED queue

(* evsig_handler: a byte for the base that is informed; a full pair drops  *)
(* it.  The original handler is not libevent's.                            *)
Raise(s) ==
    /\ raised < MaxRaise /\ ~asserted
    /\ raised' = raised + 1
    /\ base' = IF handler[s] = "evsig_handler" /\ glob.base # None
                  /\ Bytes(glob.base) < Room
               THEN [base EXCEPT ![glob.base].pair[s] = @ + 1] ELSE base
    /\ UNCHANGED <<glob, handler, called, asserted, calls>> /\ UNCHANGED queue

(* event_active_nolock, for an event of a signal that was caught: one that *)
(* is active keeps its ev_ncalls, and the new count is dropped.            *)
event_active_nolock(e, ncalls) == IF active[e] > 0 THEN active[e] ELSE ncalls

(* The event of the pair is called: evsig_cb, and evmap_signal_active for  *)
(* each signal that was caught.                                            *)
evsig_cb(x) ==
    /\ Between(x) /\ base[x].ev_signal_added /\ ~asserted
    /\ \E s \in Sig : ncaught(x)[s] > 0
    /\ base' = [base EXCEPT ![x].pair = [s \in Sig |-> 0]]
    /\ asserted' = NoSlot(x)
    /\ active' = [e \in Ev |-> IF BaseOf[e] = x /\ Added(e)
                               THEN event_active_nolock(e, ncaught(x)[SigOf[e]])
                               ELSE active[e]]
    /\ UNCHANGED <<glob, handler, running, left, called, raised, calls>>

(* event_process_active takes an active event from the queue, of whatever  *)
(* priority, and event_signal_closure calls it for the first time.         *)
FirstCall(e) ==
    /\ active[e] > 0 /\ Between(BaseOf[e]) /\ ~asserted
    /\ running' = [running EXCEPT ![BaseOf[e]] = e]
    /\ left' = [left EXCEPT ![BaseOf[e]] = active[e] - 1]
    /\ active' = [active EXCEPT ![e] = 0]
    /\ called' = [called EXCEPT ![e] = @ + 1]
    /\ UNCHANGED <<base, glob, handler, asserted, raised, calls>>

(* The callback returns and is called again while calls are left.  At any  *)
(* return somebody may have set event_break, which drops them.             *)
NextCall(x) ==
    /\ running[x] # None /\ left[x] > 0
    /\ left' = [left EXCEPT ![x] = @ - 1]
    /\ called' = [called EXCEPT ![running[x]] = @ + 1]
    /\ UNCHANGED <<base, glob, handler, active, running, asserted, raised, calls>>

LastReturn(x) ==
    /\ running[x] # None
    /\ running' = [running EXCEPT ![x] = None]
    /\ left' = [left EXCEPT ![x] = 0]
    /\ UNCHANGED <<base, glob, handler, active, called, asserted, raised, calls>>

Next ==
    \/ \E e \in Ev : Add(e) \/ Del(e) \/ FreeEvent(e) \/ FirstCall(e)
    \/ \E x \in Base : \/ Free(x) \/ FreeBackend(x) \/ Loop(x)
                        \/ evsig_cb(x) \/ NextCall(x) \/ LastReturn(x)
    \/ \E s \in Sig : Raise(s)

Spec == Init /\ [][Next]_vars

-----------------------------------------------------------------------------
(* With one base: a signal is libevent's exactly while an event is on its  *)
(* list, and the handler from before is back otherwise, also after         *)
(* event_base_free.                                                        *)
Listened(x, s) == base[x].list[s] # {}
HandlerFollowsEvents ==
    \A s \in Sig : handler[s] = IF \E x \in Base : Listened(x, s)
                                THEN "evsig_handler" ELSE "original"

(* A base with signals is informed about them.                             *)
SomebodyInformed ==
    (\E x \in Base, s \in Sig : Listened(x, s)) =>
        glob.base # None /\ base[glob.base].ev_signal_added

(* A signal that is read from the pair has a list: the assertion of        *)
(* evmap_signal_active holds and the slot it reads is not null.            *)
SlotsFound == ~asserted

(* A signal that was caught may be called less often than it was raised:   *)
(* the counts of an event that is active already and the calls after a     *)
(* break are dropped.  But it is not lost: an event that stays added is    *)
(* due, in the pair or in the active queue, until a call of it starts.     *)
Due(e) == base[BaseOf[e]].pair[SigOf[e]] > 0 \/ active[e] > 0
Delivered ==
    \A e \in Ev : Added(e) /\ Added(e)' /\ Due(e) => Due(e)' \/ called'[e] > called[e]

(* A deleted event is not called (again): what is active is on the list of *)
(* its signal, and so is the event that has calls left.                    *)
CallsAdded ==
    /\ \A e \in Ev : active[e] > 0 => Added(e)
    /\ \A x \in Base : left[x] > 0 => running[x] # None /\ Added(running[x])

=============================================================================
