------------------------------- MODULE Evmap -------------------------------
(***************************************************************************)
(* How libevent keeps epoll informed: the map from a descriptor to the     *)
(* events on it (evmap.c), the changelist that batches the changes between *)
(* two dispatches (evmap.c), and the epoll backend that applies them       *)
(* (epoll.c), with and without EVENT_BASE_FLAG_EPOLL_USE_CHANGELIST.  The  *)
(* kernel keys its interest by the descriptor AND the open file behind it, *)
(* so an application that closes a descriptor and gets the same number     *)
(* again makes the backend guess between ADD and MOD.  Left out: edge       *)
(* triggered events, a failure of memory, and calls of other threads while *)
(* the loop waits.                                                         *)
(***************************************************************************)
EXTENDS Integers, Sequences, FiniteSets

CONSTANTS Ev,          \* the application's events
          Fd,          \* descriptor numbers
          File,        \* open file descriptions
          FdOf,        \* [Ev -> Fd], ev_fd
          KindOf,      \* [Ev -> SUBSET {"read", "write"}], ev_events
          Persist,     \* the events with EV_PERSIST
          MaxCount,    \* 0xffff: what nread and nwrite can count
          Refused,     \* files that epoll does not take (EPERM)
          Changelist,  \* the flag EPOLL_USE_CHANGELIST
          Clones,      \* the application uses dup and dup2
          CloseFirst,  \* it may close a descriptor and delete the events later
          MaxOps       \* bound on its calls between two dispatches

EvAssumption == FdOf \in [Ev -> Fd]
KindAssumption == KindOf \in [Ev -> (SUBSET {"read", "write"}) \ {{}}]
BoundAssumption == MaxOps \in Nat /\ MaxCount \in Nat \ {0} /\ Refused \subseteq File

VARIABLES b,     \* struct event_base: evmap, changelist and flags
          k,     \* the kernel: descriptors, files, epoll items
          pc,    \* "run" or "wait" (in epoll_wait)
          ops    \* calls since the last dispatch

vars == <<b, k, pc, ops>>

Closed == "closed"
Kinds == {"read", "write"}
FileAssumption == Closed \notin File

(* events and n are the list of a descriptor, whose order decides nothing, *)
(* and its nread and nwrite; freed has the events that event_free          *)
(* released.                                                               *)
Init ==
    /\ b = [events |-> [fd \in Fd |-> {}],
            n |-> [fd \in Fd |-> [d \in Kinds |-> 0]],   \* nread, nwrite
            idxplus1 |-> [fd \in Fd |-> 0], changes |-> <<>>,
            inserted |-> {}, freed |-> {}, active |-> {}]
    /\ k = [file |-> [fd \in Fd |-> Closed], held |-> {},
            item |-> [fd \in Fd |-> [f \in File |-> {}]]]
    /\ pc = "run" /\ ops = 0

-----------------------------------------------------------------------------
(* The kernel                                                              *)

At(kk, fd) == kk.item[fd][kk.file[fd]]

(* epoll_ctl(2): the interest is that of (descriptor, open file).          *)
epoll_ctl(kk, op, fd, events) ==
    LET set(s) == [k |-> [kk EXCEPT !.item[fd][kk.file[fd]] = s], err |-> "0"]
        fail(e) == [k |-> kk, err |-> e]
    IN  IF kk.file[fd] = Closed THEN fail("EBADF")
        ELSE IF kk.file[fd] \in Refused THEN fail("EPERM")
        ELSE IF op = "ADD" /\ At(kk, fd) # {} THEN fail("EEXIST")
        ELSE IF op # "ADD" /\ At(kk, fd) = {} THEN fail("ENOENT")
        ELSE set(IF op = "DEL" THEN {} ELSE events)

(* A file that no descriptor refers to any more leaves the epoll set.      *)
Reap(kk) ==
    [kk EXCEPT !.item = [fd \in Fd |-> [f \in File |->
        IF f \in kk.held \/ \E g \in Fd : kk.file[g] = f THEN @[fd][f] ELSE {}]]]

-----------------------------------------------------------------------------
(* epoll.c                                                                 *)

Touches(ch, c) == \E d \in Kinds : ch.change[d] = c

(* A direction is watched if it is added, or was and is not deleted.       *)
Remaining(ch) ==
    {d \in Kinds : ch.change[d] = "add" \/ (ch.change[d] = "none" /\ d \in ch.old)}
Deleted(ch) == {d \in Kinds : ch.change[d] = "del"}

(* The operation that is tried first.  A DEL carries what is deleted.      *)
first_op(ch) ==
    IF Touches(ch, "add")
    THEN [op |-> IF ch.old # {} THEN "MOD" ELSE "ADD", events |-> Remaining(ch)]
    ELSE IF Touches(ch, "del") /\ Remaining(ch) # {}
         THEN [op |-> "MOD", events |-> Remaining(ch)]
         ELSE [op |-> "DEL", events |-> Deleted(ch)]

(* Mutant of epoll_apply_one_change: a failed MOD is not tried as ADD.     *)
Mutant_no_retry(kk, ch) ==
    LET o == first_op(ch)
        x == epoll_ctl(kk, o.op, ch.fd, o.events)
    IN  IF o.events = {} THEN [k |-> kk, r |-> 0]
        ELSE [k |-> x.k, r |-> IF x.err = "0" \/ o.op = "DEL" THEN 0 ELSE -1]

epoll_apply_one_change(kk, ch) ==
    LET o == first_op(ch)
        x == epoll_ctl(kk, o.op, ch.fd, o.events)
        retry(op) == LET y == epoll_ctl(kk, op, ch.fd, o.events)
                     IN  [k |-> y.k, r |-> IF y.err = "0" THEN 0 ELSE -1]
        fine == o.op = "DEL" /\ x.err \in {"ENOENT", "EBADF", "EPERM"}
    IN  IF o.events = {} THEN [k |-> kk, r |-> 0]
        ELSE IF x.err = "0" THEN [k |-> x.k, r |-> 0]
        ELSE IF o.op = "MOD" /\ x.err = "ENOENT" THEN retry("ADD")
        ELSE IF o.op = "ADD" /\ x.err = "EEXIST" THEN retry("MOD")
        ELSE [k |-> kk, r |-> IF fine THEN 0 ELSE -1]

(* Each change is of a descriptor of its own (MapAgrees), so that the loop *)
(* over the changes is a map over the descriptors.  Its result is not      *)
(* looked at by epoll_dispatch.                                            *)
epoll_apply_changes(kk, changes) ==
    LET of(fd) == {i \in DOMAIN changes : changes[i].fd = fd}
        done(i) == epoll_apply_one_change(kk, changes[i]).k
    IN  [kk EXCEPT !.item = [fd \in Fd |->
            IF of(fd) = {} THEN @[fd] ELSE done(CHOOSE i \in of(fd) : TRUE).item[fd]]]

epoll_nochangelist(kk, fd, old, events, how) ==
    epoll_apply_one_change(kk, [fd |-> fd, old |-> old,
        change |-> [d \in Kinds |-> IF d \in events THEN how ELSE "none"]])

-----------------------------------------------------------------------------
(* The changelist                                                          *)

event_changelist_get_or_construct(bb, fd, old) ==
    IF bb.idxplus1[fd] # 0 THEN bb
    ELSE [bb EXCEPT !.changes = Append(@, [fd |-> fd, old |-> old,
                                           change |-> [d \in Kinds |-> "none"]]),
                    !.idxplus1[fd] = Len(bb.changes) + 1]

event_changelist_add(bb, fd, old, events) ==
    LET c == event_changelist_get_or_construct(bb, fd, old)
    IN  [c EXCEPT !.changes[c.idxplus1[fd]].change =
            [d \in Kinds |-> IF d \in events THEN "add" ELSE @[d]]]

event_changelist_del(bb, fd, old, events) ==
    LET c == event_changelist_get_or_construct(bb, fd, old)
        i == c.idxplus1[fd]
        noop(d, was) == d \notin c.changes[i].old /\ was = "add"
    IN  [c EXCEPT !.changes[i].change =
            [d \in Kinds |-> IF d \notin events THEN @[d]
                             ELSE IF noop(d, @[d]) THEN "none" ELSE "del"]]

event_changelist_remove_all(bb) ==
    [bb EXCEPT !.changes = <<>>,
               !.idxplus1 = [fd \in Fd |->
                   IF \E i \in DOMAIN bb.changes : bb.changes[i].fd = fd
                   THEN 0 ELSE @[fd]]]

-----------------------------------------------------------------------------
(* evmap.c.  An operator returns [b, k, r].                                *)

Watched(bb, fd) == {d \in Kinds : bb.n[fd][d] > 0}

backend_add(bb, kk, fd, old, events) ==
    IF Changelist
    THEN [b |-> event_changelist_add(bb, fd, old, events), k |-> kk, r |-> 0]
    ELSE LET x == epoll_nochangelist(kk, fd, old, events, "add")
         IN  [b |-> bb, k |-> x.k, r |-> x.r]

backend_del(bb, kk, fd, old, events) ==
    IF Changelist
    THEN [b |-> event_changelist_del(bb, fd, old, events), k |-> kk, r |-> 0]
    ELSE LET x == epoll_nochangelist(kk, fd, old, events, "del")
         IN  [b |-> bb, k |-> x.k, r |-> x.r]

Count(bb, e, by) ==
    [bb EXCEPT !.n[FdOf[e]] =
        [d \in Kinds |-> IF d \in KindOf[e] THEN @[d] + by ELSE @[d]]]

TooMany(bb, e) == \E d \in KindOf[e] : bb.n[FdOf[e]][d] + 1 > MaxCount

evmap_io_add(bb, kk, e) ==
    LET fd == FdOf[e]
        old == Watched(bb, fd)
        res == KindOf[e] \ old
        x == IF TooMany(bb, e) THEN [b |-> bb, k |-> kk, r |-> -1]
             ELSE IF res = {} THEN [b |-> bb, k |-> kk, r |-> 0]
             ELSE backend_add(bb, kk, fd, old, res)
    IN  IF x.r = -1 THEN x
        ELSE [b |-> [Count(x.b, e, 1) EXCEPT !.events[fd] = @ \cup {e}],
              k |-> x.k, r |-> IF res = {} THEN 0 ELSE 1]

evmap_io_del(bb, kk, e) ==
    LET fd == FdOf[e]
        res == {d \in KindOf[e] : bb.n[fd][d] = 1}
        x == IF res = {} THEN [b |-> bb, k |-> kk, r |-> 0]
             ELSE backend_del(bb, kk, fd, Watched(bb, fd), res)
    IN  IF x.r = -1 THEN x
        ELSE [b |-> [Count(x.b, e, -1) EXCEPT !.events[fd] = @ \ {e}],
              k |-> x.k, r |-> IF res = {} THEN 0 ELSE 1]

(* Every event on the descriptor that wants one of the directions.         *)
evmap_io_active(bb, fd, events) ==
    [bb EXCEPT !.active = @ \cup {e \in bb.events[fd] : KindOf[e] \cap events # {}}]

(* The part of event_add_internal and event_del_internal that is about     *)
(* descriptors: the flag is set when the map took the event, and cleared   *)
(* before the map is asked to let go of it.                                *)
event_add(bb, kk, e) ==
    IF e \in bb.inserted \cup bb.active THEN [b |-> bb, k |-> kk, r |-> 0]
    ELSE LET x == evmap_io_add(bb, kk, e)
         IN  IF x.r = -1 THEN x
             ELSE [x EXCEPT !.b.inserted = @ \cup {e}, !.r = 0]

event_del(bb, kk, e) ==
    LET quiet == [bb EXCEPT !.active = @ \ {e}, !.inserted = @ \ {e}]
    IN  IF e \notin bb.inserted THEN [b |-> quiet, k |-> kk, r |-> 0]
        ELSE evmap_io_del(quiet, kk, e)

event_free(bb, kk, e) ==
    LET x == event_del(bb, kk, e) IN [x EXCEPT !.b.freed = @ \cup {e}]

-----------------------------------------------------------------------------
(* The application and the loop                                            *)

Call(x) ==
    /\ pc = "run" /\ ops < MaxOps
    /\ b' = x.b /\ k' = x.k /\ ops' = ops + 1
    /\ UNCHANGED pc

Add(e) ==
    /\ e \notin b.freed
    /\ k.file[FdOf[e]] # Closed
    /\ Call(event_add(b, k, e))

Del(e) == e \notin b.freed /\ Call(event_del(b, k, e))
Free(e) == e \notin b.freed /\ Call(event_free(b, k, e))

(* event_active, also of an event that is not added.                       *)
Activate(e) ==
    /\ e \notin b.freed
    /\ Call([b |-> [b EXCEPT !.active = @ \cup {e}], k |-> k, r |-> 0])

(* event_process_active: a persistent event leaves the active queue, any   *)
(* other is deleted, then its callback is called.  The loop may dispatch   *)
(* again before all are processed.                                         *)
Process(e) ==
    /\ pc = "run" /\ e \in b.active
    /\ LET x == IF e \in Persist
                THEN [b |-> [b EXCEPT !.active = @ \ {e}], k |-> k, r |-> 0]
                ELSE event_del(b, k, e)
       IN  b' = x.b /\ k' = x.k
    /\ UNCHANGED <<pc, ops>>

(* open, socket or accept returns a closed number for a new file.          *)
OpenFd(fd, f) ==
    /\ k.file[fd] = Closed
    /\ f \notin k.held /\ \A g \in Fd : k.file[g] # f
    /\ Call([b |-> b, k |-> [k EXCEPT !.file[fd] = f], r |-> 0])

CloseFd(fd) ==
    /\ k.file[fd] # Closed
    /\ CloseFirst \/ \A e \in b.inserted : FdOf[e] # fd
    /\ Call([b |-> b, k |-> Reap([k EXCEPT !.file[fd] = Closed]), r |-> 0])

(* dup to a number that is not polled, and dup2 back to fd.                *)
Hold(fd) ==
    /\ Clones /\ k.file[fd] # Closed /\ k.file[fd] \notin k.held
    /\ Call([b |-> b, k |-> [k EXCEPT !.held = @ \cup {k.file[fd]}], r |-> 0])
DupBack(fd, f) ==
    /\ k.file[fd] = Closed /\ f \in k.held /\ \A g \in Fd : k.file[g] # f
    /\ Call([b |-> b, k |-> [k EXCEPT !.file[fd] = f, !.held = @ \ {f}], r |-> 0])

Dispatch ==
    /\ pc = "run"
    /\ k' = epoll_apply_changes(k, b.changes)
    /\ b' = event_changelist_remove_all(b)
    /\ pc' = "wait" /\ ops' = 0

(* epoll_wait reports items, EPOLLERR and EPOLLHUP as both directions.     *)
Report(fd, f, events) ==
    /\ pc = "wait"
    /\ k.item[fd][f] # {}
    /\ events \subseteq k.item[fd][f] \/ events = Kinds
    /\ b' = evmap_io_active(b, fd, events)
    /\ UNCHANGED <<k, pc, ops>>

(* It has reported all, or nothing: the time is over or a signal came.     *)
Return == pc = "wait" /\ pc' = "run" /\ UNCHANGED <<b, k, ops>>

Next ==
    \/ \E e \in Ev : Add(e) \/ Del(e) \/ Free(e) \/ Activate(e) \/ Process(e)
    \/ \E fd \in Fd : CloseFd(fd) \/ Hold(fd)
    \/ \E fd \in Fd, f \in File : OpenFd(fd, f) \/ DupBack(fd, f)
    \/ Dispatch
    \/ \E fd \in Fd, f \in File, s \in SUBSET Kinds \ {{}} : Report(fd, f, s)
    \/ Return

Spec == Init /\ [][Next]_vars

-----------------------------------------------------------------------------
Wanted(fd) == UNION {KindOf[e] : e \in {x \in b.inserted : FdOf[x] = fd}}

(* While the loop waits, the kernel watches each open descriptor for what  *)
(* the added events want, neither less (an event that never fires) nor     *)
(* more (a loop that spins), whatever was added, deleted, closed and       *)
(* opened again since the last dispatch.                                   *)
WaitsForWanted ==
    pc = "wait" => \A fd \in Fd : k.file[fd] # Closed => At(k, fd) = Wanted(fd)

(* What the kernel can report under a number is about the file that has    *)
(* the number now.                                                         *)
NoStaleItem ==
    pc = "wait" =>
        \A fd \in Fd, f \in File : k.item[fd][f] # {} => k.file[fd] = f

(* evmap_check_integrity and event_changelist_check: the list of a         *)
(* descriptor holds the added events on it, the counts count them, and     *)
(* every change is the one its descriptor points to.                       *)
MapAgrees ==
    /\ \A fd \in Fd :
        /\ b.events[fd] = {e \in b.inserted : FdOf[e] = fd}
        /\ \A d \in Kinds :
             b.n[fd][d] = Cardinality({e \in b.events[fd] : d \in KindOf[e]})
    /\ \A i \in DOMAIN b.changes : b.idxplus1[b.changes[i].fd] = i
    /\ \A fd \in Fd : b.idxplus1[fd] # 0 =>
           b.idxplus1[fd] \in DOMAIN b.changes /\ b.changes[b.idxplus1[fd]].fd = fd

(* event_free: "If the event is pending or active, first make it           *)
(* non-pending and non-active": no list holds an event that was freed.     *)
FreedNotListed ==
    \A e \in b.freed : e \notin b.events[FdOf[e]] /\ e \notin b.active
=============================================================================
