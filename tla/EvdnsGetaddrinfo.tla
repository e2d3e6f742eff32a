-------------------------- MODULE EvdnsGetaddrinfo --------------------------
(***************************************************************************)
(* One evdns_getaddrinfo (evdns.c): an A and an AAAA lookup side by side,  *)
(* a timer that gives up on the slower one, and cancellation, on top of    *)
(* deferred callbacks that a cancellation no longer stops.                 *)
(***************************************************************************)
EXTENDS Integers, Sequences, FiniteSets

CONSTANTS Families      \* the subsets of {4, 6} that may be asked for

VARIABLES r, op

vars == <<r, op>>

Other(f) == 10 - f

(* A lookup is asked, its callback is queued with a result, or it is gone; *)
(* ptr is the pointer that the request keeps to it.                        *)
evdns_getaddrinfo(fams) ==
    [look |-> [f \in {4, 6} |-> IF f \in fams THEN "asked" ELSE "gone"],
     ptr |-> [f \in {4, 6} |-> f \in fams], queue |-> <<>>,
     result |-> <<>>, error |-> "none", timer |-> FALSE,
     canceled |-> FALSE, done |-> FALSE, cb |-> TRUE,
     told |-> <<>>, freed |-> 0, touched |-> FALSE, answers |-> {}]

Queued(v, f, result) ==
    [v EXCEPT !.look[f] = "queued", !.queue = Append(@, [f |-> f, result |-> result])]

evdns_cancel_request(v, f) == IF v.look[f] = "asked" THEN Queued(v, f, "cancel") ELSE v
CancelOpen(v, f) == IF v.ptr[f] THEN evdns_cancel_request(v, f) ELSE v

(* user_cb(result, addrs) *)
Tell(v, err, addrs) ==
    [v EXCEPT !.told = Append(@, [err |-> err, addrs |-> addrs]), !.touched = @ \/ v.freed > 0]
TellError(v, err) == Tell(v, err, <<>>)
TellAddresses(v, addrs) == Tell(v, "none", addrs)

free_getaddrinfo_request(v) == [v EXCEPT !.freed = @ + 1, !.timer = FALSE]

PendingTold(v) ==
    IF v.result # <<>> THEN TellAddresses([v EXCEPT !.result = <<>>], v.result)
    ELSE TellError(v, IF v.error = "none" THEN "again" ELSE v.error)

(* Mutant of evdns_getaddrinfo_timeout_cb: the callback stays.             *)
Mutant_timeout_keeps_cb(v) == PendingTold(CancelOpen(CancelOpen(v, 4), 6))

evdns_getaddrinfo_timeout_cb(v) ==
    LET told == [PendingTold(CancelOpen(CancelOpen(v, 4), 6)) EXCEPT !.cb = FALSE]
    IN  IF v.ptr[4] \/ v.ptr[6] THEN told ELSE free_getaddrinfo_request(told)

evdns_getaddrinfo_set_timeout(v) == [v EXCEPT !.timer = TRUE]

(* The more informative of two errors is the later one.                    *)
GotError(v, f, err) ==
    IF v.ptr[Other(f)] THEN [evdns_getaddrinfo_set_timeout(v) EXCEPT !.error = err]
    ELSE free_getaddrinfo_request(
            IF v.canceled THEN TellError(v, "cancel")
            ELSE IF v.result # <<>> THEN TellAddresses([v EXCEPT !.result = <<>>], v.result)
            ELSE TellError(v, err))

InOrder(f, b) == IF f = 4 THEN <<f>> \o b ELSE b \o <<f>>

(* Mutant of GotAddresses: the addresses that came first are forgotten.    *)
Mutant_only_last(v, f) ==
    IF v.ptr[Other(f)] THEN [evdns_getaddrinfo_set_timeout(v) EXCEPT !.result = <<f>>]
    ELSE free_getaddrinfo_request(TellAddresses(v, <<f>>))

GotAddresses(v, f) ==
    IF v.ptr[Other(f)] THEN [evdns_getaddrinfo_set_timeout(v) EXCEPT !.result = <<f>>]
    ELSE free_getaddrinfo_request(TellAddresses([v EXCEPT !.result = <<>>], InOrder(f, v.result)))

(* Mutant of GotCanceled: it always waits for the other lookup.            *)
Mutant_wait_for_other(v, f) == [v EXCEPT !.timer = FALSE]

GotCanceled(v, f) ==
    IF v.ptr[Other(f)] THEN v ELSE free_getaddrinfo_request(TellError(v, "cancel"))

evdns_err_to_getaddrinfo_err(result) ==
    CASE result = "empty" -> "nodata" [] result = "missing" -> "noname" [] OTHER -> "fail"

(* v has the pointer of f cleared already.                                 *)
Resolved(v, f, result) ==
    IF result = "cancel" /\ ~v.canceled
    THEN IF v.ptr[Other(f)] THEN v ELSE free_getaddrinfo_request(v)
    ELSE IF ~v.cb THEN free_getaddrinfo_request(v)
    ELSE IF result # "ok" THEN GotError(v, f, evdns_err_to_getaddrinfo_err(result))
    ELSE IF v.canceled THEN GotCanceled(v, f)
    ELSE GotAddresses(v, f)

evdns_getaddrinfo_gotresolve(v, f, result) ==
    Resolved([v EXCEPT !.ptr[f] = FALSE, !.done = @ \/ ~v.ptr[Other(f)],
                       !.touched = @ \/ v.freed > 0], f, result)

evdns_getaddrinfo_cancel(v) ==
    IF v.done THEN v
    ELSE CancelOpen(CancelOpen([v EXCEPT !.timer = FALSE, !.canceled = TRUE], 4), 6)

-----------------------------------------------------------------------------
Init == op = "new" /\ \E fams \in Families : r = evdns_getaddrinfo(fams)

(* The resolver answers; its callback is queued.                           *)
Answer(f, result) ==
    /\ r.look[f] = "asked"
    /\ op' = "answer"
    /\ r' = [Queued(r, f, result) EXCEPT
               !.answers = IF result = "ok" THEN @ \cup {f} ELSE @]

Callback ==
    /\ r.queue # <<>>
    /\ op' = "callback"
    /\ LET c == Head(r.queue)
       IN  r' = evdns_getaddrinfo_gotresolve(
                   [r EXCEPT !.queue = Tail(@), !.look[c.f] = "gone"], c.f, c.result)

Skew == r.timer /\ op' = "timeout" /\ r' = evdns_getaddrinfo_timeout_cb([r EXCEPT !.timer = FALSE])

(* It must not be called after the callback.                               *)
Cancel == r.told = <<>> /\ ~r.canceled /\ op' = "cancel" /\ r' = evdns_getaddrinfo_cancel(r)

Next == \/ \E f \in {4, 6}, a \in {"ok", "empty", "missing", "timeout"} : Answer(f, a)
        \/ Callback \/ Skew \/ Cancel

Spec == Init /\ [][Next]_vars

-----------------------------------------------------------------------------
(* Properties                                                              *)

(* A timer runs only while one lookup is answered and the other is not.    *)
TimerNeeded == r.timer => \E f \in {4, 6} : r.ptr[f] /\ r.look[Other(f)] = "gone"

(* The user is called once, the request is freed once and nobody touches   *)
(* it afterwards, whichever of timer, cancellation and queued callbacks    *)
(* come first, and no timer is left to come without a need                 *)
(* (evdns.c:4235-4285, 4301-4475).                                         *)
OnceAndForAll ==
    /\ Len(r.told) <= 1
    /\ r.freed <= 1 /\ ~r.touched
    /\ r.freed = 1 => Len(r.told) = 1 /\ r.queue = <<>> /\ ~r.timer
                      /\ \A f \in {4, 6} : r.look[f] = "gone"
    /\ TimerNeeded

(* What the user is told in a step.                                        *)
TellsInOrder ==
    \A what \in {r'.told[i] : i \in DOMAIN r'.told} :
          LET told == {what.addrs[i] : i \in DOMAIN what.addrs} IN
          r.told = <<>> /\ told # {} =>
             /\ what.addrs # <<6, 4>> /\ told \subseteq r'.answers
             /\ op' = "callback" /\ ~r.canceled => told = r'.answers

(* The addresses are those of the answers that had arrived, A before AAAA, *)
(* and all of them when nobody cancelled and the timer did not run out     *)
(* (evdns.c:4392-4475).                                                    *)
AddressesInOrder == [][TellsInOrder]_vars

=============================================================================
