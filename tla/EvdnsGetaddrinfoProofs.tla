----------------------- MODULE EvdnsGetaddrinfoProofs -----------------------
(***************************************************************************)
(* Proofs about one evdns_getaddrinfo, whichever families it asks for.     *)
(***************************************************************************)
EXTENDS EvdnsGetaddrinfo, TLAPS, SequenceTheorems

Family == {4, 6}
Answers == {"ok", "empty", "missing", "timeout", "cancel"}
Callbacks == Seq([f : Family, result : Answers])
Errors == {"none", "again", "nodata", "noname", "fail", "cancel"}
Told == [err : Errors, addrs : Seq(Family)]

(* The types of a request.                                                 *)
Fields == {"look", "ptr", "queue", "result", "error", "timer", "canceled",
           "done", "cb", "told", "freed", "touched", "answers"}

Typed(v) ==
    /\ DOMAIN v = Fields
    /\ v.look \in [Family -> {"asked", "queued", "gone"}]
    /\ v.ptr \in [Family -> BOOLEAN]
    /\ v.queue \in Callbacks
    /\ v.result \in {<<>>, <<4>>, <<6>>}
    /\ v.error \in Errors
    /\ v.told \in Seq(Told)
    /\ v.freed \in Nat
    /\ v.answers \in SUBSET Family
    /\ {v.timer, v.canceled, v.done, v.cb, v.touched} \subseteq BOOLEAN

(* Every queued callback is of a lookup of its own, and a pointer is kept  *)
(* exactly until its lookup's callback has run.                            *)
QueueAgrees(v) ==
    /\ \A i, j \in DOMAIN v.queue : v.queue[i].f = v.queue[j].f => i = j
    /\ \A f \in Family :
          /\ v.look[f] = "queued" <=> \E i \in DOMAIN v.queue : v.queue[i].f = f
          /\ v.ptr[f] <=> v.look[f] # "gone"

(* One pointer is left.                                                    *)
OneLeft(v) == v.ptr[4] # v.ptr[6]

(* The user is told when the callback is cleared or the request freed; the *)
(* timer runs, and the callback is cleared, only when one lookup is left;  *)
(* a lookup is cancelled by the user or after the user was told.           *)
ToldInTime(v) ==
    /\ ~v.touched
    /\ v.freed \in {0, 1}
    /\ v.freed = 0 /\ v.cb => v.told = <<>>
    /\ v.freed = 1 \/ ~v.cb => Len(v.told) = 1
    /\ v.freed = 1 => ~v.ptr[4] /\ ~v.ptr[6] /\ ~v.timer
    /\ v.freed = 0 /\ ~v.cb => OneLeft(v)
    /\ v.timer => OneLeft(v) /\ v.cb
    /\ ~v.canceled /\ v.cb =>
          \A i \in DOMAIN v.queue : v.queue[i].result # "cancel"

(* Of the addresses that have arrived none is lost: their callback is      *)
(* still queued, or they are pending, until the user is told or cancels.   *)
NoneLost(v) ==
    /\ \A f \in Family :
          /\ v.result = <<f>> => f \in v.answers /\ v.look[f] = "gone"
          /\ f \in v.answers /\ v.look[f] = "gone" /\ ~v.canceled /\ v.told = <<>>
                => v.result = <<f>>
          /\ f \in v.answers => v.look[f] # "asked"
    /\ \A i \in DOMAIN v.queue :
          v.queue[i].result = "ok" <=> v.queue[i].f \in v.answers

Good(v) == Typed(v) /\ QueueAgrees(v) /\ ToldInTime(v) /\ NoneLost(v)
Inv == Good(r)

-----------------------------------------------------------------------------
(* The operators on requests                                               *)

(* A queued callback changes its lookup and the queue, and nothing else.   *)
LEMMA QueuedEffect ==
    ASSUME NEW v, Typed(v), NEW f \in Family, NEW result \in Answers
    PROVE  /\ Typed(Queued(v, f, result))
           /\ Queued(v, f, result).look = [v.look EXCEPT ![f] = "queued"]
           /\ Queued(v, f, result).queue
                 = Append(v.queue, [f |-> f, result |-> result])
           /\ Queued(v, f, result).ptr = v.ptr
           /\ Queued(v, f, result).result = v.result
           /\ Queued(v, f, result).timer = v.timer
           /\ Queued(v, f, result).canceled = v.canceled
           /\ Queued(v, f, result).cb = v.cb
           /\ Queued(v, f, result).told = v.told
           /\ Queued(v, f, result).freed = v.freed
           /\ Queued(v, f, result).touched = v.touched
           /\ Queued(v, f, result).answers = v.answers
<1> DEFINE c == [f |-> f, result |-> result]
<1>1. Append(v.queue, c) \in Callbacks
  BY DEF Typed, Callbacks
<1> HIDE DEF c
<1>2. Queued(v, f, result) = [v EXCEPT !.look[f] = "queued", !.queue = Append(@, c)]
  BY DEF Queued, c
<1>3. QED
  BY <1>1, <1>2 DEF Typed, Fields, c

(* The parts that only new and queued callbacks change.                    *)
Same(w, v) ==
    /\ w.look = v.look /\ w.ptr = v.ptr /\ w.queue = v.queue
    /\ w.canceled = v.canceled /\ w.answers = v.answers

(* free_getaddrinfo_request counts and takes the timer away.               *)
AfterFree(w, v) ==
    /\ Typed(w) /\ Same(w, v) /\ w.freed = v.freed + 1 /\ w.timer = FALSE
    /\ w.result = v.result /\ w.cb = v.cb
    /\ w.told = v.told /\ w.touched = v.touched

(* A request that is freed counts as freed, and its timer is gone.         *)
LEMMA FreeEffect ==
    ASSUME NEW v, Typed(v)
    PROVE  AfterFree(free_getaddrinfo_request(v), v)
  BY DEF Typed, Fields, Same, AfterFree, free_getaddrinfo_request

(* user_cb is called with what it is told.                                 *)
AfterTell(w, v, err, addrs) ==
    /\ Typed(w) /\ Same(w, v) /\ w.freed = v.freed /\ w.timer = v.timer
    /\ w.cb = v.cb /\ w.result \in {<<>>, v.result}
    /\ w.told = Append(v.told, [err |-> err, addrs |-> addrs])
    /\ w.touched = (v.touched \/ v.freed > 0)

(* The user callback is called once, with what it is given.                *)
LEMMA TellEffect ==
    ASSUME NEW v, Typed(v), NEW err \in Errors, NEW addrs \in Seq(Family)
    PROVE  AfterTell(Tell(v, err, addrs), v, err, addrs)
<1> DEFINE t == [err |-> err, addrs |-> addrs]
<1>1. Append(v.told, t) \in Seq(Told)
  BY DEF Typed, Told
<1> HIDE DEF t
<1>2. Tell(v, err, addrs)
        = [v EXCEPT !.told = Append(@, t), !.touched = @ \/ v.freed > 0]
  BY DEF Tell, t
<1>3. QED
  BY <1>1, <1>2 DEF Typed, Fields, Same, AfterTell, t

(* The addresses that are pending are told, and are pending no more.       *)
LEMMA TellAddressesEffect ==
    ASSUME NEW v, Typed(v), NEW addrs \in Seq(Family)
    PROVE  AfterTell(TellAddresses([v EXCEPT !.result = <<>>], addrs),
                     v, "none", addrs)
<1> DEFINE u == [v EXCEPT !.result = <<>>]
<1>1. /\ Typed(u) /\ Same(u, v) /\ u.freed = v.freed /\ u.timer = v.timer
      /\ u.result = <<>> /\ u.cb = v.cb /\ u.told = v.told /\ u.touched = v.touched
  BY DEF Typed, Fields, Same
<1> HIDE DEF u
<1>2. AfterTell(Tell(u, "none", addrs), u, "none", addrs)
  BY <1>1, TellEffect DEF Errors
<1>3. AfterTell(Tell(u, "none", addrs), v, "none", addrs)
  BY <1>1, <1>2 DEF AfterTell, Same
<1>4. QED
  BY <1>3 DEF TellAddresses, u

(* The ways a callback ends: the request goes on as it is, is freed, waits *)
(* for the other lookup with a timer, or is told and freed.                *)
GoesOn(v, w, f, res) ==
    /\ w = v /\ v.ptr[Other(f)]
    /\ (res = "cancel" /\ ~v.canceled) \/ (v.cb /\ v.canceled)

Freed(v, w, f, res) ==
    /\ w.told = v.told /\ w.touched = v.touched
    /\ w.freed = v.freed + 1 /\ w.timer = FALSE /\ w.result = v.result
    /\ ~v.cb \/ (res = "cancel" /\ ~v.canceled /\ ~v.ptr[Other(f)])

Waits(v, w, f, res) ==
    /\ v.cb /\ v.ptr[Other(f)] /\ w.timer = TRUE
    /\ res = "cancel" => v.canceled
    /\ w.told = v.told /\ w.touched = v.touched /\ w.freed = v.freed
    /\ w.result = IF res = "ok" THEN <<f>> ELSE v.result

Says(v, f, res, addrs) ==
    /\ v.cb /\ ~v.ptr[Other(f)] /\ (res = "cancel" => v.canceled)
    /\ \/ addrs = <<>> /\ v.canceled
       \/ res # "ok" /\ addrs = v.result
       \/ res = "ok" /\ addrs = InOrder(f, v.result)

Answered(v, w, f, res, addrs) ==
    /\ Says(v, f, res, addrs) /\ w.timer = FALSE /\ w.result \in {<<>>, v.result}
    /\ w.touched = (v.touched \/ v.freed > 0)
    /\ w.freed = v.freed + 1
    /\ \E err \in Errors :
          w.told = Append(v.told, [err |-> err, addrs |-> addrs])

Outcome(v, w, f, res) ==
    /\ Typed(w) /\ Same(w, v) /\ w.cb = v.cb
    /\ \/ GoesOn(v, w, f, res) \/ Freed(v, w, f, res)
       \/ Waits(v, w, f, res)
       \/ \E addrs \in Seq(Family) : Answered(v, w, f, res, addrs)

(* The pending addresses, and those with another in its place, are         *)
(* sequences of families.                                                  *)
LEMMA ResultSeq ==
    ASSUME NEW v, Typed(v), NEW f \in Family
    PROVE  v.result \in Seq(Family) /\ InOrder(f, v.result) \in Seq(Family)
<1>1. 4 \in Family /\ 6 \in Family
  BY DEF Family
<1>2. v.result \in {<<>>, <<4>>, <<6>>}
  BY DEF Typed
<1>3. \A x \in Family : <<x>> \in Seq(Family)
  OBVIOUS
<1>4. <<>> \in Seq(Family)
  OBVIOUS
<1>5. v.result \in Seq(Family) /\ <<f>> \in Seq(Family)
  BY <1>1, <1>2, <1>3, <1>4
<1>6. \A s, t \in Seq(Family) : s \o t \in Seq(Family)
  OBVIOUS
<1>7. QED
  BY <1>5, <1>6 DEF InOrder

(* A request that is told and freed is answered.                           *)
LEMMA TellThenFree ==
    ASSUME NEW v, Typed(v), NEW f \in Family, NEW res, NEW addrs \in Seq(Family),
           NEW err \in Errors, NEW u, AfterTell(u, v, err, addrs),
           Says(v, f, res, addrs),
           NEW w, w = free_getaddrinfo_request(u)
    PROVE  Outcome(v, w, f, res)
<1>1. AfterFree(w, u)
  BY FreeEffect DEF AfterTell
<1>2. Typed(w) /\ Same(w, v) /\ w.cb = v.cb
  BY <1>1 DEF AfterFree, AfterTell, Same
<1>3. Answered(v, w, f, res, addrs)
  BY <1>1 DEF AfterFree, AfterTell, Answered
<1>4. QED
  BY <1>2, <1>3 DEF Outcome

(* A callback of a lookup leaves the request with the other lookup, waiting *)
(* or not, or answers and frees it.                                        *)
LEMMA Outcomes ==
    ASSUME NEW v, Typed(v), NEW f \in Family, NEW res \in Answers
    PROVE  Outcome(v, Resolved(v, f, res), f, res)
<1> SUFFICES ASSUME NEW w, w = Resolved(v, f, res)
             PROVE  Outcome(v, w, f, res)
  OBVIOUS
<1>1. CASE res = "cancel" /\ ~v.canceled
  <2>1. CASE v.ptr[Other(f)]
    BY <1>1, <2>1 DEF Resolved, Same, GoesOn, Outcome
  <2>2. CASE ~v.ptr[Other(f)]
    <3>1. AfterFree(w, v)
      BY <1>1, <2>2, FreeEffect DEF Resolved
    <3>2. QED
      BY <1>1, <2>2, <3>1 DEF AfterFree, Freed, Outcome
  <2>3. QED
    BY <2>1, <2>2
<1>2. CASE ~(res = "cancel" /\ ~v.canceled) /\ ~v.cb
  <2>1. AfterFree(w, v)
    BY <1>2, FreeEffect DEF Resolved
  <2>2. QED
    BY <1>2, <2>1 DEF AfterFree, Freed, Outcome
<1>3. CASE (res = "cancel" => v.canceled) /\ v.cb /\ res # "ok"
  <2> DEFINE err == evdns_err_to_getaddrinfo_err(res)
  <2>1. err \in Errors /\ "cancel" \in Errors /\ "none" \in Errors
    BY DEF Errors, evdns_err_to_getaddrinfo_err
  <2> HIDE DEF err
  <2>2. w = GotError(v, f, err)
    BY <1>3 DEF Resolved, err
  <2>3. <<>> \in Seq(Family)
    OBVIOUS
  <2>4. CASE v.ptr[Other(f)]
    <3>1. w = [v EXCEPT !.timer = TRUE, !.error = err]
      BY <2>2, <2>4 DEF GotError, evdns_getaddrinfo_set_timeout
    <3>2. Typed(w) /\ Same(w, v) /\ w.cb = v.cb
      BY <2>1, <3>1 DEF Typed, Fields, Same
    <3>3. Waits(v, w, f, res)
      BY <1>3, <2>4, <3>1 DEF Typed, Fields, Waits
    <3>4. QED
      BY <3>2, <3>3 DEF Outcome
  <2>5. CASE ~v.ptr[Other(f)] /\ v.canceled
    <3>1. w = free_getaddrinfo_request(Tell(v, "cancel", <<>>))
      BY <2>2, <2>5 DEF GotError, TellError
    <3>2. AfterTell(Tell(v, "cancel", <<>>), v, "cancel", <<>>)
      BY <2>1, <2>3, TellEffect
    <3>3. Says(v, f, res, <<>>)
      BY <1>3, <2>5 DEF Says
    <3>4. QED
      BY <2>1, <2>3, <3>1, <3>2, <3>3, TellThenFree
  <2>6. CASE ~v.ptr[Other(f)] /\ ~v.canceled /\ v.result # <<>>
    <3> DEFINE u == TellAddresses([v EXCEPT !.result = <<>>], v.result)
    <3>1. w = free_getaddrinfo_request(u)
      BY <2>2, <2>6 DEF GotError
    <3>2. v.result \in Seq(Family)
      BY ResultSeq
    <3>3. AfterTell(u, v, "none", v.result)
      BY <3>2, TellAddressesEffect
    <3>4. Says(v, f, res, v.result)
      BY <1>3, <2>6 DEF Says
    <3> HIDE DEF u
    <3>5. QED
      BY <2>1, <3>1, <3>2, <3>3, <3>4, TellThenFree
  <2>7. CASE ~v.ptr[Other(f)] /\ ~v.canceled /\ v.result = <<>>
    <3>1. w = free_getaddrinfo_request(Tell(v, err, <<>>))
      BY <2>2, <2>7 DEF GotError, TellError
    <3>2. AfterTell(Tell(v, err, <<>>), v, err, <<>>)
      BY <2>1, <2>3, TellEffect
    <3>3. Says(v, f, res, <<>>)
      BY <1>3, <2>7 DEF Says
    <3>4. QED
      BY <2>1, <2>3, <3>1, <3>2, <3>3, TellThenFree
  <2>8. QED
    BY <2>4, <2>5, <2>6, <2>7
<1>4. CASE v.cb /\ res = "ok" /\ v.canceled
  <2>1. w = GotCanceled(v, f)
    BY <1>4 DEF Resolved
  <2>2. CASE v.ptr[Other(f)]
    BY <1>4, <2>1, <2>2 DEF Same, GotCanceled, GoesOn, Outcome
  <2>3. CASE ~v.ptr[Other(f)]
    <3>1. w = free_getaddrinfo_request(Tell(v, "cancel", <<>>))
      BY <2>1, <2>3 DEF GotCanceled, TellError
    <3>2. "cancel" \in Errors /\ <<>> \in Seq(Family)
      BY DEF Errors
    <3>3. AfterTell(Tell(v, "cancel", <<>>), v, "cancel", <<>>)
      BY <3>2, TellEffect
    <3>4. Says(v, f, res, <<>>)
      BY <1>4, <2>3 DEF Says
    <3>5. QED
      BY <3>1, <3>2, <3>3, <3>4, TellThenFree
  <2>4. QED
    BY <2>2, <2>3
<1>5. CASE v.cb /\ res = "ok" /\ ~v.canceled
  <2>1. w = GotAddresses(v, f)
    BY <1>5 DEF Resolved
  <2>2. CASE v.ptr[Other(f)]
    <3>1. w = [v EXCEPT !.timer = TRUE, !.result = <<f>>]
      BY <2>1, <2>2 DEF GotAddresses, evdns_getaddrinfo_set_timeout
    <3>2. Typed(w) /\ Same(w, v) /\ w.cb = v.cb
      BY <3>1 DEF Typed, Fields, Same, Family
    <3>3. Waits(v, w, f, res)
      BY <1>5, <2>2, <3>1 DEF Typed, Fields, Waits
    <3>4. QED
      BY <3>2, <3>3 DEF Outcome
  <2>3. CASE ~v.ptr[Other(f)]
    <3> DEFINE a == InOrder(f, v.result)
               u == TellAddresses([v EXCEPT !.result = <<>>], a)
    <3>1. w = free_getaddrinfo_request(u)
      BY <2>1, <2>3 DEF GotAddresses
    <3>2. a \in Seq(Family) /\ "none" \in Errors
      BY ResultSeq DEF Errors
    <3>3. AfterTell(u, v, "none", a)
      <4> HIDE DEF a
      <4>1. QED
        BY <3>2, TellAddressesEffect
    <3>4. Says(v, f, res, a)
      BY <1>5, <2>3 DEF Says
    <3> HIDE DEF a, u
    <3>5. QED
      BY <3>1, <3>2, <3>3, <3>4, TellThenFree
  <2>4. QED
    BY <2>2, <2>3
<1>6. QED
  BY <1>1, <1>2, <1>3, <1>4, <1>5 DEF Typed

(* A lookup that is asked gets a callback of its own.                      *)
LEMMA QueuedAgrees ==
    ASSUME NEW v, Typed(v), QueueAgrees(v), NEW f \in Family,
           NEW result \in Answers, v.look[f] = "asked"
    PROVE  QueueAgrees(Queued(v, f, result))
<1> SUFFICES ASSUME NEW w, w = Queued(v, f, result)
             PROVE  QueueAgrees(w)
  OBVIOUS
<1>1. /\ w.queue = Append(v.queue, [f |-> f, result |-> result])
      /\ w.look = [v.look EXCEPT ![f] = "queued"] /\ w.ptr = v.ptr
  BY QueuedEffect
<1>2. /\ v.queue \in Seq([f : Family, result : Answers])
      /\ v.look \in [Family -> {"asked", "queued", "gone"}]
  BY DEF Typed, Callbacks
<1>3. /\ DOMAIN v.queue = 1 .. Len(v.queue)
      /\ DOMAIN w.queue = 1 .. Len(v.queue) + 1 /\ Len(v.queue) \in Nat
      /\ w.queue[Len(v.queue) + 1] = [f |-> f, result |-> result]
      /\ \A i \in 1 .. Len(v.queue) : w.queue[i] = v.queue[i]
  BY <1>1, <1>2
<1>4. \A i \in DOMAIN v.queue : v.queue[i].f # f
  BY DEF QueueAgrees
<1>5. ASSUME NEW i \in DOMAIN w.queue, NEW j \in DOMAIN w.queue,
             w.queue[i].f = w.queue[j].f
      PROVE  i = j
  <2>1. \A k \in DOMAIN w.queue :
           k # Len(v.queue) + 1 => k \in DOMAIN v.queue /\ w.queue[k] = v.queue[k]
    BY <1>3
  <2>2. \A k \in DOMAIN w.queue : k # Len(v.queue) + 1 <=> w.queue[k].f # f
    BY <1>3, <1>4, <2>1
  <2>3. CASE w.queue[i].f = f
    BY <1>5, <2>2, <2>3
  <2>4. CASE w.queue[i].f # f
    BY <1>5, <2>1, <2>2, <2>4 DEF QueueAgrees
  <2>5. QED
    BY <2>3, <2>4
<1>6. ASSUME NEW g \in Family
      PROVE  w.look[g] = "queued" <=> \E i \in DOMAIN w.queue : w.queue[i].f = g
  <2>1. CASE g = f
    BY <1>1, <1>2, <1>3, <2>1
  <2>2. CASE g # f
    <3>1. w.look[g] = "queued" <=> \E i \in DOMAIN v.queue : v.queue[i].f = g
      BY <1>1, <1>2, <2>2 DEF QueueAgrees
    <3>2. QED
      BY <1>3, <2>2, <3>1
  <2>3. QED
    BY <2>1, <2>2
<1>7. \A g \in Family : w.ptr[g] <=> w.look[g] # "gone"
  BY <1>1, <1>2 DEF QueueAgrees
<1>8. QED
  BY <1>5, <1>6, <1>7 DEF QueueAgrees

(* What a cancelled lookup leaves as it was.                               *)
AfterCancel(w, v) ==
    /\ Typed(w) /\ QueueAgrees(w) /\ NoneLost(w)
    /\ w.ptr = v.ptr /\ w.timer = v.timer /\ w.canceled = v.canceled
    /\ w.cb = v.cb /\ w.told = v.told /\ w.freed = v.freed
    /\ w.touched = v.touched /\ w.answers = v.answers /\ w.result = v.result

(* A lookup that is open and asked gets a callback that says cancelled.    *)
LEMMA CancelEffect ==
    ASSUME NEW v, Typed(v), QueueAgrees(v), NoneLost(v), NEW f \in Family
    PROVE  AfterCancel(CancelOpen(v, f), v)
<1>1. CASE v.ptr[f] /\ v.look[f] = "asked"
  <2> SUFFICES ASSUME NEW w, w = Queued(v, f, "cancel")
               PROVE  AfterCancel(w, v)
    BY <1>1 DEF CancelOpen, evdns_cancel_request
  <2>1. "cancel" \in Answers
    BY DEF Answers
  <2>2. /\ w.queue = Append(v.queue, [f |-> f, result |-> "cancel"])
        /\ w.look = [v.look EXCEPT ![f] = "queued"]
        /\ w.ptr = v.ptr /\ w.timer = v.timer /\ w.canceled = v.canceled
        /\ w.cb = v.cb /\ w.told = v.told /\ w.freed = v.freed
        /\ w.touched = v.touched /\ w.answers = v.answers
        /\ w.result = v.result /\ Typed(w)
    BY <2>1, QueuedEffect
  <2>3. QueueAgrees(w)
    BY <1>1, <2>1, QueuedAgrees
  <2>4. f \notin v.answers
    BY <1>1 DEF NoneLost
  <2>5. /\ v.queue \in Seq([f : Family, result : Answers])
        /\ v.look \in [Family -> {"asked", "queued", "gone"}]
    BY DEF Typed, Callbacks
  <2>6. \A i \in DOMAIN w.queue :
           w.queue[i].result = "ok" <=> w.queue[i].f \in w.answers
    <3>1. /\ Len(v.queue) \in Nat /\ DOMAIN v.queue = 1 .. Len(v.queue)
          /\ DOMAIN w.queue = 1 .. Len(v.queue) + 1
          /\ w.queue[Len(v.queue) + 1] = [f |-> f, result |-> "cancel"]
          /\ \A i \in 1 .. Len(v.queue) : w.queue[i] = v.queue[i]
      BY <2>2, <2>5
    <3>2. ASSUME NEW i \in DOMAIN w.queue
          PROVE  w.queue[i].result = "ok" <=> w.queue[i].f \in v.answers
      <4>1. CASE i = Len(v.queue) + 1
        BY <2>4, <3>1, <4>1
      <4>2. CASE i # Len(v.queue) + 1
        <5>1. i \in DOMAIN v.queue /\ w.queue[i] = v.queue[i]
          BY <3>1, <4>2
        <5>2. QED
          BY <5>1 DEF NoneLost
      <4>3. QED
        BY <4>1, <4>2
    <3>3. QED
      BY <2>2, <3>2
  <2>7. NoneLost(w)
    BY <1>1, <2>2, <2>4, <2>5, <2>6 DEF NoneLost
  <2>8. QED
    BY <2>2, <2>3, <2>7 DEF AfterCancel
<1>2. CASE ~(v.ptr[f] /\ v.look[f] = "asked")
  BY <1>2 DEF CancelOpen, evdns_cancel_request, AfterCancel
<1>3. QED
  BY <1>1, <1>2

(* Both lookups are cancelled, as far as they are open.                    *)
LEMMA CancelBoth ==
    ASSUME NEW v, Typed(v), QueueAgrees(v), NoneLost(v)
    PROVE  AfterCancel(CancelOpen(CancelOpen(v, 4), 6), v)
<1>1. 4 \in Family /\ 6 \in Family
  BY DEF Family
<1>2. AfterCancel(CancelOpen(v, 4), v)
  BY <1>1, CancelEffect
<1>3. AfterCancel(CancelOpen(CancelOpen(v, 4), 6), CancelOpen(v, 4))
  BY <1>1, <1>2, CancelEffect DEF AfterCancel
<1>4. QED
  BY <1>2, <1>3 DEF AfterCancel

(* What is pending is told: addresses, an error, or that there is neither. *)
LEMMA PendingEffect ==
    ASSUME NEW v, Typed(v)
    PROVE  \E err \in Errors : AfterTell(PendingTold(v), v, err, v.result)
<1>1. CASE v.result # <<>>
  <2>1. v.result \in Seq(Family)
    BY ResultSeq DEF Family
  <2>2. PendingTold(v) = TellAddresses([v EXCEPT !.result = <<>>], v.result)
    BY <1>1 DEF PendingTold
  <2>3. QED
    BY <2>1, <2>2, TellAddressesEffect DEF Errors
<1>2. CASE v.result = <<>>
  <2> DEFINE err == IF v.error = "none" THEN "again" ELSE v.error
  <2>1. err \in Errors
    BY DEF Typed, Errors
  <2>2. PendingTold(v) = Tell(v, err, <<>>)
    BY <1>2 DEF PendingTold, TellError
  <2>3. <<>> \in Seq(Family)
    OBVIOUS
  <2> HIDE DEF err
  <2>4. QED
    BY <1>2, <2>1, <2>2, <2>3, TellEffect
<1>3. QED
  BY <1>1, <1>2

-----------------------------------------------------------------------------
(* Every step keeps the invariant                                          *)

(* The head and the rest of a queue that is not empty.                     *)
LEMMA TailFacts ==
    ASSUME NEW S, NEW q \in Seq(S), q # <<>>
    PROVE  /\ Head(q) \in S /\ Head(q) = q[1] /\ 1 \in DOMAIN q
           /\ Tail(q) \in Seq(S) /\ DOMAIN Tail(q) = 1 .. Len(q) - 1
           /\ DOMAIN q = 1 .. Len(q) /\ Len(q) \in Nat \ {0}
           /\ \A i \in DOMAIN Tail(q) : Tail(q)[i] = q[i + 1]
  OBVIOUS

(* The callback that is taken from the queue is of an open lookup of its   *)
(* own, and so the request is not freed yet.                               *)
LEMMA HeadIsOpen ==
    ASSUME NEW v, Good(v), v.queue # <<>>, NEW c, c = Head(v.queue)
    PROVE  /\ c \in [f : Family, result : Answers]
           /\ c = v.queue[1] /\ 1 \in DOMAIN v.queue
           /\ v.look[c.f] = "queued" /\ v.ptr[c.f] /\ v.freed = 0
           /\ c.result = "ok" <=> c.f \in v.answers
           /\ c.result = "cancel" => v.canceled \/ ~v.cb
           /\ Tail(v.queue) \in Callbacks
           /\ DOMAIN Tail(v.queue) = 1 .. Len(v.queue) - 1
           /\ DOMAIN v.queue = 1 .. Len(v.queue) /\ Len(v.queue) \in Nat \ {0}
           /\ \A i \in DOMAIN Tail(v.queue) : Tail(v.queue)[i] = v.queue[i + 1]
<1>1. /\ v.queue \in Seq([f : Family, result : Answers])
      /\ Typed(v) /\ QueueAgrees(v) /\ ToldInTime(v) /\ NoneLost(v)
  BY DEF Good, Typed, Callbacks
<1>2. /\ c \in [f : Family, result : Answers]
      /\ c = v.queue[1] /\ 1 \in DOMAIN v.queue
      /\ Tail(v.queue) \in Callbacks
      /\ DOMAIN Tail(v.queue) = 1 .. Len(v.queue) - 1
      /\ DOMAIN v.queue = 1 .. Len(v.queue) /\ Len(v.queue) \in Nat \ {0}
      /\ \A i \in DOMAIN Tail(v.queue) : Tail(v.queue)[i] = v.queue[i + 1]
  BY <1>1, TailFacts DEF Callbacks
<1>3. v.look[c.f] = "queued" /\ v.ptr[c.f]
  BY <1>1, <1>2 DEF QueueAgrees
<1>4. v.freed = 0
  BY <1>1, <1>2, <1>3 DEF ToldInTime, Family
<1>5. c.result = "ok" <=> c.f \in v.answers
  BY <1>1, <1>2 DEF NoneLost
<1>6. c.result = "cancel" => v.canceled \/ ~v.cb
  BY <1>1, <1>2 DEF ToldInTime
<1>7. QED
  BY <1>2, <1>3, <1>4, <1>5, <1>6

(* The request as evdns_getaddrinfo_gotresolve has it when it looks at the *)
(* result of c: c has left the queue and its pointer is cleared.           *)
Popped(w, v, c) ==
    /\ Typed(w)
    /\ w.look = [v.look EXCEPT ![c.f] = "gone"]
    /\ w.ptr = [v.ptr EXCEPT ![c.f] = FALSE]
    /\ w.queue = Tail(v.queue)
    /\ w.timer = v.timer /\ w.canceled = v.canceled /\ w.cb = v.cb
    /\ w.told = v.told /\ w.freed = v.freed /\ w.touched = FALSE
    /\ w.answers = v.answers /\ w.result = v.result

(* A callback takes the head of the queue and resolves its family.         *)
LEMMA CallbackResolves ==
    ASSUME Good(r), Callback, NEW c, c = Head(r.queue)
    PROVE  /\ \E w : Popped(w, r, c) /\ r' = Resolved(w, c.f, c.result)
           /\ r.queue # <<>>
<1>1. r.queue # <<>> /\ Typed(r) /\ ~r.touched
  BY DEF Callback, Good, ToldInTime
<1>2. /\ c \in [f : Family, result : Answers] /\ r.freed = 0
      /\ Tail(r.queue) \in Callbacks
  BY <1>1, HeadIsOpen
<1> DEFINE u == [r EXCEPT !.queue = Tail(@), !.look[c.f] = "gone"]
           d == u.done \/ ~u.ptr[Other(c.f)]
           t == u.touched \/ u.freed > 0
           w == [u EXCEPT !.ptr[c.f] = FALSE, !.done = d, !.touched = t]
<1>3. r' = Resolved(w, c.f, c.result)
  BY DEF Callback, evdns_getaddrinfo_gotresolve
<1>4. /\ Typed(u) /\ u.look = [r.look EXCEPT ![c.f] = "gone"]
      /\ u.queue = Tail(r.queue) /\ u.ptr = r.ptr
      /\ u.timer = r.timer /\ u.canceled = r.canceled /\ u.cb = r.cb
      /\ u.told = r.told /\ u.freed = 0 /\ u.touched = FALSE
      /\ u.answers = r.answers /\ u.result = r.result
  BY <1>1, <1>2 DEF Typed, Fields
<1> HIDE DEF u
<1>5. d \in BOOLEAN /\ t = FALSE
  BY <1>4 DEF Typed
<1> HIDE DEF d, t
<1>6. Popped(w, r, c)
  BY <1>1, <1>2, <1>4, <1>5 DEF Typed, Fields, Popped
<1>7. QED
  BY <1>1, <1>3, <1>6

(* What is left of the queue agrees with what is left of the lookups.      *)
LEMMA PoppedAgrees ==
    ASSUME NEW v, Good(v), v.queue # <<>>, NEW c, c = Head(v.queue),
           NEW w, Popped(w, v, c)
    PROVE  QueueAgrees(w)
<1>1. /\ QueueAgrees(v) /\ v.look \in [Family -> {"asked", "queued", "gone"}]
      /\ v.ptr \in [Family -> BOOLEAN] /\ c.f \in Family
      /\ c = v.queue[1]
  <2>1. c = v.queue[1] /\ c \in [f : Family, result : Answers]
    BY HeadIsOpen
  <2>2. QED
    BY <2>1 DEF Good, Typed
<1>2. /\ w.look = [v.look EXCEPT ![c.f] = "gone"]
      /\ w.ptr = [v.ptr EXCEPT ![c.f] = FALSE]
      /\ DOMAIN w.queue = 1 .. Len(v.queue) - 1
      /\ DOMAIN v.queue = 1 .. Len(v.queue) /\ Len(v.queue) \in Nat \ {0}
      /\ \A i \in DOMAIN w.queue : w.queue[i] = v.queue[i + 1]
  <2>1. w.queue = Tail(v.queue)
    BY DEF Popped
  <2>2. /\ DOMAIN Tail(v.queue) = 1 .. Len(v.queue) - 1
        /\ DOMAIN v.queue = 1 .. Len(v.queue) /\ Len(v.queue) \in Nat \ {0}
        /\ \A i \in DOMAIN Tail(v.queue) : Tail(v.queue)[i] = v.queue[i + 1]
    BY HeadIsOpen
  <2>3. QED
    BY <2>1, <2>2 DEF Popped
<1> DEFINE n == Len(v.queue)
<1>a. /\ DOMAIN w.queue = 1 .. n - 1 /\ DOMAIN v.queue = 1 .. n /\ n \in Nat \ {0}
      /\ \A i \in 1 .. n - 1 : w.queue[i] = v.queue[i + 1]
  BY <1>2
<1> HIDE DEF n
<1>b. /\ \A i \in 1 .. n - 1 : i + 1 \in 1 .. n /\ i + 1 # 1 /\ i \in Int
      /\ \A i \in 1 .. n : i # 1 => i - 1 \in 1 .. n - 1 /\ (i - 1) + 1 = i
  BY <1>a
<1>c. ASSUME NEW i \in 1 .. n - 1
      PROVE  w.queue[i] = v.queue[i + 1] /\ i + 1 \in DOMAIN v.queue /\ i + 1 # 1
  BY <1>a, <1>b
<1>3. ASSUME NEW i \in DOMAIN w.queue, NEW j \in DOMAIN w.queue,
             w.queue[i].f = w.queue[j].f
      PROVE  i = j
  <2>1. v.queue[i + 1].f = v.queue[j + 1].f
    BY <1>a, <1>c, <1>3
  <2>2. i + 1 \in DOMAIN v.queue /\ j + 1 \in DOMAIN v.queue
    BY <1>a, <1>c
  <2>3. \A p, q \in DOMAIN v.queue : v.queue[p].f = v.queue[q].f => p = q
    BY <1>1 DEF QueueAgrees
  <2>4. i + 1 = j + 1
    BY <2>1, <2>2, <2>3
  <2>5. i \in Int /\ j \in Int
    BY <1>a, <1>b
  <2>6. QED
    BY <2>4, <2>5
<1>4. ASSUME NEW g \in Family
      PROVE  w.look[g] = "queued" <=> \E i \in DOMAIN w.queue : w.queue[i].f = g
  <2>1. CASE g = c.f
    <3>1. ASSUME NEW i \in DOMAIN w.queue PROVE w.queue[i].f # c.f
      <4>1. /\ 1 \in DOMAIN v.queue /\ i + 1 \in DOMAIN v.queue
            /\ i + 1 # 1 /\ w.queue[i] = v.queue[i + 1]
        BY <1>a, <1>c
      <4>2. v.queue[i + 1].f = v.queue[1].f => i + 1 = 1
        BY <1>1, <4>1 DEF QueueAgrees
      <4>3. QED
        BY <1>1, <4>1, <4>2
    <3>2. QED
      BY <1>1, <1>2, <2>1, <3>1
  <2>2. CASE g # c.f
    <3>1. w.look[g] = "queued" <=> \E i \in DOMAIN v.queue : v.queue[i].f = g
      BY <1>1, <1>2, <2>2 DEF QueueAgrees
    <3>2. ASSUME NEW i \in DOMAIN v.queue, v.queue[i].f = g
          PROVE  \E j \in DOMAIN w.queue : w.queue[j].f = g
      <4>1. i - 1 \in 1 .. n - 1 /\ (i - 1) + 1 = i
        BY <1>1, <1>a, <1>b, <2>2, <3>2
      <4>2. w.queue[i - 1] = v.queue[i]
        BY <1>a, <4>1
      <4>3. QED
        BY <1>a, <3>2, <4>1, <4>2
    <3>3. ASSUME NEW j \in DOMAIN w.queue, w.queue[j].f = g
          PROVE  \E i \in DOMAIN v.queue : v.queue[i].f = g
      BY <1>a, <1>c, <3>3
    <3>4. QED
      BY <3>1, <3>2, <3>3
  <2>3. QED
    BY <2>1, <2>2
<1>5. \A g \in Family : w.ptr[g] <=> w.look[g] # "gone"
  BY <1>1, <1>2 DEF QueueAgrees
<1>6. QED
  BY <1>3, <1>4, <1>5 DEF QueueAgrees

(* The callback takes its result from the queue to the pending addresses   *)
(* or to the user.                                                         *)
LEMMA CallbackStep == Good(r) /\ Callback => Good(r')
<1> SUFFICES ASSUME Good(r), Callback PROVE Good(r')
  OBVIOUS
<1> DEFINE c == Head(r.queue)
<1>1. PICK w : Popped(w, r, c) /\ r' = Resolved(w, c.f, c.result)
  BY CallbackResolves
<1>2. /\ r.queue # <<>>
      /\ c \in [f : Family, result : Answers]
      /\ r.look[c.f] = "queued" /\ r.ptr[c.f] /\ r.freed = 0
      /\ c.result = "ok" <=> c.f \in r.answers
      /\ c.result = "cancel" => r.canceled \/ ~r.cb
      /\ DOMAIN Tail(r.queue) = 1 .. Len(r.queue) - 1
      /\ DOMAIN r.queue = 1 .. Len(r.queue) /\ Len(r.queue) \in Nat \ {0}
      /\ \A i \in DOMAIN Tail(r.queue) : Tail(r.queue)[i] = r.queue[i + 1]
  BY CallbackResolves, HeadIsOpen
<1>3. QueueAgrees(w)
  BY <1>1, <1>2, PoppedAgrees
<1> DEFINE f == c.f
           res == c.result
<1>4. Typed(w) /\ f \in Family /\ res \in Answers
  BY <1>1, <1>2 DEF Popped
<1> HIDE DEF c
<1>5. Outcome(w, r', f, res)
  BY <1>1, <1>4, Outcomes
<1>6. Typed(r') /\ Same(r', w) /\ r'.cb = w.cb
  BY <1>5 DEF Outcome
<1>7. QueueAgrees(r')
  BY <1>3, <1>6 DEF QueueAgrees, Same
<1>8. /\ Typed(r) /\ QueueAgrees(r) /\ ToldInTime(r) /\ NoneLost(r)
      /\ r.ptr \in [Family -> BOOLEAN]
  BY DEF Good, Typed
<1>9. \A i \in DOMAIN w.queue : w.queue[i] = r.queue[i + 1] /\ i + 1 \in DOMAIN r.queue
  BY <1>1, <1>2 DEF Popped, c
<1> DEFINE g == Other(f)
<1>10. /\ f \in {4, 6} /\ g \in {4, 6} /\ g # f /\ (f = 4 => g = 6) /\ (f = 6 => g = 4)
       /\ w.ptr[f] = FALSE /\ w.ptr[g] = r.ptr[g] /\ r.ptr[f]
       /\ r.ptr[4] \in BOOLEAN /\ r.ptr[6] \in BOOLEAN
  <2>1. w.ptr = [r.ptr EXCEPT ![f] = FALSE] /\ r.ptr[f]
    BY <1>1, <1>2 DEF Popped
  <2>2. f \in {4, 6}
    BY <1>4 DEF Family
  <2> HIDE DEF f
  <2>3. g \in {4, 6} /\ g # f /\ (f = 4 => g = 6) /\ (f = 6 => g = 4)
    BY <2>2 DEF Other
  <2> HIDE DEF g
  <2>4. QED
    BY <1>8, <2>1, <2>2, <2>3 DEF Family
<1> HIDE DEF f, res
<1>11. /\ r'.ptr = w.ptr /\ r'.queue = w.queue /\ r'.canceled = w.canceled
       /\ r'.look = w.look /\ r'.answers = w.answers
       /\ r'.cb = r.cb /\ w.freed = 0 /\ w.told = r.told /\ w.cb = r.cb
       /\ w.touched = FALSE /\ w.timer = r.timer /\ w.canceled = r.canceled
       /\ w.result = r.result
  BY <1>1, <1>2, <1>6 DEF Same, Popped
<1>12. /\ r.cb => r.told = <<>>
       /\ ~r.cb => Len(r.told) = 1 /\ ~r.ptr[g]
       /\ r.timer => r.cb /\ ~r.ptr[g]
       /\ res = "cancel" => r.canceled \/ ~r.cb
  BY <1>2, <1>8, <1>10 DEF ToldInTime, OneLeft, res
<1>13. ~r.canceled /\ r.cb => \A i \in DOMAIN w.queue : w.queue[i].result # "cancel"
  BY <1>8, <1>9 DEF ToldInTime
<1>14. ToldInTime(r')
  <2>1. CASE GoesOn(w, r', f, res)
    BY <1>10, <1>11, <1>12, <1>13, <2>1 DEF GoesOn, ToldInTime, OneLeft
  <2>2. CASE Freed(w, r', f, res)
    BY <1>10, <1>11, <1>12, <1>13, <2>2 DEF Freed, ToldInTime, OneLeft
  <2>3. CASE Waits(w, r', f, res)
    BY <1>10, <1>11, <1>12, <1>13, <2>3 DEF Waits, ToldInTime, OneLeft
  <2>4. ASSUME NEW addrs \in Seq(Family), Answered(w, r', f, res, addrs)
        PROVE  ToldInTime(r')
    <3>1. PICK err \in Errors :
             r'.told = Append(w.told, [err |-> err, addrs |-> addrs])
      BY <2>4 DEF Answered
    <3>2. Len(r'.told) = 1
      BY <1>11, <1>12, <2>4, <3>1 DEF Answered, Says
    <3>3. QED
      BY <1>10, <1>11, <1>12, <1>13, <2>4, <3>2
      DEF Answered, Says, ToldInTime, OneLeft
  <2>5. QED
    BY <1>5, <2>1, <2>2, <2>3, <2>4 DEF Outcome
<1>15. NoneLost(r')
  <2>1. \A i \in DOMAIN r'.queue :
           r'.queue[i].result = "ok" <=> r'.queue[i].f \in r'.answers
    BY <1>1, <1>8, <1>9, <1>11 DEF NoneLost, Popped
  <2>2. /\ r'.look[f] = "gone" /\ \A h \in Family : h # f => r'.look[h] = r.look[h]
        /\ r'.answers = r.answers
        /\ res = "ok" <=> f \in r.answers
        /\ \A h \in Family : h = f \/ h = g
        /\ r.result = <<f>> => FALSE
    BY <1>1, <1>2, <1>4, <1>8, <1>10, <1>11 DEF Popped, Typed, NoneLost,
       Family, f, res
  <2>3. r.told = <<>> => r.cb
    <3>1. Len(<<>>) = 0
      OBVIOUS
    <3>2. QED
      BY <1>8, <1>12, <3>1 DEF Typed
  <2> DEFINE Kept(h) ==
        /\ r'.result = <<h>> => h \in r.answers /\ r'.look[h] = "gone"
        /\ h \in r.answers /\ r'.look[h] = "gone" /\ ~r.canceled /\ r'.told = <<>>
              => r'.result = <<h>>
        /\ h \in r.answers => r'.look[h] # "asked"
  <2>4. ASSUME NEW h \in Family PROVE Kept(h)
    <3>1. /\ r.result = <<h>> => h \in r.answers /\ r.look[h] = "gone"
          /\ h \in r.answers /\ r.look[h] = "gone" /\ ~r.canceled /\ r.told = <<>>
                => r.result = <<h>>
          /\ h \in r.answers => r.look[h] # "asked"
      BY <1>8 DEF NoneLost
    <3>2. CASE GoesOn(w, r', f, res)
      BY <1>10, <1>11, <1>12, <2>2, <2>3, <3>1, <3>2 DEF GoesOn
    <3>3. CASE Freed(w, r', f, res)
      BY <1>10, <1>11, <1>12, <2>2, <2>3, <3>1, <3>3 DEF Freed
    <3>4. CASE Waits(w, r', f, res)
      <4>1. r'.result = IF res = "ok" THEN <<f>> ELSE r.result
        BY <1>11, <3>4 DEF Waits
      <4>2. CASE h = f
        <5>1. CASE res = "ok"
          BY <1>11, <2>2, <4>1, <4>2, <5>1
        <5>2. CASE res # "ok"
          <6>1. r'.result # <<h>> /\ h \notin r.answers
            BY <2>2, <4>1, <4>2, <5>2
          <6>2. QED
            BY <6>1
        <5>3. QED
          BY <5>1, <5>2
      <4>3. CASE h = g
        <5>1. h # f /\ w.ptr[g]
          BY <1>10, <3>4, <4>3 DEF Waits
        <5>2. r.look[h] # "gone"
          BY <1>8, <1>10, <4>3, <5>1 DEF QueueAgrees
        <5>3. <<h>> # <<f>>
          BY <5>1
        <5>4. r'.result # <<h>>
          BY <3>1, <4>1, <5>2, <5>3
        <5>5. QED
          BY <2>2, <3>1, <5>1, <5>2, <5>4
      <4>4. QED
        BY <2>2, <4>2, <4>3
    <3>5. ASSUME NEW addrs \in Seq(Family), Answered(w, r', f, res, addrs)
          PROVE  Kept(h)
      <4>1. PICK err \in Errors :
               r'.told = Append(w.told, [err |-> err, addrs |-> addrs])
        BY <3>5 DEF Answered
      <4>2. r'.told # <<>>
        BY <1>11, <1>12, <3>5, <4>1 DEF Answered, Says
      <4>3. r'.result \in {<<>>, r.result}
        BY <1>11, <3>5 DEF Answered
      <4>4. <<h>> # <<>>
        OBVIOUS
      <4>5. QED
        BY <1>10, <2>2, <3>1, <4>2, <4>3, <4>4
    <3>6. QED
      BY <1>5, <3>2, <3>3, <3>4, <3>5 DEF Outcome
  <2>5. /\ \A h \in Family : r'.result = <<h>> => h \in r'.answers /\ r'.look[h] = "gone"
        /\ \A h \in Family : h \in r'.answers /\ r'.look[h] = "gone" /\ ~r'.canceled
                                /\ r'.told = <<>> => r'.result = <<h>>
        /\ \A h \in Family : h \in r'.answers => r'.look[h] # "asked"
    BY <1>11, <2>2, <2>4
  <2>6. QED
    BY <2>1, <2>5 DEF NoneLost
<1>16. QED
  BY <1>6, <1>7, <1>14, <1>15 DEF Good

(* An answer queues the callback of a lookup that is open.                 *)
LEMMA AnswerStep ==
    ASSUME Good(r), NEW f \in Family,
           NEW result \in {"ok", "empty", "missing", "timeout"}, Answer(f, result)
    PROVE  Good(r')
<1>1. /\ Typed(r) /\ QueueAgrees(r) /\ ToldInTime(r) /\ NoneLost(r)
      /\ r.look[f] = "asked" /\ result \in Answers /\ f \notin r.answers
  BY DEF Good, Answer, Answers, NoneLost
<1> DEFINE w == Queued(r, f, result)
           a == IF result = "ok" THEN r.answers \cup {f} ELSE r.answers
<1>2. /\ Typed(w) /\ QueueAgrees(w)
      /\ w.look = [r.look EXCEPT ![f] = "queued"]
      /\ w.queue = Append(r.queue, [f |-> f, result |-> result])
      /\ w.ptr = r.ptr /\ w.result = r.result /\ w.timer = r.timer
      /\ w.canceled = r.canceled /\ w.cb = r.cb /\ w.told = r.told
      /\ w.freed = r.freed /\ w.touched = r.touched /\ w.answers = r.answers
  BY <1>1, QueuedEffect, QueuedAgrees
<1>3. r' = [w EXCEPT !.answers = a]
  <2>1. r' = [w EXCEPT !.answers = IF result = "ok" THEN @ \cup {f} ELSE @]
    BY DEF Answer
  <2> HIDE DEF w
  <2>2. QED
    BY <1>2, <2>1
<1> HIDE DEF w
<1>4. a \in SUBSET Family
  BY <1>1 DEF Typed
<1>5. /\ Typed(r') /\ r'.answers = a
      /\ r'.look = w.look /\ r'.queue = w.queue /\ r'.ptr = r.ptr
      /\ r'.result = r.result /\ r'.timer = r.timer /\ r'.canceled = r.canceled
      /\ r'.cb = r.cb /\ r'.told = r.told /\ r'.freed = r.freed
      /\ r'.touched = r.touched
  <2> HIDE DEF a
  <2>1. QED
    BY <1>2, <1>3, <1>4 DEF Typed, Fields
<1>6. QueueAgrees(r')
  BY <1>2, <1>5 DEF QueueAgrees
<1>7. /\ Len(r.queue) \in Nat /\ DOMAIN r.queue = 1 .. Len(r.queue)
      /\ DOMAIN w.queue = 1 .. Len(r.queue) + 1
      /\ w.queue[Len(r.queue) + 1] = [f |-> f, result |-> result]
      /\ \A i \in 1 .. Len(r.queue) : w.queue[i] = r.queue[i]
  <2>1. r.queue \in Seq([f : Family, result : Answers])
    BY <1>1 DEF Typed, Callbacks
  <2>2. QED
    BY <1>2, <2>1
<1>8. ToldInTime(r')
  BY <1>1, <1>5, <1>7 DEF ToldInTime, OneLeft
<1>9. \A i \in DOMAIN r'.queue :
         r'.queue[i].result = "ok" <=> r'.queue[i].f \in r'.answers
  <2>1. \A i \in 1 .. Len(r.queue) : r.queue[i].f # f
    BY <1>1, <1>7 DEF QueueAgrees
  <2>2. \A i \in 1 .. Len(r.queue) :
           r.queue[i].result = "ok" <=> r.queue[i].f \in a
    BY <1>1, <1>7, <2>1 DEF NoneLost
  <2>3. result = "ok" <=> f \in a
    BY <1>1
  <2>4. QED
    BY <1>5, <1>7, <2>2, <2>3
<1>10. \A h \in Family :
         /\ r'.look[h] = "gone" <=> r.look[h] = "gone"
         /\ r'.look[h] = "asked" => r.look[h] = "asked" /\ h # f
         /\ h \in a => h = f \/ h \in r.answers
         /\ h \in r.answers => h \in a
  BY <1>1, <1>2, <1>5 DEF Typed
<1>11. NoneLost(r')
  <2>1. \A h \in Family :
           r'.result = <<h>> => h \in r'.answers /\ r'.look[h] = "gone"
    BY <1>1, <1>5, <1>10 DEF NoneLost
  <2>2. \A h \in Family : h \in r'.answers /\ r'.look[h] = "gone" /\ ~r'.canceled
                             /\ r'.told = <<>> => r'.result = <<h>>
    BY <1>1, <1>5, <1>10 DEF NoneLost
  <2>3. \A h \in Family : h \in r'.answers => r'.look[h] # "asked"
    BY <1>1, <1>5, <1>10 DEF NoneLost
  <2>4. QED
    BY <1>9, <2>1, <2>2, <2>3 DEF NoneLost
<1>12. QED
  BY <1>5, <1>6, <1>8, <1>11 DEF Good

(* The timer tells the user and leaves the request to the other lookup.    *)
LEMMA SkewTells ==
    ASSUME Good(r), Skew
    PROVE  \E w, u : \E err \in Errors :
              /\ AfterCancel(w, [r EXCEPT !.timer = FALSE])
              /\ AfterTell(u, w, err, w.result)
              /\ r' = [u EXCEPT !.cb = FALSE]
<1> DEFINE v == [r EXCEPT !.timer = FALSE]
           w == CancelOpen(CancelOpen(v, 4), 6)
           u == PendingTold(w)
<1>1. /\ Typed(r) /\ QueueAgrees(r) /\ NoneLost(r) /\ OneLeft(r)
  BY DEF Good, Skew, ToldInTime
<1>2. /\ Typed(v) /\ QueueAgrees(v) /\ NoneLost(v) /\ v.ptr = r.ptr
  BY <1>1 DEF Typed, Fields, QueueAgrees, NoneLost
<1>3. r' = [u EXCEPT !.cb = FALSE]
  <2>1. r.ptr[4] \/ r.ptr[6]
    BY <1>1 DEF OneLeft, Typed, Family
  <2>2. QED
    BY <1>2, <2>1 DEF Skew, evdns_getaddrinfo_timeout_cb
<1> HIDE DEF v
<1>4. AfterCancel(w, v)
  BY <1>2, CancelBoth
<1> HIDE DEF w
<1>5. \E err \in Errors : AfterTell(u, w, err, w.result)
  BY <1>4, PendingEffect DEF AfterCancel
<1> HIDE DEF u
<1>6. QED
  BY <1>3, <1>4, <1>5 DEF v

(* The timer leaves a request that is told, with the open lookup to free it. *)
LEMMA SkewStep == Good(r) /\ Skew => Good(r')
<1> SUFFICES ASSUME Good(r), Skew PROVE Good(r')
  OBVIOUS
<1> DEFINE v == [r EXCEPT !.timer = FALSE]
<1>1. PICK w, u : \E err \in Errors :
         AfterCancel(w, v) /\ AfterTell(u, w, err, w.result)
         /\ r' = [u EXCEPT !.cb = FALSE]
  BY SkewTells
<1>2. PICK err \in Errors :
         AfterCancel(w, v) /\ AfterTell(u, w, err, w.result)
         /\ r' = [u EXCEPT !.cb = FALSE]
  BY <1>1
<1>3. /\ Typed(r) /\ ToldInTime(r) /\ r.timer
  BY DEF Good, Skew
<1>4. /\ v.ptr = r.ptr /\ v.timer = FALSE /\ v.canceled = r.canceled /\ v.cb = r.cb
      /\ v.told = r.told /\ v.freed = r.freed /\ v.touched = r.touched
      /\ v.answers = r.answers /\ v.result = r.result
  BY <1>3 DEF Typed, Fields
<1>5. /\ OneLeft(r) /\ r.cb /\ r.freed = 0 /\ r.told = <<>>
      /\ r.touched = FALSE
  BY <1>3 DEF ToldInTime, OneLeft, Typed, Family
<1> HIDE DEF v
<1>6. /\ Typed(u) /\ Same(u, w) /\ u.timer = FALSE /\ u.freed = 0 /\ u.touched = FALSE
      /\ u.told = Append(<<>>, [err |-> err, addrs |-> w.result])
      /\ u.ptr = r.ptr /\ u.result \in {<<>>, w.result}
      /\ QueueAgrees(w) /\ NoneLost(w)
  <2>1. /\ Typed(w) /\ w.timer = FALSE /\ w.freed = 0 /\ w.told = <<>>
        /\ w.touched = FALSE /\ w.ptr = r.ptr /\ QueueAgrees(w) /\ NoneLost(w)
    BY <1>2, <1>4, <1>5 DEF AfterCancel
  <2>2. /\ Typed(u) /\ Same(u, w) /\ u.timer = w.timer /\ u.freed = w.freed
        /\ u.told = Append(w.told, [err |-> err, addrs |-> w.result])
        /\ u.touched = (w.touched \/ w.freed > 0) /\ u.result \in {<<>>, w.result}
    BY <1>2 DEF AfterTell
  <2>3. u.touched = FALSE
    <3>1. ~(w.touched \/ w.freed > 0)
      BY <2>1
    <3>2. u.touched \in BOOLEAN
      BY <2>2 DEF Typed
    <3>3. ~u.touched
      BY <2>2, <3>1
    <3>4. QED
      BY <3>2, <3>3
  <2>4. QED
    BY <2>1, <2>2, <2>3 DEF Same
<1>7. /\ Typed(r') /\ Same(r', w) /\ r'.timer = FALSE /\ r'.freed = 0
      /\ r'.touched = FALSE /\ r'.cb = FALSE /\ r'.told = u.told
      /\ r'.ptr = r.ptr /\ r'.result \in {<<>>, w.result}
  BY <1>2, <1>6 DEF Typed, Fields, Same
<1>8. Len(r'.told) = 1 /\ r'.told # <<>>
  BY <1>6, <1>7
<1>9. QueueAgrees(r')
  BY <1>6, <1>7 DEF QueueAgrees, Same
<1>10. ToldInTime(r')
  BY <1>5, <1>7, <1>8 DEF ToldInTime, OneLeft
<1>11. NoneLost(r')
  <2>1. \A f \in Family : <<f>> # <<>>
    OBVIOUS
  <2>2. QED
    BY <1>6, <1>7, <1>8, <2>1 DEF NoneLost, Same
<1>12. QED
  BY <1>7, <1>9, <1>10, <1>11 DEF Good

(* A cancellation stops the timer and cancels what is open.                *)
LEMMA CancelStep == Good(r) /\ Cancel => Good(r') /\ r'.told = r.told
<1> SUFFICES ASSUME Good(r), Cancel PROVE Good(r') /\ r'.told = r.told
  OBVIOUS
<1>1. CASE r.done
  BY <1>1 DEF Cancel, evdns_getaddrinfo_cancel
<1>2. CASE ~r.done
  <2> DEFINE v == [r EXCEPT !.timer = FALSE, !.canceled = TRUE]
             w == CancelOpen(CancelOpen(v, 4), 6)
  <2>1. /\ Typed(r) /\ QueueAgrees(r) /\ ToldInTime(r) /\ NoneLost(r)
        /\ r.told = <<>> /\ r' = w
    BY <1>2 DEF Good, Cancel, evdns_getaddrinfo_cancel
  <2>2. /\ Typed(v) /\ v.ptr = r.ptr /\ v.timer = FALSE /\ v.canceled = TRUE
        /\ v.cb = r.cb /\ v.told = r.told /\ v.freed = r.freed
        /\ v.touched = r.touched /\ v.answers = r.answers /\ v.result = r.result
        /\ v.look = r.look /\ v.queue = r.queue
    BY <2>1 DEF Typed, Fields
  <2> HIDE DEF v
  <2>3. QueueAgrees(v) /\ NoneLost(v)
    BY <2>1, <2>2 DEF QueueAgrees, NoneLost
  <2>4. AfterCancel(w, v)
    BY <2>2, <2>3, CancelBoth
  <2> HIDE DEF w
  <2>5. Len(r.told) = 0
    BY <2>1
  <2>6. ToldInTime(w)
    BY <2>1, <2>2, <2>4, <2>5 DEF AfterCancel, ToldInTime, OneLeft
  <2>7. QED
    BY <2>1, <2>2, <2>4, <2>6 DEF AfterCancel, Good
<1>3. QED
  BY <1>1, <1>2

(* A new request is good, whichever families it asks for.                  *)
LEMMA InitGood == Init => Good(r)
<1> SUFFICES ASSUME NEW fams, r = evdns_getaddrinfo(fams)
             PROVE  Good(r)
  BY DEF Init
<1>1. /\ DOMAIN r = Fields
      /\ r.look = [f \in {4, 6} |-> IF f \in fams THEN "asked" ELSE "gone"]
      /\ r.ptr = [f \in {4, 6} |-> f \in fams] /\ r.queue = <<>>
      /\ r.result = <<>> /\ r.error = "none" /\ r.timer = FALSE
      /\ r.canceled = FALSE /\ r.done = FALSE /\ r.cb = TRUE
      /\ r.told = <<>> /\ r.freed = 0 /\ r.touched = FALSE /\ r.answers = {}
  BY DEF evdns_getaddrinfo, Fields
<1>2. r.ptr \in [Family -> BOOLEAN]
  <2>1. [f \in Family |-> f \in fams] \in [Family -> BOOLEAN]
    OBVIOUS
  <2>2. QED
    BY <1>1, <2>1 DEF Family
<1>3. /\ r.look \in [Family -> {"asked", "queued", "gone"}]
      /\ \A f \in Family : /\ r.ptr[f] <=> f \in fams
                           /\ r.look[f] = "asked" <=> f \in fams
                           /\ r.look[f] = "gone" <=> f \notin fams
                           /\ r.look[f] # "queued"
  <2>1. /\ r.look = [f \in Family |-> IF f \in fams THEN "asked" ELSE "gone"]
        /\ r.ptr = [f \in Family |-> f \in fams]
    BY <1>1 DEF Family
  <2>2. \A f \in Family : /\ r.look[f] = IF f \in fams THEN "asked" ELSE "gone"
                          /\ r.ptr[f] = (f \in fams)
    BY <2>1, Zenon
  <2>3. r.look \in [Family -> {"asked", "queued", "gone"}]
    BY <2>1
  <2>4. QED
    BY <2>2, <2>3
<1>4. Typed(r)
  <2>1. /\ r.queue \in Callbacks /\ r.told \in Seq(Told) /\ r.error \in Errors
        /\ r.freed \in Nat /\ r.result \in {<<>>, <<4>>, <<6>>}
        /\ r.answers \in SUBSET Family
    BY <1>1 DEF Callbacks, Errors
  <2>2. {r.timer, r.canceled, r.done, r.cb, r.touched} \subseteq BOOLEAN
    BY <1>1
  <2>3. QED
    BY <1>1, <1>2, <1>3, <2>1, <2>2 DEF Typed
<1>5. QueueAgrees(r)
  <2>1. DOMAIN r.queue = {}
    BY <1>1
  <2>2. QED
    BY <1>3, <2>1 DEF QueueAgrees
<1>6. ToldInTime(r)
  BY <1>1 DEF ToldInTime
<1>7. NoneLost(r)
  <2>1. \A f \in Family : <<f>> # <<>>
    OBVIOUS
  <2>2. QED
    BY <1>1, <2>1 DEF NoneLost
<1>8. QED
  BY <1>4, <1>5, <1>6, <1>7 DEF Good

(* The timer runs only while one lookup is answered and the other is not   *)
(* (evdns.c:4366-4376).                                                    *)
LEMMA TimerIsNeeded == Good(r) => TimerNeeded
<1> SUFFICES ASSUME Good(r), r.timer
             PROVE  \E f \in {4, 6} : r.ptr[f] /\ r.look[Other(f)] = "gone"
  BY DEF TimerNeeded
<1>1. QueueAgrees(r) /\ OneLeft(r) /\ r.ptr \in [Family -> BOOLEAN]
  BY DEF Good, ToldInTime, Typed
<1>2. Other(4) = 6 /\ Other(6) = 4
  BY DEF Other
<1>3. QED
  BY <1>1, <1>2 DEF QueueAgrees, OneLeft, Family

(* Every operation keeps the invariant.                                    *)
LEMMA InvKept == Inv /\ [Next]_vars => Inv'
<1> SUFFICES ASSUME Good(r), [Next]_vars PROVE Good(r')
  BY DEF Inv
<1>1. CASE \E f \in {4, 6}, a \in {"ok", "empty", "missing", "timeout"} : Answer(f, a)
  BY <1>1, AnswerStep DEF Family
<1>2. CASE Callback
  BY <1>2, CallbackStep
<1>3. CASE Skew
  BY <1>3, SkewStep
<1>4. CASE Cancel
  BY <1>4, CancelStep
<1>5. CASE UNCHANGED vars
  BY <1>5 DEF vars
<1>6. QED
  BY <1>1, <1>2, <1>3, <1>4, <1>5 DEF Next

(* The invariant holds in every state.                                     *)
THEOREM Invariance == Spec => []Inv
<1>1. Init => Inv
  BY InitGood DEF Inv
<1>2. QED
  BY <1>1, InvKept, PTL DEF Spec

(* A request that satisfies the invariant is as the user may expect.       *)
LEMMA InvSuffices == Inv => OnceAndForAll
<1> SUFFICES ASSUME Good(r) PROVE OnceAndForAll
  BY DEF Inv
<1>1. /\ Typed(r) /\ QueueAgrees(r) /\ ToldInTime(r)
  BY DEF Good
<1>2. Len(r.told) <= 1 /\ (r.freed = 1 => Len(r.told) = 1)
  <2>1. Len(<<>>) = 0
    OBVIOUS
  <2>2. CASE r.freed = 0 /\ r.cb
    <3>1. r.told = <<>>
      BY <1>1, <2>2 DEF ToldInTime
    <3>2. Len(r.told) = 0
      BY <2>1, <3>1
    <3>3. Len(r.told) <= 1
      BY <3>2
    <3>4. r.freed # 1
      BY <2>2
    <3>5. QED
      BY <3>3, <3>4
  <2>3. CASE r.freed = 1 \/ ~r.cb
    <3>1. Len(r.told) = 1
      BY <1>1, <2>3 DEF ToldInTime
    <3>2. QED
      BY <3>1
  <2>4. QED
    BY <1>1, <2>2, <2>3 DEF ToldInTime
<1>3. r.freed <= 1 /\ ~r.touched
  BY <1>1 DEF ToldInTime
<1>4. ASSUME r.freed = 1
      PROVE  r.queue = <<>> /\ ~r.timer /\ \A f \in {4, 6} : r.look[f] = "gone"
  <2>1. \A f \in {4, 6} : r.look[f] = "gone"
    BY <1>1, <1>4 DEF ToldInTime, QueueAgrees, Family
  <2>2. r.queue \in Seq([f : Family, result : Answers])
    BY <1>1 DEF Typed, Callbacks
  <2>3. CASE r.queue # <<>>
    <3>1. 1 \in DOMAIN r.queue /\ r.queue[1] \in [f : Family, result : Answers]
      BY <2>2, <2>3, TailFacts
    <3>2. QED
      BY <1>1, <2>1, <3>1 DEF QueueAgrees, Family
  <2>4. QED
    BY <1>1, <1>4, <2>1, <2>3 DEF ToldInTime
<1>5. QED
  BY <1>2, <1>3, <1>4, TimerIsNeeded DEF OnceAndForAll

(* The user is called once and the request freed once, after which nothing *)
(* refers to it, in whatever order the answers, the timer, a cancellation  *)
(* and the queued callbacks come (evdns.c:4235-4285, 4301-4475).           *)
THEOREM OnceAndForAllHolds == Spec => []OnceAndForAll
  BY InvSuffices, Invariance, PTL

-----------------------------------------------------------------------------
(* What the user is told                                                   *)

(* The addresses in a list of at most two.                                 *)
LEMMA AddressSets ==
    /\ {<<>>[i] : i \in DOMAIN <<>>} = {}
    /\ \A x : {<<x>>[i] : i \in DOMAIN <<x>>} = {x}
    /\ \A x, y : {<<x, y>>[i] : i \in DOMAIN <<x, y>>} = {x, y}
  OBVIOUS

(* One call of the user is right.                                          *)
RightlyTold(addrs) ==
    LET told == {addrs[i] : i \in DOMAIN addrs}
    IN  told # {} =>
           /\ addrs # <<6, 4>> /\ told \subseteq r'.answers
           /\ op' = "callback" /\ ~r.canceled => told = r'.answers

(* Two lists of one address make a list of two.                            *)
LEMMA PairOfConcat == ASSUME NEW x, NEW y PROVE <<x>> \o <<y>> = <<x, y>>
<1> DEFINE S == {x, y}
           s == <<x>>
           t == <<y>>
           u == <<x, y>>
<1>1. s \in Seq(S) /\ t \in Seq(S) /\ u \in Seq(S)
  OBVIOUS
<1>2. /\ Len(s) = 1 /\ Len(t) = 1 /\ Len(u) = 2
      /\ s[1] = x /\ t[1] = y /\ u[1] = x /\ u[2] = y
  OBVIOUS
<1> HIDE DEF s, t, u
<1>3. /\ s \o t \in Seq(S) /\ Len(s \o t) = 2
      /\ (s \o t)[1] = x /\ (s \o t)[2] = y
  BY <1>1, <1>2, ConcatProperties
<1>4. s \o t = u
  BY <1>1, <1>2, <1>3, SeqEqual
<1> QED
  BY <1>4 DEF s, t, u

(* A step that tells the right addresses, once, keeps the order.           *)
LEMMA OneCall ==
    ASSUME NEW err, NEW addrs, RightlyTold(addrs), r.told = <<>> =>
              r'.told = Append(<<>>, [err |-> err, addrs |-> addrs])
    PROVE  TellsInOrder
<1>1. CASE r.told = <<>>
  <2>1. r'.told = <<[err |-> err, addrs |-> addrs]>>
    BY <1>1
  <2>2. \A what \in {r'.told[i] : i \in DOMAIN r'.told} : what.addrs = addrs
    BY <2>1
  <2>3. QED
    BY <2>2 DEF TellsInOrder, RightlyTold
<1>2. CASE r.told # <<>>
  BY <1>2 DEF TellsInOrder
<1>3. QED
  BY <1>1, <1>2

(* A step that tells nothing keeps the order.                              *)
LEMMA NoCall ==
    ASSUME r'.told = r.told
    PROVE  TellsInOrder
<1>1. \A t : t = <<>> => DOMAIN t = {}
  OBVIOUS
<1>2. QED
  BY <1>1 DEF TellsInOrder

(* The timer tells the one family that had arrived.                        *)
LEMMA SkewTold == Good(r) /\ Skew => TellsInOrder
<1> SUFFICES ASSUME Good(r), Skew PROVE TellsInOrder
  OBVIOUS
<1>1. Typed(r) /\ r.told \in Seq(Told)
  BY DEF Good, Typed
<1>2. PICK w, u : \E err \in Errors :
         /\ AfterCancel(w, [r EXCEPT !.timer = FALSE])
         /\ AfterTell(u, w, err, w.result)
         /\ r' = [u EXCEPT !.cb = FALSE]
  BY SkewTells
<1>3. PICK err \in Errors :
         /\ AfterCancel(w, [r EXCEPT !.timer = FALSE])
         /\ AfterTell(u, w, err, w.result)
         /\ r' = [u EXCEPT !.cb = FALSE]
  BY <1>2
<1>4. /\ w.told = r.told /\ Typed(w) /\ NoneLost(w)
  BY <1>1, <1>3 DEF AfterCancel, Typed, Fields
<1>5. /\ Typed(u) /\ u.answers = w.answers
      /\ u.told = Append(w.told, [err |-> err, addrs |-> w.result])
  BY <1>3 DEF AfterTell, Same
<1>6. r'.told = u.told /\ r'.answers = w.answers
  BY <1>3, <1>5 DEF Typed, Fields
<1>7. op' = "timeout"
  BY DEF Skew
<1>8. RightlyTold(w.result)
  <2>1. CASE w.result = <<>>
    BY <2>1, AddressSets DEF RightlyTold
  <2>2. ASSUME NEW f \in Family, w.result = <<f>> PROVE RightlyTold(w.result)
    <3>1. f \in r'.answers
      BY <1>4, <1>6, <2>2 DEF NoneLost
    <3>2. <<f>> # <<6, 4>>
      OBVIOUS
    <3>3. {w.result[i] : i \in DOMAIN w.result} = {f}
      BY <2>2, AddressSets
    <3>4. QED
      BY <1>7, <2>2, <3>1, <3>2, <3>3 DEF RightlyTold
  <2>3. QED
    BY <1>4, <2>1, <2>2 DEF Typed, Family
<1>9. QED
  BY <1>4, <1>5, <1>6, <1>8, OneCall

(* A callback tells what is pending and what it brings, A before AAAA.     *)
LEMMA CallbackTold == Good(r) /\ Callback => TellsInOrder
<1> SUFFICES ASSUME Good(r), Callback PROVE TellsInOrder
  OBVIOUS
<1> DEFINE c == Head(r.queue)
<1>1. PICK w : Popped(w, r, c) /\ r' = Resolved(w, c.f, c.result)
  BY CallbackResolves
<1>2. /\ r.queue # <<>> /\ c \in [f : Family, result : Answers]
      /\ r.look[c.f] = "queued" /\ r.ptr[c.f]
  BY CallbackResolves, HeadIsOpen
<1>3. c.result = "ok" <=> c.f \in r.answers
  BY CallbackResolves, HeadIsOpen
<1> HIDE DEF c
<1> DEFINE f == c.f
           res == c.result
           g == Other(f)
<1>4. /\ Typed(w) /\ f \in Family /\ res \in Answers
      /\ w.ptr = [r.ptr EXCEPT ![f] = FALSE]
      /\ w.told = r.told /\ w.result = r.result /\ w.answers = r.answers
      /\ w.canceled = r.canceled
  BY <1>1, <1>2 DEF Popped
<1>5. Outcome(w, r', f, res)
  BY <1>1, <1>4, Outcomes
<1> HIDE DEF f, res
<1>6. /\ f \in {4, 6} /\ g \in {4, 6} /\ g # f /\ (f = 4 => g = 6) /\ (f = 6 => g = 4)
  BY <1>4 DEF Other, Family
<1> HIDE DEF g
<1>7. /\ r'.answers = r.answers /\ Typed(r) /\ QueueAgrees(r) /\ NoneLost(r)
      /\ r.ptr \in [Family -> BOOLEAN]
  BY <1>4, <1>5 DEF Good, Outcome, Same, Typed
<1>8. CASE GoesOn(w, r', f, res) \/ Freed(w, r', f, res) \/ Waits(w, r', f, res)
  BY <1>4, <1>8, NoCall DEF GoesOn, Freed, Waits
<1>9. ASSUME NEW addrs \in Seq(Family), Answered(w, r', f, res, addrs)
      PROVE  TellsInOrder
  <2>1. PICK err \in Errors :
           r'.told = Append(r.told, [err |-> err, addrs |-> addrs])
    BY <1>4, <1>9 DEF Answered
  <2>2. /\ ~w.ptr[g]
        /\ \/ addrs = <<>>
           \/ res # "ok" /\ addrs = r.result
           \/ res = "ok" /\ addrs = InOrder(f, r.result)
    BY <1>4, <1>9 DEF Answered, Says, g
  <2>3. r.look[f] = "queued" /\ r.look[g] = "gone"
    BY <1>2, <1>4, <1>6, <1>7, <2>2 DEF QueueAgrees, Family, f
  <2>4. /\ r.result = <<>> \/ (r.result = <<g>> /\ g \in r.answers)
        /\ g \in r.answers /\ ~r.canceled /\ r.told = <<>> => r.result = <<g>>
        /\ r.answers \subseteq {f, g}
        /\ f \in r.answers <=> res = "ok"
    <3>1. <<g>> # <<f>> /\ <<4>> # <<6>>
      BY <1>6
    <3>2. r.result \in {<<>>, <<f>>, <<g>>}
      BY <1>6, <1>7 DEF Typed
    <3>3. r.result # <<f>>
      BY <1>6, <1>7, <2>3 DEF NoneLost, Family
    <3>4. r.result = <<g>> => g \in r.answers
      BY <1>6, <1>7 DEF NoneLost, Family
    <3>5. g \in r.answers /\ ~r.canceled /\ r.told = <<>> => r.result = <<g>>
      BY <1>6, <1>7, <2>3 DEF NoneLost, Family
    <3>6. r.answers \subseteq {f, g}
      BY <1>6, <1>7 DEF Typed, Family
    <3>7. f \in r.answers <=> res = "ok"
      BY <1>3 DEF f, res
    <3>8. QED
      BY <3>2, <3>3, <3>4, <3>5, <3>6, <3>7
  <2>5. CASE r.told = <<>>
    <3>1. CASE addrs = <<>>
      <4>1. RightlyTold(addrs)
        BY <3>1, AddressSets DEF RightlyTold
      <4>2. QED
        BY <2>1, <4>1, OneCall
    <3>2. CASE res # "ok" /\ addrs = <<g>>
      <4>1. g \in r.answers /\ r.answers = {g}
        <5>1. <<g>> # <<>>
          OBVIOUS
        <5>2. QED
          BY <2>2, <2>4, <3>2, <5>1
      <4>2. {addrs[i] : i \in DOMAIN addrs} = {g}
        BY <3>2, AddressSets
      <4>3. RightlyTold(addrs)
        BY <1>7, <3>2, <4>1, <4>2 DEF RightlyTold
      <4>4. QED
        BY <2>1, <2>5, <4>3, OneCall
    <3>3. CASE res = "ok" /\ addrs = <<f>> /\ r.result = <<>>
      <4>1. f \in r.answers /\ (~r.canceled => r.answers = {f})
        <5>1. <<g>> # <<>>
          OBVIOUS
        <5>2. QED
          BY <2>4, <2>5, <3>3, <5>1
      <4>2. {addrs[i] : i \in DOMAIN addrs} = {f}
        BY <3>3, AddressSets
      <4>3. addrs # <<6, 4>>
        BY <3>3
      <4>4. RightlyTold(addrs)
        BY <1>7, <4>1, <4>2, <4>3 DEF RightlyTold
      <4>5. QED
        BY <2>1, <2>5, <4>4, OneCall
    <3>4. CASE res = "ok" /\ addrs = <<4, 6>> /\ r.answers = {4, 6}
      <4>1. {addrs[i] : i \in DOMAIN addrs} = {4, 6}
        BY <3>4, AddressSets
      <4>2. addrs # <<6, 4>>
        BY <3>4
      <4>3. RightlyTold(addrs)
        BY <1>7, <3>4, <4>1, <4>2 DEF RightlyTold
      <4>4. QED
        BY <2>1, <2>5, <4>3, OneCall
    <3>5. QED
      <4>1. InOrder(f, <<>>) = <<f>>
        <5>1. <<f>> \o <<>> = <<f>>
          OBVIOUS
        <5>2. <<>> \o <<f>> = <<f>>
          OBVIOUS
        <5>3. QED
          BY <5>1, <5>2 DEF InOrder
      <4>2. InOrder(f, <<g>>) = <<4, 6>>
        <5>1. <<4>> \o <<6>> = <<4, 6>>
          BY PairOfConcat
        <5>2. CASE f = 4
          BY <1>6, <5>1, <5>2 DEF InOrder
        <5>3. CASE f = 6
          BY <1>6, <5>1, <5>3 DEF InOrder
        <5>4. QED
          BY <1>6, <5>2, <5>3
      <4>3. res = "ok" /\ r.result = <<g>> => r.answers = {4, 6}
        <5>1. <<g>> # <<>>
          OBVIOUS
        <5>2. QED
          BY <1>6, <2>4, <5>1
      <4>4. QED
        BY <2>2, <2>4, <3>1, <3>2, <3>3, <3>4, <4>1, <4>2, <4>3
  <2>6. CASE r.told # <<>>
    BY <2>6 DEF TellsInOrder
  <2>7. QED
    BY <2>5, <2>6
<1>10. QED
  BY <1>5, <1>8, <1>9 DEF Outcome

(* What every operation tells, from a request that satisfies the invariant. *)
LEMMA EveryStepTells == Inv /\ [Next]_vars => [TellsInOrder]_vars
<1> SUFFICES ASSUME Good(r), Next PROVE TellsInOrder
  BY DEF Inv
<1>1. ASSUME NEW f \in {4, 6},
             NEW a \in {"ok", "empty", "missing", "timeout"}, Answer(f, a)
      PROVE  r'.told = r.told
  <2>1. Typed(r)
    BY DEF Good
  <2>2. a \in Answers /\ f \in Family
    BY DEF Answers, Family
  <2>3. Typed(Queued(r, f, a)) /\ Queued(r, f, a).told = r.told
    BY <2>1, <2>2, QueuedEffect
  <2>4. r' = [Queued(r, f, a) EXCEPT
                !.answers = IF a = "ok" THEN @ \cup {f} ELSE @]
    BY <1>1 DEF Answer
  <2>5. QED
    BY <2>3, <2>4 DEF Typed, Fields
<1>2. ASSUME Cancel PROVE r'.told = r.told
  BY <1>2, CancelStep
<1>3. QED
  BY <1>1, <1>2, NoCall, SkewTold, CallbackTold DEF Next

(* The user gets the addresses that had arrived, A before AAAA, and all of *)
(* them when nobody cancelled or lost patience (evdns.c:4392-4475).        *)
THEOREM AddressesAreInOrder == Spec => AddressesInOrder
  BY EveryStepTells, Invariance, PTL DEF Spec, AddressesInOrder

=============================================================================
