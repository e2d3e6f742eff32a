--------------------------- MODULE EvSignalProofs ---------------------------
(***************************************************************************)
(* Proofs about EvSignal for any number of signals and events of one base. *)
(* With several bases the properties do not hold: each takes the handler   *)
(* of the other for the one from before.                                   *)
(***************************************************************************)
EXTENDS EvSignal, TLAPS

OneBase == \E x : Base = {x}

Fields == {"list", "slot", "sh_old", "ev_signal_added", "ev_n_signals_added",
           "life", "pair"}
Handlers == {"original", "evsig_handler"}

(* The types of a base, and of the state that the operators work on.       *)
TypedBase(b) ==
    /\ DOMAIN b = Fields
    /\ b.list \in [Sig -> SUBSET Ev] /\ b.slot \subseteq Sig
    /\ b.sh_old \in [Sig -> Handlers \cup {"none"}]
    /\ b.ev_signal_added \in BOOLEAN /\ b.ev_n_signals_added \in Int
    /\ b.life \in {"used", "freeing", "freed"} /\ b.pair \in [Sig -> Nat]

Typed(v) ==
    /\ DOMAIN v = {"base", "glob", "handler"}
    /\ DOMAIN v.base = Base /\ \A x \in Base : TypedBase(v.base[x])
    /\ DOMAIN v.glob = {"base", "n"}
    /\ v.glob.base \in Base \cup {None} /\ v.glob.n \in Int
    /\ v.handler \in [Sig -> Handlers]

-----------------------------------------------------------------------------
(* The inductive invariant, for the base x with the state b, when g is the *)
(* base that is informed and h the handlers: a signal's handler is         *)
(* libevent's, the one from before is saved and the base is informed       *)
(* exactly while the signal's list has an event, and a signal that is in   *)
(* the pair has a slot.                                                    *)
Listed(b, x) == \A s \in Sig : \A e \in b.list[s] : BaseOf[e] = x /\ SigOf[e] = s
Caught(b, h) ==
    \A s \in Sig : IF b.list[s] # {}
                   THEN h[s] = "evsig_handler" /\ b.sh_old[s] = "original"
                   ELSE h[s] = "original" /\ b.sh_old[s] = "none"
Informed(b, x, g) == \A s \in Sig : b.list[s] # {} => g = x /\ b.ev_signal_added
Slotted(b) == \A s \in Sig : b.list[s] # {} \/ b.pair[s] > 0 => s \in b.slot

Sound(b, x, g, h) == Listed(b, x) /\ Caught(b, h) /\ Informed(b, x, g) /\ Slotted(b)
Good(v) ==
    Typed(v) /\ \A x \in Base : Sound(v.base[x], x, v.glob.base, v.handler)

(* The types of the active queue and of the calls.                         *)
TypedQueue ==
    /\ active \in [Ev -> Nat] /\ called \in [Ev -> Nat]
    /\ running \in [Base -> Ev \cup {None}] /\ left \in [Base -> Nat]

Inv == Good(w) /\ asserted = FALSE /\ TypedQueue /\ CallsAdded

-----------------------------------------------------------------------------
(* What the operators of signal.c do to one base b = v.base[x].            *)

(* All but the number of signals, the base that is informed, the saved     *)
(* handlers and the handlers is as it was.                                 *)
Kept(u, v, x) ==
    /\ Typed(u)
    /\ u.base[x].list = v.base[x].list /\ u.base[x].slot = v.base[x].slot
    /\ u.base[x].life = v.base[x].life /\ u.base[x].pair = v.base[x].pair

(* The handler of s becomes h, and old is what the base has saved for s.   *)
Handled(u, v, x, s, h, old) ==
    /\ Kept(u, v, x)
    /\ u.handler = [v.handler EXCEPT ![s] = h]
    /\ u.base[x].sh_old = [v.base[x].sh_old EXCEPT ![s] = old]

(* The base that is informed, and whether it listens to its pair.          *)
SameInformed(u, v, x) ==
    /\ u.glob = v.glob /\ u.base[x].ev_signal_added = v.base[x].ev_signal_added

LEMMA SetHandlerEffect ==
    ASSUME NEW x, Base = {x}, NEW s \in Sig, NEW v, Typed(v),
           NEW u, u = evsig_set_handler(v, x, s)
    PROVE  /\ Handled(u, v, x, s, "evsig_handler", v.handler[s])
           /\ SameInformed(u, v, x)
<1> DEFINE b == v.base[x]
           old == [b.sh_old EXCEPT ![s] = v.handler[s]]
<1>1. TypedBase(b) /\ x \in Base
  BY DEF Typed
<1>2. /\ u.base = [v.base EXCEPT ![x].sh_old = old]
      /\ u.handler = [v.handler EXCEPT ![s] = "evsig_handler"]
      /\ u.glob = v.glob /\ DOMAIN u = DOMAIN v
  BY DEF evsig_set_handler, Typed
<1>3. u.base[x] = [b EXCEPT !.sh_old = old] /\ DOMAIN u.base = Base
  BY <1>2 DEF Typed
<1>4. old \in [Sig -> Handlers \cup {"none"}] /\ u.handler \in [Sig -> Handlers]
  BY <1>1, <1>2 DEF Typed, TypedBase, Handlers
<1> HIDE DEF b, old
<1>5. /\ DOMAIN u.base[x] = Fields /\ u.base[x].sh_old = old
      /\ u.base[x].list = b.list /\ u.base[x].slot = b.slot
      /\ u.base[x].ev_signal_added = b.ev_signal_added
      /\ u.base[x].ev_n_signals_added = b.ev_n_signals_added
      /\ u.base[x].life = b.life /\ u.base[x].pair = b.pair
  BY <1>1, <1>3 DEF TypedBase, Fields
<1>6. TypedBase(u.base[x])
  BY <1>1, <1>4, <1>5 DEF TypedBase
<1>7. Typed(u)
  BY <1>2, <1>3, <1>4, <1>6 DEF Typed
<1>8. QED
  BY <1>2, <1>5, <1>7 DEF Kept, Handled, SameInformed, b, old

LEMMA RestoreHandlerEffect ==
    ASSUME NEW x, Base = {x}, NEW s \in Sig, NEW v, Typed(v),
           v.base[x].sh_old[s] # "none",
           NEW u, u = evsig_restore_handler(v, x, s)
    PROVE  /\ Handled(u, v, x, s, v.base[x].sh_old[s], "none")
           /\ SameInformed(u, v, x)
<1> DEFINE b == v.base[x]
           old == [b.sh_old EXCEPT ![s] = "none"]
<1>1. TypedBase(b) /\ x \in Base
  BY DEF Typed
<1>2. /\ u.base = [v.base EXCEPT ![x].sh_old = old]
      /\ u.handler = [v.handler EXCEPT ![s] = b.sh_old[s]]
      /\ u.glob = v.glob /\ DOMAIN u = DOMAIN v
  BY DEF evsig_restore_handler, Typed
<1>3. u.base[x] = [b EXCEPT !.sh_old = old] /\ DOMAIN u.base = Base
  BY <1>2 DEF Typed
<1>4. old \in [Sig -> Handlers \cup {"none"}] /\ u.handler \in [Sig -> Handlers]
  BY <1>1, <1>2 DEF Typed, TypedBase, Handlers
<1> HIDE DEF b, old
<1>5. /\ DOMAIN u.base[x] = Fields /\ u.base[x].sh_old = old
      /\ u.base[x].list = b.list /\ u.base[x].slot = b.slot
      /\ u.base[x].ev_signal_added = b.ev_signal_added
      /\ u.base[x].ev_n_signals_added = b.ev_n_signals_added
      /\ u.base[x].life = b.life /\ u.base[x].pair = b.pair
  BY <1>1, <1>3 DEF TypedBase, Fields
<1>6. TypedBase(u.base[x])
  BY <1>1, <1>4, <1>5 DEF TypedBase
<1>7. Typed(u)
  BY <1>2, <1>3, <1>4, <1>6 DEF Typed
<1>8. QED
  BY <1>2, <1>5, <1>7 DEF Kept, Handled, SameInformed, b, old

(* The base is informed and listens to its pair.                           *)
Listens(u, x) == u.glob.base = x /\ u.base[x].ev_signal_added = TRUE

LEMMA AddBackendEffect ==
    ASSUME NEW x, Base = {x}, NEW s \in Sig, NEW v, Typed(v),
           NEW u, u = evsig_add(v, x, s)
    PROVE  /\ Handled(u, v, x, s, "evsig_handler", v.handler[s])
           /\ Listens(u, x)
<1> DEFINE b == v.base[x]
           n == b.ev_n_signals_added + 1
           c == [b EXCEPT !.ev_n_signals_added = n]
           v1 == [v EXCEPT !.base[x].ev_n_signals_added = n,
                           !.glob = [base |-> x, n |-> n]]
           v2 == evsig_set_handler(v1, x, s)
           d == [v2.base[x] EXCEPT !.ev_signal_added = TRUE]
<1>1. TypedBase(b) /\ x \in Base
  BY DEF Typed
<1>2. u = [v2 EXCEPT !.base[x].ev_signal_added = TRUE]
  BY DEF evsig_add
<1>3. /\ v1.base = [v.base EXCEPT ![x] = c] /\ DOMAIN v1 = DOMAIN v
      /\ v1.handler = v.handler /\ v1.glob = [base |-> x, n |-> n]
  BY DEF Typed
<1>4. n \in Int
  BY <1>1 DEF TypedBase
<1> HIDE DEF v1, v2, n, b
<1>5. /\ DOMAIN c = Fields /\ c.ev_n_signals_added = n
      /\ c.list = b.list /\ c.slot = b.slot /\ c.sh_old = b.sh_old
      /\ c.ev_signal_added = b.ev_signal_added
      /\ c.life = b.life /\ c.pair = b.pair
  BY <1>1 DEF TypedBase, Fields
<1> HIDE DEF c
<1>6. TypedBase(c)
  BY <1>1, <1>4, <1>5 DEF TypedBase
<1>7. Typed(v1) /\ v1.base[x] = c
  <2>1. /\ DOMAIN v1.glob = {"base", "n"} /\ v1.glob.base = x /\ v1.glob.n = n
    BY <1>3
  <2>2. v1.handler \in [Sig -> Handlers]
    BY <1>3 DEF Typed
  <2>3. DOMAIN v1.base = Base /\ v1.base[x] = c
    BY <1>1, <1>3 DEF Typed
  <2>4. QED
    BY <1>1, <1>3, <1>4, <1>6, <2>1, <2>2, <2>3 DEF Typed
<1>8. /\ Kept(v2, v1, x) /\ v2.glob = v1.glob
      /\ v2.handler = [v1.handler EXCEPT ![s] = "evsig_handler"]
      /\ v2.base[x].sh_old = [c.sh_old EXCEPT ![s] = v.handler[s]]
  <2>1. /\ Handled(v2, v1, x, s, "evsig_handler", v1.handler[s])
        /\ SameInformed(v2, v1, x)
    BY <1>7, SetHandlerEffect DEF v2
  <2>2. QED
    BY <1>3, <1>7, <2>1 DEF Handled, SameInformed
<1>9. Typed(v2) /\ TypedBase(v2.base[x])
  BY <1>1, <1>8 DEF Kept, Typed
<1>10. /\ u.base = [v2.base EXCEPT ![x] = d] /\ DOMAIN u = DOMAIN v2
       /\ u.handler = v2.handler /\ u.glob = v2.glob
  BY <1>2, <1>9 DEF Typed
<1>11. /\ DOMAIN d = Fields /\ d.ev_signal_added = TRUE
       /\ d.list = v2.base[x].list /\ d.slot = v2.base[x].slot
       /\ d.sh_old = v2.base[x].sh_old
       /\ d.ev_n_signals_added = v2.base[x].ev_n_signals_added
       /\ d.life = v2.base[x].life /\ d.pair = v2.base[x].pair
  BY <1>9 DEF TypedBase, Fields
<1> HIDE DEF d
<1>12. TypedBase(d)
  BY <1>9, <1>11 DEF TypedBase
<1>13. Typed(u) /\ u.base[x] = d
  <2>1. /\ DOMAIN u.glob = {"base", "n"} /\ u.glob.base \in Base \cup {None}
        /\ u.glob.n \in Int /\ u.handler \in [Sig -> Handlers]
    BY <1>9, <1>10 DEF Typed
  <2>2. DOMAIN u.base = Base /\ u.base[x] = d
    BY <1>1, <1>9, <1>10 DEF Typed
  <2>3. QED
    BY <1>9, <1>10, <1>12, <2>1, <2>2 DEF Typed
<1>14. u.glob.base = x
  BY <1>3, <1>8, <1>10
<1>15. QED
  BY <1>3, <1>5, <1>7, <1>8, <1>10, <1>11, <1>13, <1>14 DEF Kept, Handled,
     Listens, b

LEMMA DelBackendEffect ==
    ASSUME NEW x, Base = {x}, NEW s \in Sig, NEW v, Typed(v),
           v.base[x].sh_old[s] # "none", NEW u, u = evsig_del(v, x, s)
    PROVE  /\ Handled(u, v, x, s, v.base[x].sh_old[s], "none")
           /\ u.glob.base = v.glob.base
           /\ u.base[x].ev_signal_added = v.base[x].ev_signal_added
<1> DEFINE b == v.base[x]
           n == b.ev_n_signals_added - 1
           c == [b EXCEPT !.ev_n_signals_added = n]
           v1 == [v EXCEPT !.base[x].ev_n_signals_added = @ - 1, !.glob.n = @ - 1]
<1>1. TypedBase(b) /\ x \in Base
  BY DEF Typed
<1>2. u = evsig_restore_handler(v1, x, s)
  BY DEF evsig_del
<1>3. /\ v1.base = [v.base EXCEPT ![x] = c] /\ DOMAIN v1 = DOMAIN v
      /\ v1.handler = v.handler /\ v1.glob = [v.glob EXCEPT !.n = @ - 1]
  BY DEF Typed
<1>4. n \in Int
  BY <1>1 DEF TypedBase
<1> HIDE DEF v1, n, b
<1>5. /\ DOMAIN c = Fields /\ c.ev_n_signals_added = n
      /\ c.list = b.list /\ c.slot = b.slot /\ c.sh_old = b.sh_old
      /\ c.ev_signal_added = b.ev_signal_added
      /\ c.life = b.life /\ c.pair = b.pair
  BY <1>1 DEF TypedBase, Fields
<1> HIDE DEF c
<1>6. TypedBase(c)
  BY <1>1, <1>4, <1>5 DEF TypedBase
<1>7. Typed(v1) /\ v1.base[x] = c /\ v1.glob.base = v.glob.base
  <2>1. /\ DOMAIN v1.glob = {"base", "n"} /\ v1.glob.base = v.glob.base
        /\ v1.glob.n = v.glob.n - 1
    BY <1>3 DEF Typed
  <2>2. /\ v1.handler \in [Sig -> Handlers] /\ v.glob.n \in Int
        /\ v.glob.base \in Base \cup {None}
    BY <1>3 DEF Typed
  <2>3. DOMAIN v1.base = Base /\ v1.base[x] = c
    BY <1>1, <1>3 DEF Typed
  <2>4. v.glob.n - 1 \in Int
    BY <2>2
  <2>5. QED
    BY <1>1, <1>3, <1>6, <2>1, <2>2, <2>3, <2>4 DEF Typed
<1>8. v1.base[x].sh_old[s] # "none"
  BY <1>5, <1>7 DEF b
<1>9. /\ Kept(u, v1, x) /\ u.glob = v1.glob
      /\ u.base[x].ev_signal_added = c.ev_signal_added
      /\ u.handler = [v.handler EXCEPT ![s] = c.sh_old[s]]
      /\ u.base[x].sh_old = [c.sh_old EXCEPT ![s] = "none"]
  <2>1. /\ Handled(u, v1, x, s, v1.base[x].sh_old[s], "none")
        /\ SameInformed(u, v1, x)
    BY <1>2, <1>7, <1>8, RestoreHandlerEffect
  <2>2. QED
    BY <1>3, <1>7, <2>1 DEF Handled, SameInformed
<1>10. QED
  BY <1>5, <1>7, <1>9 DEF Kept, Handled, b

-----------------------------------------------------------------------------
(* The lists of evmap.c keep the invariant.                                *)

(* All of the base but its slots and the list of s is as in v.             *)
Relisted(u, v, x, s, slots, events) ==
    /\ Typed(u) /\ u.glob = v.glob /\ u.handler = v.handler
    /\ u.base[x].slot = slots
    /\ u.base[x].list = [v.base[x].list EXCEPT ![s] = events]
    /\ u.base[x].sh_old = v.base[x].sh_old /\ u.base[x].pair = v.base[x].pair
    /\ u.base[x].ev_signal_added = v.base[x].ev_signal_added
    /\ u.base[x].life = v.base[x].life

LEMMA RelistedEffect ==
    ASSUME NEW x, Base = {x}, NEW s \in Sig, NEW v, Typed(v),
           NEW slots \in SUBSET Sig, NEW events \in SUBSET Ev,
           NEW u, \/ u = [v EXCEPT !.base[x].slot = slots,
                                    !.base[x].list[s] = events]
                  \/ /\ u = [v EXCEPT !.base[x].list[s] = events]
                     /\ slots = v.base[x].slot
    PROVE  Relisted(u, v, x, s, slots, events)
<1> DEFINE b == v.base[x]
           new == [b.list EXCEPT ![s] = events]
           c == u.base[x]
<1>1. TypedBase(b) /\ x \in Base
  BY DEF Typed
<1>2. /\ DOMAIN u.base = Base
      /\ u.handler = v.handler /\ u.glob = v.glob /\ DOMAIN u = DOMAIN v
      /\ \/ c = [b EXCEPT !.slot = slots, !.list = new]
         \/ c = [b EXCEPT !.list = new] /\ slots = b.slot
  <2>1. CASE u = [v EXCEPT !.base[x].slot = slots, !.base[x].list[s] = events]
    BY <1>1, <2>1 DEF Typed, TypedBase, Fields
  <2>2. CASE u = [v EXCEPT !.base[x].list[s] = events] /\ slots = b.slot
    BY <1>1, <2>2 DEF Typed, TypedBase, Fields
  <2>3. QED
    BY <2>1, <2>2
<1>3. new \in [Sig -> SUBSET Ev]
  BY <1>1 DEF TypedBase
<1> HIDE DEF b, new, c
<1>4. /\ DOMAIN c = Fields /\ c.list = new /\ c.slot = slots
      /\ c.ev_signal_added = b.ev_signal_added /\ c.sh_old = b.sh_old
      /\ c.ev_n_signals_added = b.ev_n_signals_added
      /\ c.life = b.life /\ c.pair = b.pair
  BY <1>1, <1>2 DEF TypedBase, Fields
<1>5. TypedBase(c)
  BY <1>1, <1>3, <1>4 DEF TypedBase
<1>6. Typed(u)
  BY <1>2, <1>5 DEF Typed, c
<1>7. QED
  BY <1>2, <1>4, <1>6 DEF Relisted, b, c, new

(* The base b lists the event e for its signal.                            *)
Within(b, e) == e \in b.list[SigOf[e]]

(* An event is added.                                                      *)
LEMMA SignalAdded ==
    ASSUME EvAssumption, NEW x, Base = {x}, NEW v, Good(v), NEW e \in Ev,
           NEW u, u = evmap_signal_add(v, e)
    PROVE  /\ Good(u) /\ u.base[x].pair = v.base[x].pair
           /\ \A d \in Ev : Within(v.base[x], d) => Within(u.base[x], d)
<1> DEFINE s == SigOf[e]
           m == IF v.base[x].list[s] = {} THEN evsig_add(v, x, s) ELSE v
<1>1. BaseOf[e] = x /\ s \in Sig /\ x \in Base
  BY DEF EvAssumption
<1>2. u = [m EXCEPT !.base[x].slot = @ \cup {s}, !.base[x].list[s] = @ \cup {e}]
  BY <1>1 DEF evmap_signal_add
<1> HIDE DEF s
<1>3. /\ Kept(m, v, x) /\ m.glob.base = x /\ m.base[x].ev_signal_added = TRUE
      /\ m.handler = [v.handler EXCEPT ![s] = "evsig_handler"]
      /\ m.base[x].sh_old = [v.base[x].sh_old EXCEPT ![s] = "original"]
  <2>1. /\ v.handler \in [Sig -> Handlers] /\ v.base[x].ev_signal_added \in BOOLEAN
        /\ v.base[x].sh_old \in [Sig -> Handlers \cup {"none"}]
    BY <1>1 DEF Good, Typed, TypedBase
  <2>2. CASE v.base[x].list[s] = {}
    <3> DEFINE a == evsig_add(v, x, s)
    <3>1. Handled(a, v, x, s, "evsig_handler", v.handler[s]) /\ Listens(a, x)
      BY <1>1, AddBackendEffect DEF Good
    <3>2. m = a
      BY <2>2
    <3>3. v.handler[s] = "original"
      BY <1>1, <2>2 DEF Good, Sound, Caught
    <3>4. QED
      BY <3>1, <3>2, <3>3 DEF Handled, Listens
  <2>3. CASE v.base[x].list[s] # {}
    <3>1. m = v
      BY <2>3
    <3>2. v.handler[s] = "evsig_handler" /\ v.base[x].sh_old[s] = "original"
      BY <1>1, <2>3 DEF Good, Sound, Caught
    <3>3. v.glob.base = x /\ v.base[x].ev_signal_added
      BY <1>1, <2>3 DEF Good, Sound, Informed
    <3>4. [v.handler EXCEPT ![s] = "evsig_handler"] = v.handler
      BY <1>1, <2>1, <3>2
    <3>5. [v.base[x].sh_old EXCEPT ![s] = "original"] = v.base[x].sh_old
      BY <1>1, <2>1, <3>2
    <3>6. Kept(m, v, x)
      BY <3>1 DEF Good, Kept
    <3>7. v.base[x].ev_signal_added = TRUE
      BY <2>1, <3>3
    <3>8. QED
      BY <3>1, <3>3, <3>4, <3>5, <3>6, <3>7
  <2>4. QED
    BY <2>2, <2>3
<1> HIDE DEF m
<1>4. Typed(m) /\ TypedBase(m.base[x])
  BY <1>1, <1>3 DEF Kept, Typed
<1>5. Relisted(u, m, x, s, m.base[x].slot \cup {s}, m.base[x].list[s] \cup {e})
  <2>1. /\ m.base[x].slot \cup {s} \in SUBSET Sig
        /\ m.base[x].list[s] \cup {e} \in SUBSET Ev
    BY <1>1, <1>4 DEF TypedBase
  <2>2. u = [m EXCEPT !.base[x].slot = m.base[x].slot \cup {s},
                      !.base[x].list[s] = m.base[x].list[s] \cup {e}]
    BY <1>1, <1>2, <1>4 DEF Typed, TypedBase, Fields
  <2>3. QED
    BY <1>1, <1>4, <2>1, <2>2, RelistedEffect
<1> DEFINE b == v.base[x]
           c == u.base[x]
<1>6. /\ c.list = [b.list EXCEPT ![s] = b.list[s] \cup {e}]
      /\ c.slot = b.slot \cup {s} /\ c.pair = b.pair
      /\ c.ev_signal_added = TRUE /\ u.glob.base = x
      /\ u.handler = [v.handler EXCEPT ![s] = "evsig_handler"]
      /\ c.sh_old = [b.sh_old EXCEPT ![s] = "original"]
  BY <1>3, <1>5 DEF Relisted, Kept
<1>7. /\ b.list \in [Sig -> SUBSET Ev] /\ v.handler \in [Sig -> Handlers]
      /\ b.sh_old \in [Sig -> Handlers \cup {"none"}]
  BY <1>1 DEF Good, Typed, TypedBase
<1> HIDE DEF b, c
<1>8. \A t \in Sig : /\ t # s => /\ c.list[t] = b.list[t]
                                 /\ u.handler[t] = v.handler[t]
                                 /\ c.sh_old[t] = b.sh_old[t]
                     /\ t = s => /\ c.list[t] = b.list[s] \cup {e}
                                 /\ u.handler[t] = "evsig_handler"
                                 /\ c.sh_old[t] = "original"
  BY <1>1, <1>6, <1>7
<1>9. Sound(b, x, v.glob.base, v.handler)
  BY <1>1 DEF Good, b
<1>10. Listed(c, x) /\ Caught(c, u.handler)
  BY <1>1, <1>8, <1>9 DEF Sound, Listed, Caught, s
<1>11. Informed(c, x, u.glob.base)
  BY <1>6 DEF Informed
<1>12. Slotted(c)
  BY <1>6, <1>8, <1>9 DEF Sound, Slotted
<1>13. \A d \in Ev : Within(b, d) => Within(c, d)
  BY <1>8 DEF Within, EvAssumption
<1>14. QED
  BY <1>5, <1>6, <1>10, <1>11, <1>12, <1>13 DEF Good, Sound, Relisted, b, c

(* An event that is listed is deleted.                                     *)
LEMMA SignalDeleted ==
    ASSUME EvAssumption, NEW x, Base = {x}, NEW v, Good(v), NEW e \in Ev,
           e \in v.base[x].list[SigOf[e]], NEW u, u = evmap_signal_del(v, e)
    PROVE  /\ Good(u) /\ u.base[x].pair = v.base[x].pair
           /\ \A d \in Ev : Within(v.base[x], d) /\ d # e => Within(u.base[x], d)
           /\ ~Within(u.base[x], e)
<1> DEFINE s == SigOf[e]
           last == v.base[x].list[s] = {e}
           m == IF v.base[x].list[s] = {e} THEN evsig_del(v, x, s) ELSE v
<1>1. BaseOf[e] = x /\ s \in Sig /\ x \in Base
  BY DEF EvAssumption
<1>2. u = [m EXCEPT !.base[x].list[s] = @ \ {e}]
  BY <1>1 DEF evmap_signal_del
<1>3. v.base[x].sh_old[s] = "original" /\ v.handler[s] = "evsig_handler"
  BY <1>1 DEF Good, Sound, Caught
<1> HIDE DEF s
<1>4. /\ Kept(m, v, x) /\ m.glob.base = v.glob.base
      /\ m.base[x].ev_signal_added = v.base[x].ev_signal_added
      /\ last => /\ m.handler = [v.handler EXCEPT ![s] = "original"]
                 /\ m.base[x].sh_old = [v.base[x].sh_old EXCEPT ![s] = "none"]
      /\ ~last => m.handler = v.handler /\ m.base[x].sh_old = v.base[x].sh_old
  <2>1. CASE last
    <3>1. /\ Handled(m, v, x, s, v.base[x].sh_old[s], "none")
          /\ m.glob.base = v.glob.base
          /\ m.base[x].ev_signal_added = v.base[x].ev_signal_added
      BY <1>1, <1>3, <2>1, DelBackendEffect DEF Good
    <3>2. QED
      BY <1>3, <2>1, <3>1 DEF Handled
  <2>2. CASE ~last
    BY <2>2 DEF Good, Kept
  <2>3. QED
    BY <2>1, <2>2
<1> HIDE DEF m, last
<1>5. Typed(m) /\ TypedBase(m.base[x])
  BY <1>1, <1>4 DEF Kept, Typed
<1>6. Relisted(u, m, x, s, m.base[x].slot, m.base[x].list[s] \ {e})
  <2>1. /\ m.base[x].slot \in SUBSET Sig /\ m.base[x].list[s] \ {e} \in SUBSET Ev
    BY <1>1, <1>5 DEF TypedBase
  <2>2. u = [m EXCEPT !.base[x].list[s] = m.base[x].list[s] \ {e}]
    BY <1>1, <1>2, <1>5 DEF Typed, TypedBase, Fields
  <2>3. QED
    BY <1>1, <1>5, <2>1, <2>2, RelistedEffect
<1> DEFINE b == v.base[x]
           c == u.base[x]
<1>7. /\ c.list = [b.list EXCEPT ![s] = b.list[s] \ {e}]
      /\ c.slot = b.slot /\ c.pair = b.pair
      /\ c.ev_signal_added = b.ev_signal_added /\ u.glob.base = v.glob.base
      /\ last => /\ u.handler = [v.handler EXCEPT ![s] = "original"]
                 /\ c.sh_old = [b.sh_old EXCEPT ![s] = "none"]
      /\ ~last => u.handler = v.handler /\ c.sh_old = b.sh_old
  BY <1>4, <1>6 DEF Relisted, Kept
<1>8. /\ b.list \in [Sig -> SUBSET Ev] /\ v.handler \in [Sig -> Handlers]
      /\ b.sh_old \in [Sig -> Handlers \cup {"none"}]
  BY <1>1 DEF Good, Typed, TypedBase
<1> HIDE DEF b, c
<1>9. \A t \in Sig :
         /\ t # s => /\ c.list[t] = b.list[t] /\ u.handler[t] = v.handler[t]
                     /\ c.sh_old[t] = b.sh_old[t]
         /\ t = s => c.list[t] = b.list[s] \ {e}
         /\ t = s /\ last => u.handler[t] = "original" /\ c.sh_old[t] = "none"
         /\ t = s /\ ~last => u.handler[t] = v.handler[t] /\ c.sh_old[t] = b.sh_old[t]
  BY <1>1, <1>7, <1>8
<1>10. b.list[s] \ {e} = {} <=> last
  BY DEF b, s, last
<1>11. Sound(b, x, v.glob.base, v.handler)
  BY <1>1 DEF Good, b
<1>12. Listed(c, x)
  BY <1>9, <1>11 DEF Sound, Listed
<1>13. Caught(c, u.handler)
  BY <1>9, <1>10, <1>11 DEF Sound, Caught
<1>14. Informed(c, x, u.glob.base)
  BY <1>7, <1>9, <1>11 DEF Sound, Informed
<1>15. Slotted(c)
  BY <1>7, <1>9, <1>11 DEF Sound, Slotted
<1>16. (\A d \in Ev : Within(b, d) /\ d # e => Within(c, d)) /\ ~Within(c, e)
  BY <1>1, <1>9 DEF Within, EvAssumption, s
<1>17. QED
  BY <1>6, <1>7, <1>12, <1>13, <1>14, <1>15, <1>16
     DEF Good, Sound, Relisted, b, c

-----------------------------------------------------------------------------
(* The steps keep the invariant.                                           *)

(* The invariant in terms of the one base, who is informed and handlers.   *)
Parts(bs, g, h, x) ==
    /\ DOMAIN bs = Base /\ TypedBase(bs[x])
    /\ DOMAIN g = {"base", "n"} /\ g.base \in {x, None} /\ g.n \in Int
    /\ h \in [Sig -> Handlers] /\ Sound(bs[x], x, g.base, h)

LEMMA GoodIsParts ==
    ASSUME NEW x, Base = {x}, NEW v, DOMAIN v = {"base", "glob", "handler"}
    PROVE  Good(v) <=> Parts(v.base, v.glob, v.handler, x)
  BY DEF Good, Typed, Parts

LEMMA InvIsParts ==
    ASSUME NEW x, Base = {x}
    PROVE  /\ Good(w) <=> Parts(base, glob, handler, x)
           /\ Good(w)' <=> Parts(base', glob', handler', x)
<1>1. /\ DOMAIN w = {"base", "glob", "handler"}
      /\ w.base = base /\ w.glob = glob /\ w.handler = handler
  BY DEF w
<1>2. /\ DOMAIN w' = {"base", "glob", "handler"}
      /\ w'.base = base' /\ w'.glob = glob' /\ w'.handler = handler'
  BY DEF w
<1>3. Good(w) <=> Parts(base, glob, handler, x)
  BY <1>1, GoodIsParts
<1> DEFINE z == w'
<1>4. Good(z) <=> Parts(base', glob', handler', x)
  <2> HIDE DEF z
  <2>1. /\ DOMAIN z = {"base", "glob", "handler"}
        /\ z.base = base' /\ z.glob = glob' /\ z.handler = handler'
    BY <1>2 DEF z
  <2>2. QED
    BY <2>1, GoodIsParts
<1>5. QED
  BY <1>3, <1>4

LEMMA BecomeGood ==
    ASSUME NEW x, Base = {x}, NEW v, Good(v), Become(v)
    PROVE  Good(w)'
<1>1. DOMAIN v = {"base", "glob", "handler"}
  BY DEF Good, Typed
<1>2. Parts(v.base, v.glob, v.handler, x)
  BY <1>1, GoodIsParts
<1>3. Parts(base', glob', handler', x)
  BY <1>2 DEF Become
<1>4. QED
  BY <1>3, InvIsParts

(* What a step finds.                                                      *)
LEMMA WhatHolds ==
    ASSUME NEW x, Base = {x}, Inv
    PROVE  /\ Parts(base, glob, handler, x) /\ x \in Base
           /\ DOMAIN w = {"base", "glob", "handler"}
           /\ w.base = base /\ w.glob = glob /\ w.handler = handler
  BY InvIsParts DEF Inv, w

(* c has the lists, slots and saved handlers of b, and in its pair are     *)
(* only signals that have a slot.                                          *)
OtherPair(c, b) ==
    /\ DOMAIN c = Fields /\ c.list = b.list /\ c.slot = b.slot
    /\ c.sh_old = b.sh_old /\ c.ev_signal_added = b.ev_signal_added
    /\ c.ev_n_signals_added = b.ev_n_signals_added
    /\ c.life \in {"used", "freeing", "freed"} /\ c.pair \in [Sig -> Nat]
    /\ \A s \in Sig : c.pair[s] > 0 => s \in c.slot

LEMMA OtherPairSound ==
    ASSUME NEW x, Base = {x}, NEW bs, NEW g, NEW h, Parts(bs, g, h, x),
           NEW cs, DOMAIN cs = Base, OtherPair(cs[x], bs[x])
    PROVE  Parts(cs, g, h, x)
<1> DEFINE b == bs[x]
           c == cs[x]
<1> HIDE DEF b, c
<1>0. OtherPair(c, b)
  BY DEF b, c
<1>1. TypedBase(b) /\ Sound(b, x, g.base, h)
  BY DEF Parts, b
<1>2. TypedBase(c)
  BY <1>0, <1>1 DEF OtherPair, TypedBase
<1>3. Listed(c, x) /\ Caught(c, h) /\ Informed(c, x, g.base)
  BY <1>0, <1>1 DEF OtherPair, Sound, Listed, Caught, Informed
<1>4. Slotted(c)
  BY <1>0, <1>1 DEF OtherPair, Sound, Slotted
<1>5. QED
  BY <1>2, <1>3, <1>4 DEF Parts, Sound, c

LEMMA FreeKeeps ==
    ASSUME NEW x, Base = {x}, Inv, Free(x)
    PROVE  /\ Good(w)' /\ base'[x].pair = base[x].pair
           /\ base'[x].list = base[x].list
<1> DEFINE b == base[x]
           c == base'[x]
<1>1. /\ Parts(base, glob, handler, x) /\ x \in Base
      /\ DOMAIN w = {"base", "glob", "handler"}
      /\ w.base = base /\ w.glob = glob /\ w.handler = handler
  BY WhatHolds
<1>2. /\ base' = [base EXCEPT ![x].life = "freeing"]
      /\ glob' = glob /\ handler' = handler
  BY <1>1 DEF Free, Become
<1>3. DOMAIN base' = Base /\ c = [b EXCEPT !.life = "freeing"] /\ TypedBase(b)
  BY <1>1, <1>2 DEF Parts
<1> HIDE DEF b, c
<1>4. /\ DOMAIN c = Fields /\ c.list = b.list /\ c.slot = b.slot
      /\ c.ev_signal_added = b.ev_signal_added /\ c.sh_old = b.sh_old
      /\ c.ev_n_signals_added = b.ev_n_signals_added
      /\ c.life = "freeing" /\ c.pair = b.pair /\ b.pair \in [Sig -> Nat]
  BY <1>3 DEF TypedBase, Fields
<1>5. \A s \in Sig : b.pair[s] > 0 => s \in b.slot
  BY <1>1 DEF Parts, Sound, Slotted, b
<1>6. OtherPair(c, b)
  BY <1>4, <1>5 DEF OtherPair
<1>7. Parts(base', glob, handler, x)
  BY <1>1, <1>3, <1>6, OtherPairSound DEF b, c
<1>8. QED
  BY <1>2, <1>4, <1>7, InvIsParts DEF b, c

LEMMA FreeBackendKeeps ==
    ASSUME EvAssumption, NEW x, Base = {x}, Inv, FreeBackend(x)
    PROVE  Good(w)' /\ base'[x].list = base[x].list
<1> DEFINE b == base[x]
           c == base'[x]
<1>1. /\ Parts(base, glob, handler, x) /\ x \in Base
      /\ DOMAIN w = {"base", "glob", "handler"}
      /\ w.base = base /\ w.glob = glob /\ w.handler = handler
  BY WhatHolds
<1>2. TypedBase(b) /\ Sound(b, x, glob.base, handler) /\ DOMAIN base = Base
  BY <1>1 DEF Parts, b
<1>3. \A s \in Sig : b.list[s] = {}
  <2>1. ASSUME NEW s \in Sig, NEW e \in b.list[s]
        PROVE  FALSE
    <3>1. e \in Ev /\ BaseOf[e] = x /\ SigOf[e] = s
      BY <1>2 DEF TypedBase, Sound, Listed
    <3>2. QED
      BY <2>1, <3>1 DEF FreeBackend, Added
  <2>2. QED
    BY <2>1
<1>4. \A s \in Sig : b.sh_old[s] = "none" /\ handler[s] = "original"
  BY <1>2, <1>3 DEF Sound, Caught
<1> DEFINE u == evsig_dealloc(w, x)
<1>5. /\ base' = [u.base EXCEPT ![x].slot = {}]
      /\ glob' = u.glob /\ handler' = u.handler
  <2>1. DOMAIN u = {"base", "glob", "handler"}
    BY <1>1 DEF evsig_dealloc
  <2> HIDE DEF u
  <2>2. QED
    BY <2>1 DEF FreeBackend, Become, u
<1>6. /\ u.base = [base EXCEPT ![x].sh_old = [s \in Sig |-> "none"],
                                ![x].ev_signal_added = FALSE, ![x].life = "freed",
                                ![x].pair = [s \in Sig |-> 0]]
      /\ u.handler = [s \in Sig |-> IF b.sh_old[s] # "none"
                                     THEN b.sh_old[s] ELSE handler[s]]
      /\ u.glob = glob \/ u.glob = [base |-> None, n |-> 0]
  BY <1>1, <1>2 DEF evsig_dealloc
<1> HIDE DEF u
<1>7. /\ DOMAIN base' = Base
      /\ c = [b EXCEPT !.sh_old = [s \in Sig |-> "none"],
                       !.ev_signal_added = FALSE, !.life = "freed",
                       !.pair = [s \in Sig |-> 0], !.slot = {}]
  BY <1>1, <1>2, <1>5, <1>6
<1> HIDE DEF b, c
<1>8. /\ DOMAIN c = Fields /\ c.list = b.list /\ c.slot = {}
      /\ c.ev_signal_added = FALSE /\ c.sh_old = [s \in Sig |-> "none"]
      /\ c.ev_n_signals_added = b.ev_n_signals_added
      /\ c.life = "freed" /\ c.pair = [s \in Sig |-> 0]
  BY <1>2, <1>7 DEF TypedBase, Fields
<1>9. TypedBase(c)
  <2>1. /\ c.sh_old \in [Sig -> Handlers \cup {"none"}] /\ c.pair \in [Sig -> Nat]
        /\ c.slot \subseteq Sig
    BY <1>8
  <2>2. QED
    BY <1>2, <1>8, <2>1 DEF TypedBase
<1>10. handler' \in [Sig -> Handlers] /\ \A s \in Sig : handler'[s] = "original"
  BY <1>4, <1>5, <1>6 DEF Handlers
<1>11. Listed(c, x) /\ Caught(c, handler') /\ Informed(c, x, glob'.base) /\ Slotted(c)
  BY <1>3, <1>8, <1>10 DEF Listed, Caught, Informed, Slotted
<1>12. DOMAIN glob' = {"base", "n"} /\ glob'.base \in {x, None} /\ glob'.n \in Int
  BY <1>1, <1>5, <1>6 DEF Parts
<1>13. Parts(base', glob', handler', x)
  BY <1>7, <1>9, <1>10, <1>11, <1>12 DEF Parts, Sound, c
<1>14. QED
  BY <1>8, <1>13, InvIsParts DEF b, c

LEMMA LoopKeeps ==
    ASSUME NEW x, Base = {x}, Inv, Loop(x)
    PROVE  Good(w)' /\ base' = base
<1>1. /\ Parts(base, glob, handler, x) /\ x \in Base
      /\ DOMAIN w = {"base", "glob", "handler"}
      /\ w.base = base /\ w.glob = glob /\ w.handler = handler
  BY WhatHolds
<1>2. /\ base' = base /\ handler' = handler
      /\ glob' = [base |-> x, n |-> base[x].ev_n_signals_added]
  BY <1>1 DEF Loop, Become, evsig_set_base
<1>3. /\ DOMAIN glob' = {"base", "n"} /\ glob'.base = x
      /\ glob'.n \in Int
  BY <1>1, <1>2 DEF Parts, TypedBase
<1>4. Sound(base[x], x, x, handler)
  BY <1>1 DEF Parts, Sound, Informed
<1>5. Parts(base', glob', handler', x)
  BY <1>1, <1>2, <1>3, <1>4 DEF Parts
<1>6. QED
  BY <1>2, <1>5, InvIsParts

(* What the handler puts into the pair has a slot, and nothing is taken.   *)
LEMMA RaiseKeeps ==
    ASSUME NEW x, Base = {x}, Inv, NEW s \in Sig, Raise(s)
    PROVE  /\ Good(w)' /\ \A e \in Sig : base'[x].pair[e] >= base[x].pair[e]
           /\ base'[x].list = base[x].list
<1> DEFINE b == base[x]
           c == base'[x]
<1>1. Parts(base, glob, handler, x) /\ x \in Base
  BY WhatHolds
<1>2. /\ TypedBase(b) /\ Sound(b, x, glob.base, handler) /\ DOMAIN base = Base
      /\ glob.base \in {x, None} /\ glob' = glob /\ handler' = handler
  BY <1>1 DEF Parts, Raise
<1>3. CASE base' = base
  <2>1. \A e \in Sig : b.pair[e] \in Nat
    BY <1>2 DEF TypedBase
  <2>2. QED
    BY <1>1, <1>2, <1>3, <2>1, InvIsParts
<1>4. CASE handler[s] = "evsig_handler" /\ base' = [base EXCEPT ![x].pair[s] = @ + 1]
  <2> DEFINE more == [b.pair EXCEPT ![s] = b.pair[s] + 1]
  <2>1. DOMAIN base' = Base /\ c = [b EXCEPT !.pair = more]
    BY <1>1, <1>2, <1>4
  <2>2. /\ more \in [Sig -> Nat] /\ \A e \in Sig : more[e] >= b.pair[e]
        /\ \A e \in Sig : e # s => more[e] = b.pair[e]
    BY <1>2 DEF TypedBase
  <2>3. s \in b.slot /\ \A e \in Sig : b.pair[e] > 0 => e \in b.slot
    BY <1>2, <1>4 DEF Sound, Caught, Slotted
  <2> HIDE DEF more, b, c
  <2>4. /\ DOMAIN c = Fields /\ c.list = b.list /\ c.slot = b.slot
        /\ c.sh_old = b.sh_old /\ c.ev_signal_added = b.ev_signal_added
        /\ c.ev_n_signals_added = b.ev_n_signals_added
        /\ c.life = b.life /\ c.pair = more
        /\ b.life \in {"used", "freeing", "freed"}
    BY <1>2, <2>1 DEF TypedBase, Fields
  <2>5. OtherPair(c, b)
    BY <2>2, <2>3, <2>4 DEF OtherPair
  <2>6. Parts(base', glob, handler, x)
    BY <1>1, <2>1, <2>5, OtherPairSound DEF b, c
  <2>7. Good(w)'
    BY <1>2, <2>6, InvIsParts
  <2>8. QED
    BY <2>2, <2>4, <2>7 DEF b, c
<1>5. QED
  BY <1>2, <1>3, <1>4 DEF Raise

(* evsig_cb finds a slot for every signal, and makes the events of those   *)
(* that were caught active.                                                *)
LEMMA CallbackKeeps ==
    ASSUME EvAssumption, NEW x, Base = {x}, Inv, evsig_cb(x)
    PROVE  /\ Good(w)' /\ asserted' = FALSE /\ active' \in [Ev -> Nat]
           /\ base'[x].list = base[x].list
           /\ \A e \in Ev : /\ active[e] > 0 => active'[e] > 0
                            /\ ~Added(e) => active'[e] = active[e]
                            /\ Added(e) /\ base[x].pair[SigOf[e]] > 0 => active'[e] > 0
<1> DEFINE b == base[x]
           c == base'[x]
<1>1. Parts(base, glob, handler, x) /\ x \in Base
  BY WhatHolds
<1>2. /\ TypedBase(b) /\ Sound(b, x, glob.base, handler) /\ DOMAIN base = Base
      /\ glob' = glob /\ handler' = handler
      /\ base' = [base EXCEPT ![x].pair = [s \in Sig |-> 0]]
      /\ active \in [Ev -> Nat] /\ \A e \in Ev : BaseOf[e] = x /\ SigOf[e] \in Sig
  BY <1>1 DEF Parts, evsig_cb, Inv, TypedQueue, EvAssumption
<1>3. DOMAIN base' = Base /\ c = [b EXCEPT !.pair = [s \in Sig |-> 0]]
  BY <1>1, <1>2
<1>4. asserted' = FALSE
  BY <1>2 DEF evsig_cb, NoSlot, ncaught, Sound, Slotted
<1>5. /\ active' \in [Ev -> Nat]
      /\ \A e \in Ev : /\ active[e] > 0 => active'[e] > 0
                       /\ ~Added(e) => active'[e] = active[e]
                       /\ Added(e) /\ b.pair[SigOf[e]] > 0 => active'[e] > 0
  <2>1. \A e \in Ev : b.pair[SigOf[e]] \in Nat
    BY <1>2 DEF TypedBase
  <2>2. active' = [e \in Ev |-> IF BaseOf[e] = x /\ Added(e)
                               THEN IF active[e] > 0 THEN active[e]
                                                     ELSE b.pair[SigOf[e]]
                               ELSE active[e]]
    BY DEF evsig_cb, ncaught, event_active_nolock
  <2> HIDE DEF b
  <2>3. QED
    BY <1>2, <2>1, <2>2
<1> HIDE DEF b, c
<1>6. /\ DOMAIN c = Fields /\ c.list = b.list /\ c.slot = b.slot
      /\ c.sh_old = b.sh_old /\ c.ev_signal_added = b.ev_signal_added
      /\ c.ev_n_signals_added = b.ev_n_signals_added
      /\ c.life = b.life /\ c.pair = [s \in Sig |-> 0]
      /\ b.life \in {"used", "freeing", "freed"}
  BY <1>2, <1>3 DEF TypedBase, Fields
<1>7. OtherPair(c, b)
  BY <1>6 DEF OtherPair
<1>8. Parts(base', glob, handler, x)
  BY <1>1, <1>3, <1>7, OtherPairSound DEF b, c
<1>9. Good(w)'
  BY <1>2, <1>8, InvIsParts
<1>10. QED
  BY <1>4, <1>5, <1>6, <1>9 DEF b, c

-----------------------------------------------------------------------------
(* The active queue and the calls.                                         *)

LEMMA AddedIsWithin ==
    ASSUME EvAssumption, NEW x, Base = {x}, NEW e \in Ev
    PROVE  /\ BaseOf[e] = x
           /\ Added(e) <=> Within(base[x], e)
           /\ Added(e)' <=> Within(base'[x], e)
  BY DEF EvAssumption, Added, Within

(* A step that takes nothing from the lists.                               *)
LEMMA QueueKept ==
    ASSUME EvAssumption, NEW x, Base = {x}, Inv, UNCHANGED <<queue, called>>,
           \A e \in Ev : Within(base[x], e) => Within(base'[x], e)
    PROVE  TypedQueue' /\ CallsAdded'
<1>1. active' = active /\ running' = running /\ left' = left /\ called' = called
  BY DEF queue
<1>2. TypedQueue' /\ \A y \in Base : running[y] \in Ev \cup {None}
  BY <1>1 DEF Inv, TypedQueue
<1>3. ASSUME NEW e \in Ev, active'[e] > 0
      PROVE  Added(e)'
  BY <1>1, <1>3, AddedIsWithin DEF Inv, CallsAdded
<1>4. ASSUME NEW y \in Base, left'[y] > 0
      PROVE  running'[y] # None /\ Added(running[y])'
  <2>1. running[y] # None /\ Added(running[y]) /\ running[y] \in Ev
    BY <1>1, <1>2, <1>4 DEF Inv, CallsAdded
  <2>2. Added(running[y])'
    <3> DEFINE e == running[y]
    <3>1. e \in Ev /\ Added(e) /\ e = running'[y]
      BY <1>1, <2>1
    <3>2. Within(base'[x], e)
      BY <2>1, AddedIsWithin
    <3>3. running'[y] \in Ev /\ Within(base'[x], running'[y])
      BY <3>1, <3>2
    <3> HIDE DEF e
    <3>4. QED
      BY <3>3 DEF Added, Within, EvAssumption
  <2>3. QED
    BY <1>1, <2>1, <2>2
<1>5. QED
  BY <1>1, <1>2, <1>3, <1>4 DEF CallsAdded

(* event_del takes the event from the list, from the active queue and from *)
(* the calls that are left.                                                *)
LEMMA DeleteKeeps ==
    ASSUME EvAssumption, NoneAssumption, NEW x, Base = {x}, Inv,
           NEW e \in Ev, Added(e), event_del(e)
    PROVE  /\ Good(w)' /\ TypedQueue' /\ CallsAdded'
           /\ base'[x].pair = base[x].pair
           /\ \A d \in Ev : d # e => active'[d] = active[d]
           /\ ~Within(base'[x], e)
<1> DEFINE u == evmap_signal_del(w, e)
<1>1. e \in w.base[x].list[SigOf[e]] /\ w.base = base /\ x \in Base
  BY AddedIsWithin DEF Within, w
<1>2. /\ Good(u) /\ u.base[x].pair = base[x].pair
      /\ \A d \in Ev : Within(base[x], d) /\ d # e => Within(u.base[x], d)
      /\ ~Within(u.base[x], e)
  BY <1>1, SignalDeleted DEF Inv
<1>3. Become(u) /\ base' = u.base /\ called' = called
  BY DEF event_del, Become
<1>4. Good(w)'
  BY <1>2, <1>3, BecomeGood
<1> HIDE DEF u
<1>5. /\ active' = [active EXCEPT ![e] = 0] /\ running' = running
      /\ left' = IF running[x] = e THEN [left EXCEPT ![x] = 0] ELSE left
      /\ active \in [Ev -> Nat] /\ called \in [Ev -> Nat]
      /\ running \in [Base -> Ev \cup {None}] /\ left \in [Base -> Nat]
  BY AddedIsWithin DEF event_del, Inv, TypedQueue
<1>6. TypedQueue'
  BY <1>1, <1>3, <1>5 DEF TypedQueue
<1>7. ASSUME NEW d \in Ev, active'[d] > 0
      PROVE  Added(d)'
  <2>1. d # e /\ active[d] > 0
    BY <1>5, <1>7
  <2>2. Within(base[x], d)
    BY <2>1, AddedIsWithin DEF Inv, CallsAdded
  <2>3. Within(base'[x], d)
    BY <1>2, <1>3, <2>1, <2>2
  <2>4. QED
    BY <2>3, AddedIsWithin
<1>8. ASSUME left'[x] > 0
      PROVE  running'[x] # None /\ Added(running[x])'
  <2>1. running[x] # e /\ left[x] > 0
    BY <1>1, <1>5, <1>8
  <2>2. running[x] # None /\ Added(running[x]) /\ running[x] \in Ev
    BY <1>1, <1>5, <2>1 DEF Inv, CallsAdded
  <2>3. Within(base'[x], running[x])
    BY <1>2, <1>3, <2>1, <2>2, AddedIsWithin
  <2>4. QED
    BY <1>5, <2>2, <2>3 DEF Added, Within, EvAssumption
<1>9. CallsAdded'
  BY <1>7, <1>8 DEF CallsAdded
<1>10. QED
  BY <1>2, <1>3, <1>4, <1>5, <1>6, <1>9

(* A call takes an event from the active queue; the calls that follow are  *)
(* of the same event.                                                      *)
LEMMA CallKeeps ==
    ASSUME EvAssumption, NoneAssumption, NEW x, Base = {x}, Inv,
           (\E e \in Ev : FirstCall(e)) \/ NextCall(x) \/ LastReturn(x)
    PROVE  /\ UNCHANGED <<base, glob, handler, asserted>>
           /\ TypedQueue' /\ CallsAdded'
           /\ \A d \in Ev : active'[d] = active[d] \/ called'[d] > called[d]
<1>1. /\ active \in [Ev -> Nat] /\ called \in [Ev -> Nat] /\ x \in Base
      /\ running \in [Base -> Ev \cup {None}] /\ left \in [Base -> Nat]
      /\ \A e \in Ev : active[e] > 0 => Added(e)
      /\ left[x] > 0 => running[x] # None /\ Added(running[x])
  BY DEF Inv, TypedQueue, CallsAdded
<1>2. ASSUME NEW e \in Ev, FirstCall(e)
      PROVE  /\ UNCHANGED <<base, glob, handler, asserted>>
             /\ TypedQueue' /\ CallsAdded'
             /\ \A d \in Ev : active'[d] = active[d] \/ called'[d] > called[d]
  <2>1. /\ base' = base /\ glob' = glob /\ handler' = handler /\ asserted' = asserted
        /\ running' = [running EXCEPT ![x] = e]
        /\ left' = [left EXCEPT ![x] = active[e] - 1]
        /\ active' = [active EXCEPT ![e] = 0] /\ active[e] > 0
        /\ called' = [called EXCEPT ![e] = @ + 1]
    BY <1>2, AddedIsWithin DEF FirstCall
  <2>2. TypedQueue'
    BY <1>1, <2>1 DEF TypedQueue
  <2>3. running'[x] = e /\ e # None /\ Added(e)
    BY <1>1, <2>1 DEF NoneAssumption
  <2>4. CallsAdded'
    BY <1>1, <2>1, <2>3 DEF CallsAdded, Added
  <2>5. QED
    BY <1>1, <2>1, <2>2, <2>4
<1>3. CASE NextCall(x)
  <2>1. /\ base' = base /\ glob' = glob /\ handler' = handler /\ asserted' = asserted
        /\ running' = running /\ active' = active /\ left[x] > 0
        /\ running[x] # None
        /\ left' = [left EXCEPT ![x] = @ - 1]
        /\ called' = [called EXCEPT ![running[x]] = @ + 1]
    BY <1>3 DEF NextCall
  <2>2. TypedQueue'
    BY <1>1, <2>1 DEF TypedQueue
  <2>3. CallsAdded'
    BY <1>1, <2>1 DEF CallsAdded, Added
  <2>4. QED
    BY <2>1, <2>2, <2>3
<1>4. CASE LastReturn(x)
  <2>1. /\ base' = base /\ glob' = glob /\ handler' = handler /\ asserted' = asserted
        /\ running' = [running EXCEPT ![x] = None] /\ active' = active
        /\ left' = [left EXCEPT ![x] = 0] /\ called' = called
    BY <1>4 DEF LastReturn
  <2>2. TypedQueue'
    BY <1>1, <2>1 DEF TypedQueue
  <2>3. CallsAdded'
    BY <1>1, <2>1 DEF CallsAdded, Added
  <2>4. QED
    BY <2>1, <2>2, <2>3
<1>5. QED
  BY <1>2, <1>3, <1>4

-----------------------------------------------------------------------------
(* The invariant holds at first.                                           *)
LEMMA InitGood == ASSUME OneBase PROVE Init => Inv
<1> SUFFICES ASSUME NEW x, Base = {x}, Init
             PROVE  Inv
  BY DEF OneBase
<1> DEFINE b == base[x]
<1>1. /\ DOMAIN base = Base /\ x \in Base
      /\ b = [list |-> [s \in Sig |-> {}], slot |-> {},
              sh_old |-> [s \in Sig |-> "none"], ev_signal_added |-> FALSE,
              ev_n_signals_added |-> 0, life |-> "used",
              pair |-> [s \in Sig |-> 0]]
  BY DEF Init
<1> HIDE DEF b
<1>2. TypedBase(b)
  <2>1. DOMAIN b = Fields
    BY <1>1 DEF Fields
  <2>2. /\ b.list \in [Sig -> SUBSET Ev] /\ b.slot \subseteq Sig
        /\ b.sh_old \in [Sig -> Handlers \cup {"none"}] /\ b.pair \in [Sig -> Nat]
    BY <1>1
  <2>3. QED
    BY <1>1, <2>1, <2>2 DEF TypedBase
<1>3. handler \in [Sig -> Handlers] /\ \A s \in Sig : handler[s] = "original"
  BY DEF Init, Handlers
<1>4. Sound(b, x, None, handler)
  BY <1>1, <1>3 DEF Sound, Listed, Caught, Informed, Slotted
<1>5. DOMAIN glob = {"base", "n"} /\ glob.base = None /\ glob.n = 0
  BY DEF Init
<1>6. Parts(base, glob, handler, x)
  BY <1>1, <1>2, <1>3, <1>4, <1>5 DEF Parts, b
<1>7. TypedQueue /\ CallsAdded
  BY DEF Init, TypedQueue, CallsAdded
<1>8. QED
  BY <1>6, <1>7, InvIsParts DEF Init, Inv

(* Every step keeps it.                                                    *)
LEMMA InvKept ==
    ASSUME EvAssumption, NoneAssumption, OneBase, Inv, [Next]_vars PROVE Inv'
<1>1. PICK x : Base = {x} /\ \A e \in Ev : BaseOf[e] = x
  BY DEF OneBase, EvAssumption
<1>2. ASSUME NEW e \in Ev, Add(e)
      PROVE  Inv'
  <2>1. Become(evmap_signal_add(w, e)) /\ UNCHANGED queue
    BY <1>2 DEF Add
  <2>2. /\ Good(evmap_signal_add(w, e))
        /\ \A d \in Ev : Within(w.base[x], d)
              => Within(evmap_signal_add(w, e).base[x], d)
    BY <1>1, SignalAdded DEF Inv
  <2>3. /\ w.base = base /\ base' = evmap_signal_add(w, e).base
        /\ called' = called /\ asserted' = asserted
    BY <2>1 DEF Become, w
  <2>4. Good(w)'
    BY <1>1, <2>1, <2>2, BecomeGood
  <2>5. TypedQueue' /\ CallsAdded'
    BY <1>1, <2>1, <2>2, <2>3, QueueKept
  <2>6. QED
    BY <2>3, <2>4, <2>5 DEF Inv
<1>3. ASSUME NEW e \in Ev, Del(e) \/ FreeEvent(e)
      PROVE  Inv'
  <2>1. Added(e) /\ event_del(e)
    BY <1>3 DEF Del, FreeEvent
  <2>2. Good(w)' /\ TypedQueue' /\ CallsAdded'
    BY <1>1, <2>1, DeleteKeeps
  <2>3. asserted' = asserted
    BY <2>1 DEF event_del, Become
  <2>4. QED
    BY <2>2, <2>3 DEF Inv
<1>4. CASE Free(x)
  <2>1. Good(w)' /\ base'[x].list = base[x].list
    BY <1>1, <1>4, FreeKeeps
  <2>2. UNCHANGED <<queue, called, asserted>>
    BY <1>4 DEF Free, Become
  <2>3. TypedQueue' /\ CallsAdded'
    BY <1>1, <2>1, <2>2, QueueKept DEF Within
  <2>4. QED
    BY <2>1, <2>2, <2>3 DEF Inv
<1>5. CASE FreeBackend(x)
  <2>1. Good(w)' /\ base'[x].list = base[x].list
    BY <1>1, <1>5, FreeBackendKeeps
  <2>2. UNCHANGED <<queue, called, asserted>>
    BY <1>5 DEF FreeBackend, Become
  <2>3. TypedQueue' /\ CallsAdded'
    BY <1>1, <2>1, <2>2, QueueKept DEF Within
  <2>4. QED
    BY <2>1, <2>2, <2>3 DEF Inv
<1>6. CASE Loop(x)
  <2>1. Good(w)' /\ base' = base
    BY <1>1, <1>6, LoopKeeps
  <2>2. UNCHANGED <<queue, called, asserted>>
    BY <1>6 DEF Loop, Become
  <2>3. TypedQueue' /\ CallsAdded'
    BY <1>1, <2>1, <2>2, QueueKept
  <2>4. QED
    BY <2>1, <2>2, <2>3 DEF Inv
<1>7. CASE evsig_cb(x)
  <2>1. /\ Good(w)' /\ asserted' = FALSE /\ active' \in [Ev -> Nat]
        /\ base'[x].list = base[x].list
        /\ \A e \in Ev : ~Added(e) => active'[e] = active[e]
    BY <1>1, <1>7, CallbackKeeps
  <2>2. left' = left /\ running' = running /\ called' = called
    BY <1>7 DEF evsig_cb
  <2>3. TypedQueue'
    BY <2>1, <2>2 DEF Inv, TypedQueue
  <2>4. \A e \in Ev : Added(e)' <=> Added(e)
    BY <1>1, <2>1, AddedIsWithin DEF Within
  <2>5. \A e \in Ev : active'[e] > 0 => Added(e)'
    BY <2>1, <2>4 DEF Inv, CallsAdded
  <2>6. left[x] > 0 => running[x] # None /\ Added(running[x])'
    <3>1. ASSUME left[x] > 0
          PROVE  running[x] # None /\ Added(running[x]) /\ running[x] \in Ev
      BY <1>1, <3>1 DEF Inv, CallsAdded, TypedQueue
    <3>2. \A e \in Ev : e = running[x] /\ Added(e)' => Added(running[x])'
      BY <2>2 DEF Added
    <3>3. QED
      BY <2>4, <3>1, <3>2
  <2>7. CallsAdded'
    BY <1>1, <2>2, <2>5, <2>6 DEF CallsAdded
  <2>8. QED
    BY <2>1, <2>3, <2>7 DEF Inv
<1>8. ASSUME NEW s \in Sig, Raise(s)
      PROVE  Inv'
  <2>1. Good(w)' /\ base'[x].list = base[x].list
    BY <1>1, <1>8, RaiseKeeps
  <2>2. UNCHANGED <<queue, called, asserted>>
    BY <1>8 DEF Raise
  <2>3. TypedQueue' /\ CallsAdded'
    BY <1>1, <2>1, <2>2, QueueKept DEF Within
  <2>4. QED
    BY <2>1, <2>2, <2>3 DEF Inv
<1>9. CASE (\E e \in Ev : FirstCall(e)) \/ NextCall(x) \/ LastReturn(x)
  <2>1. UNCHANGED <<base, glob, handler, asserted>> /\ TypedQueue' /\ CallsAdded'
    BY <1>1, <1>9, CallKeeps
  <2>2. Good(w)'
    BY <1>1, <2>1, InvIsParts DEF Inv
  <2>3. QED
    BY <2>1, <2>2 DEF Inv
<1>10. CASE UNCHANGED vars
  <2>1. UNCHANGED <<queue, called, asserted, base, glob, handler>>
    BY <1>10 DEF vars, queue
  <2>2. TypedQueue' /\ CallsAdded'
    BY <1>1, <2>1, QueueKept
  <2>3. Good(w)'
    BY <1>1, <2>1, InvIsParts DEF Inv
  <2>4. QED
    BY <2>1, <2>2, <2>3 DEF Inv
<1>11. QED
  BY <1>1, <1>2, <1>3, <1>4, <1>5, <1>6, <1>7, <1>8, <1>9, <1>10 DEF Next

(* No step loses the last of a signal that was caught.                     *)
LEMMA StepDelivers ==
    ASSUME EvAssumption, NoneAssumption, OneBase, Inv, [Next]_vars
    PROVE  Delivered
<1>1. PICK x : Base = {x}
  BY DEF OneBase
<1> SUFFICES ASSUME NEW d \in Ev, Added(d), Added(d)', Due(d)
             PROVE  Due(d)' \/ called'[d] > called[d]
  BY DEF Delivered
<1> DEFINE p == base[x].pair[SigOf[d]]
           q == base'[x].pair[SigOf[d]]
<1>2. /\ BaseOf[d] = x /\ SigOf[d] \in Sig /\ Within(base[x], d)
      /\ Within(base'[x], d) /\ (p > 0 \/ active[d] > 0)
      /\ w.base = base
  BY <1>1, AddedIsWithin DEF EvAssumption, Due, w
<1>3. q > 0 \/ active'[d] > 0 => Due(d)'
  BY <1>2 DEF Due
<1>4. active' = active /\ base'[x].pair = base[x].pair => Due(d)'
  BY <1>2, <1>3
<1>5. ASSUME NEW e \in Ev, Add(e)
      PROVE  Due(d)'
  <2>1. /\ base' = evmap_signal_add(w, e).base /\ active' = active
        /\ evmap_signal_add(w, e).base[x].pair = w.base[x].pair
    BY <1>1, <1>5, SignalAdded DEF Add, Become, queue, Inv
  <2>2. QED
    BY <1>2, <1>4, <2>1
<1>6. ASSUME NEW e \in Ev, Del(e) \/ FreeEvent(e)
      PROVE  Due(d)'
  <2>1. Added(e) /\ event_del(e)
    BY <1>6 DEF Del, FreeEvent
  <2>2. /\ base'[x].pair = base[x].pair /\ ~Within(base'[x], e)
        /\ \A f \in Ev : f # e => active'[f] = active[f]
    BY <1>1, <2>1, DeleteKeeps
  <2>3. d # e /\ active'[d] = active[d]
    <3>1. Within(base'[x], d) /\ ~Within(base'[x], e)
      BY <1>1, <2>2, AddedIsWithin
    <3>2. d # e
      BY <3>1, Zenon
    <3>3. QED
      BY <2>2, <3>2
  <2>4. q = p
    BY <2>2
  <2> HIDE DEF p, q
  <2>5. QED
    BY <1>2, <1>3, <2>3, <2>4
<1>7. CASE Free(x)
  <2>1. base'[x].pair = base[x].pair
    BY <1>1, <1>7, FreeKeeps
  <2>2. QED
    BY <1>4, <1>7, <2>1 DEF Free, queue
<1>8. CASE FreeBackend(x)
  BY <1>2, <1>8 DEF FreeBackend
<1>9. CASE Loop(x)
  <2>1. base' = base
    BY <1>1, <1>9, LoopKeeps
  <2>2. QED
    BY <1>4, <1>9, <2>1 DEF Loop, queue
<1>10. CASE evsig_cb(x)
  BY <1>1, <1>2, <1>3, <1>10, CallbackKeeps
<1>11. ASSUME NEW s \in Sig, Raise(s)
       PROVE  Due(d)'
  <2>1. active' = active /\ q >= p
    <3>1. \A e \in Sig : base'[x].pair[e] >= base[x].pair[e]
      BY <1>1, <1>11, RaiseKeeps
    <3>2. QED
      BY <1>2, <1>11, <3>1 DEF Raise, queue
  <2>2. p \in Nat
    BY <1>1, <1>2, WhatHolds DEF Parts, TypedBase
  <2>3. q \in Nat
    <3>1. Good(w)'
      BY <1>1, <1>11, RaiseKeeps
    <3>2. base'[x].pair \in [Sig -> Nat]
      BY <1>1, <3>1, InvIsParts DEF Parts, TypedBase
    <3>3. QED
      BY <1>2, <3>2
  <2> HIDE DEF p, q
  <2>4. QED
    BY <1>2, <1>3, <2>1, <2>2, <2>3
<1>12. CASE (\E e \in Ev : FirstCall(e)) \/ NextCall(x) \/ LastReturn(x)
  <2>1. base' = base /\ (active'[d] = active[d] \/ called'[d] > called[d])
    BY <1>1, <1>12, CallKeeps
  <2>2. QED
    BY <1>2, <1>3, <2>1
<1>13. CASE UNCHANGED vars
  BY <1>4, <1>13 DEF vars
<1>14. QED
  BY <1>1, <1>5, <1>6, <1>7, <1>8, <1>9, <1>10, <1>11, <1>12, <1>13 DEF Next

(* What the invariant says of the properties.                              *)
LEMMA InvSuffices ==
    ASSUME OneBase, NoneAssumption, Inv
    PROVE  HandlerFollowsEvents /\ SomebodyInformed /\ SlotsFound /\ CallsAdded
<1>1. PICK x : Base = {x}
  BY DEF OneBase
<1>2. /\ Sound(base[x], x, glob.base, handler)
  BY <1>1, WhatHolds DEF Parts
<1>3. HandlerFollowsEvents
  BY <1>1, <1>2 DEF HandlerFollowsEvents, Listened, Sound, Caught
<1>4. SomebodyInformed
  <2>1. ASSUME NEW s \in Sig, base[x].list[s] # {}
        PROVE  glob.base = x /\ base[x].ev_signal_added
    BY <1>2, <2>1 DEF Sound, Informed
  <2>2. x # None
    BY <1>1 DEF NoneAssumption
  <2>3. QED
    BY <1>1, <2>1, <2>2 DEF SomebodyInformed, Listened
<1>5. QED
  BY <1>3, <1>4 DEF Inv, SlotsFound

-----------------------------------------------------------------------------
(* With one base, for any signals and events.                              *)

(* The invariant: signal.c's saved handlers, handlers and lists agree.     *)
THEOREM Invariance ==
    ASSUME EvAssumption, NoneAssumption, OneBase
    PROVE  Spec => []Inv
<1>1. Init => Inv
  BY InitGood
<1>2. Inv /\ [Next]_vars => Inv'
  BY InvKept
<1>3. QED
  BY <1>1, <1>2, PTL DEF Spec

(* The handler is libevent's while an event listens and the one from       *)
(* before otherwise, the base is informed, what is read from the pair has  *)
(* a list, and a deleted event is not called (signal.c:86-378,             *)
(* evmap.c:425-485, event.c:1048-1077, 2262-2286).                         *)
THEOREM SignalsAreSound ==
    ASSUME EvAssumption, OneBase, NoneAssumption
    PROVE  Spec => [](HandlerFollowsEvents /\ SomebodyInformed /\ SlotsFound
                        /\ CallsAdded)
<1>1. Inv => HandlerFollowsEvents /\ SomebodyInformed /\ SlotsFound /\ CallsAdded
  BY InvSuffices
<1>2. QED
  BY <1>1, Invariance, PTL

(* A signal that reached the pair is not lost: an event that stays added   *)
(* is due until a call of it starts, although counts are dropped for an    *)
(* active event and calls after a break (signal.c:130-166,                 *)
(* event.c:1048-1077, 2330-2377).                                          *)
THEOREM SignalsAreDelivered ==
    ASSUME EvAssumption, NoneAssumption, OneBase
    PROVE  Spec => [][Delivered]_vars
<1>1. Inv /\ [Next]_vars => [Delivered]_vars
  BY StepDelivers
<1>2. QED
  BY <1>1, Invariance, PTL DEF Spec

=============================================================================
