----------------------------- MODULE RateLimit -----------------------------
(***************************************************************************)
(* Rate limits of bufferevents (bufferevent_ratelim.c): a token bucket of  *)
(* each bufferevent, refilled by a timer while it is exhausted, and the    *)
(* buckets of groups, refilled every tick.  A direction that is out of     *)
(* tokens is suspended, for its own bucket ("bw") or its group's ("group").*)
(*                                                                         *)
(* The code is written for several threads.  Each operation holds the lock *)
(* of its bufferevent; "pc" says between which two uses of the group lock  *)
(* the holder is, and whoever walks the members of a group meanwhile fails *)
(* to lock that one and passes it over.                                    *)
(*                                                                         *)
(* Reading and writing are the same code twice in the source; here "d" is  *)
(* the direction.  "now" counts milliseconds and wraps at Clock, tick      *)
(* numbers wrap at TickMod.                                                *)
(***************************************************************************)
EXTENDS Integers, FiniteSets

CONSTANTS
    Bevs, Groups,       \* bufferevents and rate limit groups
    Dirs,               \* the directions, a subset of {"read", "write"}
    Rates, Bursts,      \* bytes per tick and at once that a program may ask for
    TickLens,           \* lengths of a tick, in milliseconds
    Shares,             \* values for min_share
    GroupCfg,           \* [rate, burst, mpt]: what the groups start with
    Default,            \* the min_share a group starts with (64 in the code)
    MaxEver,            \* MAX_TO_READ_EVER
    MaxIO, MaxDecr,     \* bounds: bytes that one system call or call moves
    Debt, MaxLimit,     \* bounds: what the program's own calls may leave in a bucket
    TickMod, Clock,     \* where tick numbers and the clock wrap
    MaxNow,             \* bound: the clock stops there
    None                \* no configuration, or no group

TimesAssumption ==
    /\ TickMod \in Nat \ {0} /\ Clock \in Nat \ {0} /\ MaxNow \in 0 .. Clock
    /\ \A t \in TickLens : t > 0 /\ Clock % (t * TickMod) = 0

VARIABLES now,
          bevs,         \* a bufferevent and its rate_limiting
          groups

vars == <<now, bevs, groups>>

(* The configurations that ev_token_bucket_cfg_new makes.  The same rate is *)
(* used in both directions.                                                 *)
ev_token_bucket_cfg_new(rate, burst, len) ==
    IF rate > burst \/ rate < 1 THEN None ELSE [rate |-> rate, max |-> burst, mpt |-> len]

Cfgs == {ev_token_bucket_cfg_new(r, m, t) : r \in Rates, m \in Bursts, t \in TickLens} \ {None}

ev_token_bucket_get_tick(cfg) == (now \div cfg.mpt) % TickMod

least(x, y) == IF x < y THEN x ELSE y

ev_token_bucket_init(k, cfg, reinitialize) ==
    IF reinitialize
    THEN [k EXCEPT !.limit = [d \in Dirs |-> least(@[d], cfg.max)]]
    ELSE [limit |-> [d \in Dirs |-> cfg.rate], last_updated |-> ev_token_bucket_get_tick(cfg)]

(* read_maximum is unsigned: with more than that in the bucket the difference *)
(* is a large number.                                                         *)
ev_token_bucket_update(k, cfg) ==
    LET n_ticks == (ev_token_bucket_get_tick(cfg) - k.last_updated) % TickMod
        Refilled(limit) == IF limit <= cfg.max /\ (cfg.max - limit) \div n_ticks < cfg.rate
                           THEN cfg.max
                           ELSE limit + n_ticks * cfg.rate
    IN  IF n_ticks = 0 \/ n_ticks > (TickMod \div 2) - 1 THEN k
        ELSE [limit |-> [d \in Dirs |-> Refilled(k.limit[d])],
              last_updated |-> ev_token_bucket_get_tick(cfg)]

-----------------------------------------------------------------------------
(* One bufferevent *)

Suspend(v, d, why) == [v EXCEPT !.suspended[d] = @ \cup {why}]
Unsuspend(v, d, why) == [v EXCEPT !.suspended[d] = @ \ {why}]
StartTimer(v) == [v EXCEPT !.timer = v.cfg.mpt]
StopTimer(v) == [v EXCEPT !.timer = -1]
Elsewhere(v, d) == \E e \in Dirs \ {d} : "bw" \in v.suspended[e]

(* The two ways to take n bytes from a bucket: after a system call, and on  *)
(* the program's word.                                                      *)
OwnTaken(v, d, n) == [v EXCEPT !.k.limit[d] = @ - n]

Resumed(v, d) == Unsuspend(IF Elsewhere(v, d) THEN v ELSE StopTimer(v), d, "bw")

OwnDecremented(v, d, n) ==
    LET w == OwnTaken(v, d, n) IN
    CASE v.cfg = None -> v
      [] v.cfg # None /\ w.k.limit[d] <= 0 -> StartTimer(Suspend(w, d, "bw"))
      [] v.cfg # None /\ w.k.limit[d] > 0 /\ "bw" \in v.suspended[d] -> Resumed(w, d)
      [] OTHER -> w

bufferevent_decrement_limit(v, d, n) ==
    LET w == OwnTaken(v, d, n) IN
    CASE v.k.limit[d] > 0 /\ w.k.limit[d] <= 0 -> StartTimer(Suspend(w, d, "bw"))
      [] v.k.limit[d] <= 0 /\ w.k.limit[d] > 0 -> Resumed(w, d)
      [] OTHER -> w

bev_refill_callback(v) ==
    LET k == ev_token_bucket_update(v.k, v.cfg)
        dry == {d \in Dirs : "bw" \in v.suspended[d] /\ k.limit[d] <= 0}
        w == [v EXCEPT !.k = k,
                       !.suspended = [d \in Dirs |-> IF d \in dry THEN @[d] ELSE @[d] \ {"bw"}]]
    IN  CASE v.cfg = None -> v
          [] v.cfg # None /\ dry # {} -> StartTimer(w)
          [] OTHER -> w

bufferevent_set_rate_limit(v, cfg) ==
    LET k == ev_token_bucket_init(v.k, cfg, v.cfg # None)
        dry == {d \in Dirs : k.limit[d] <= 0}
        w == [v EXCEPT !.limited = TRUE, !.cfg = cfg, !.k = k, !.timer = -1,
                       !.suspended = [d \in Dirs |-> IF d \in dry THEN @[d] \cup {"bw"}
                                                     ELSE @[d] \ {"bw"}]]
    IN  CASE cfg = None /\ ~ v.limited -> v
          [] cfg = None /\ v.limited ->
                StopTimer([v EXCEPT !.cfg = None,
                                    !.suspended = [d \in Dirs |-> @[d] \ {"bw"}]])
          [] cfg # None /\ cfg = v.cfg -> v
          [] cfg # None /\ cfg # v.cfg /\ dry # {} -> StartTimer(w)
          [] OTHER -> w

-----------------------------------------------------------------------------
(* Groups: s is [b |-> bevs, g |-> groups]; "me" is the bufferevent whose   *)
(* lock the caller holds.                                                   *)

Members(s, g) == {b \in Bevs : s.b[b].group = g}
TryLock(s, g, me) == {b \in Members(s, g) : b = me \/ s.b[b].pc = "idle"}

bev_group_suspend(s, g, d, me) ==
    [b |-> [b \in Bevs |-> IF b \in TryLock(s, g, me) THEN Suspend(s.b[b], d, "group") ELSE s.b[b]],
     g |-> [s.g EXCEPT ![g].suspended[d] = TRUE, ![g].pending[d] = FALSE]]

(* Mutant of bev_group_unsuspend: who could not be locked is forgotten. *)
Mutant_bev_group_unsuspend(s, g, d, me) ==
    [b |-> [b \in Bevs |-> IF b \in TryLock(s, g, me) THEN Unsuspend(s.b[b], d, "group") ELSE s.b[b]],
     g |-> [s.g EXCEPT ![g].suspended[d] = FALSE, ![g].pending[d] = FALSE]]

bev_group_unsuspend(s, g, d, me) ==
    [b |-> [b \in Bevs |-> IF b \in TryLock(s, g, me) THEN Unsuspend(s.b[b], d, "group") ELSE s.b[b]],
     g |-> [s.g EXCEPT ![g].suspended[d] = FALSE,
                       ![g].pending[d] = TryLock(s, g, me) # Members(s, g)]]

GroupTaken(s, g, d, n) == [s EXCEPT !.g[g].k.limit[d] = @ - n]

GroupDecremented(s, g, d, n, me) ==
    LET t == GroupTaken(s, g, d, n) IN
    CASE t.g[g].k.limit[d] <= 0 -> bev_group_suspend(t, g, d, me)
      [] t.g[g].k.limit[d] > 0 /\ s.g[g].suspended[d] -> bev_group_unsuspend(t, g, d, me)
      [] OTHER -> t

bufferevent_decrement_buckets(s, b, d, n) ==
    LET t == [s EXCEPT !.b[b] = OwnDecremented(@, d, n)] IN
    IF s.b[b].group = None THEN t ELSE GroupDecremented(t, s.b[b].group, d, n, b)

bufferevent_rate_limit_group_decrement(s, g, d, n) ==
    LET old == s.g[g].k.limit[d]
        t == GroupTaken(s, g, d, n)
        new == old - n
    IN  CASE old > 0 /\ new <= 0 -> bev_group_suspend(t, g, d, None)
          [] old <= 0 /\ new > 0 -> bev_group_unsuspend(t, g, d, None)
          [] OTHER -> t

Share(s, b, d) ==
    LET g == s.g[s.b[b].group]
        equal == g.k.limit[d] \div Cardinality(Members(s, s.b[b].group))
    IN  IF equal < g.min_share THEN g.min_share ELSE equal

Brought(v) == IF v.cfg = None THEN v ELSE [v EXCEPT !.k = ev_token_bucket_update(v.k, v.cfg)]

GroupSays(s, b, d, own) ==
    CASE s.b[b].group = None -> [s |-> s, max |-> own]
      [] s.b[b].group # None /\ s.g[s.b[b].group].suspended[d] ->
            [s |-> [s EXCEPT !.b[b] = Suspend(@, d, "group")], max |-> 0]
      [] OTHER -> [s |-> s, max |-> least(own, Share(s, b, d))]

bufferevent_get_rlim_max(s, b, d) ==
    LET v == Brought(s.b[b])
        own == IF v.cfg = None THEN MaxEver ELSE v.k.limit[d]
    IN  GroupSays([s EXCEPT !.b[b] = v], b, d, own)

SetMinShare(group, share) ==
    [group EXCEPT !.configured = share, !.min_share = least(share, group.cfg.rate)]

bev_group_refill(s, g) ==
    LET k == ev_token_bucket_update(s.g[g].k, s.g[g].cfg)
        due == {d \in Dirs : \/ s.g[g].pending[d]
                             \/ s.g[g].suspended[d] /\ k.limit[d] >= s.g[g].min_share}
        open == TryLock(s, g, None)
    IN  [b |-> [b \in Bevs |->
                  IF b \in open
                  THEN [s.b[b] EXCEPT !.suspended =
                          [d \in Dirs |-> IF d \in due THEN @[d] \ {"group"} ELSE @[d]]]
                  ELSE s.b[b]],
         g |-> [s.g EXCEPT ![g].k = k, ![g].timer = s.g[g].cfg.mpt,
                           ![g].suspended = [d \in Dirs |-> @[d] /\ d \notin due],
                           ![g].pending = [d \in Dirs |-> IF d \in due THEN open # Members(s, g)
                                                          ELSE @[d]]]]

bufferevent_rate_limit_group_set_cfg(group, cfg) ==
    SetMinShare([group EXCEPT !.cfg = cfg,
                              !.k.limit = [d \in Dirs |-> least(@[d], cfg.max)],
                              !.timer = IF cfg.mpt = group.cfg.mpt THEN @ ELSE cfg.mpt],
                group.configured)

remove_from_group(v, unsuspend) ==
    [v EXCEPT !.group = None,
              !.suspended = IF unsuspend THEN [d \in Dirs |-> @[d] \ {"group"}] ELSE @]

-----------------------------------------------------------------------------
NewBev == [alive |-> TRUE, limited |-> FALSE, cfg |-> None, group |-> None, timer |-> -1,
           k |-> [limit |-> [d \in Dirs |-> 0], last_updated |-> 0],
           suspended |-> [d \in Dirs |-> {}], pc |-> "idle", max |-> 0, saw |-> {}]

NewGroup ==
    SetMinShare([cfg |-> GroupCfg, k |-> ev_token_bucket_init([limit |-> <<>>], GroupCfg, FALSE),
                 suspended |-> [d \in Dirs |-> FALSE], pending |-> [d \in Dirs |-> FALSE],
                 timer |-> GroupCfg.mpt, configured |-> 0, min_share |-> 0], Default)

Init == /\ now = 0
        /\ bevs = [b \in Bevs |-> NewBev]
        /\ groups = [g \in Groups |-> NewGroup]

State == [b |-> bevs, g |-> groups]
Becomes(s) == bevs' = s.b /\ groups' = s.g /\ UNCHANGED now
Idle(b) == bevs[b].alive /\ bevs[b].pc = "idle"

Tick == /\ now < MaxNow
        /\ now' = (now + 1) % Clock
        /\ bevs' = [b \in Bevs |-> [bevs[b] EXCEPT !.timer = IF @ > 0 THEN @ - 1 ELSE @]]
        /\ groups' = [g \in Groups |-> [groups[g] EXCEPT !.timer = IF @ > 0 THEN @ - 1 ELSE @]]

(* bufferevent_readcb and bufferevent_writecb around their system call.  *)
Ask(b, d) ==
    /\ Idle(b) /\ bevs[b].suspended[d] = {}
    /\ LET r == bufferevent_get_rlim_max(State, b, d) IN
       IF r.s.b[b].suspended[d] # {}
       THEN Becomes(r.s)
       ELSE Becomes([r.s EXCEPT !.b[b].pc = d, !.b[b].max = r.max])

Moved(b, n) ==
    /\ bevs[b].pc \in Dirs
    /\ n <= bevs[b].max
    /\ LET d == bevs[b].pc
           s == [State EXCEPT !.b[b].pc = "idle", !.b[b].max = 0]
       IN  Becomes(IF n = 0 THEN s ELSE bufferevent_decrement_buckets(s, b, d, n))

RefillTimer(b) ==
    /\ Idle(b) /\ bevs[b].timer = 0
    /\ Becomes([State EXCEPT !.b[b] = bev_refill_callback(StopTimer(@))])

GroupTimer(g) == /\ groups[g].timer = 0
                 /\ Becomes(bev_group_refill(State, g))

SetRateLimit(b, cfg) ==
    /\ Idle(b)
    /\ Becomes([State EXCEPT !.b[b] = bufferevent_set_rate_limit(@, cfg)])

DecrementLimit(b, d, n) ==
    /\ Idle(b) /\ bevs[b].cfg # None
    /\ bevs[b].k.limit[d] - n \in -Debt .. MaxLimit
    /\ Becomes([State EXCEPT !.b[b] = bufferevent_decrement_limit(@, d, n)])

(* bufferevent_add_to_rate_limit_group, up to the release of the group lock *)
(* and from there.  The call with no group on a member ends in the lock of  *)
(* no group: "crashed".                                                     *)
AddToGroup(b, g) ==
    /\ Idle(b)
    /\ LET v == [bevs[b] EXCEPT !.limited = TRUE]
           in == IF v.group = None THEN v ELSE remove_from_group(v, TRUE)
       IN  CASE v.group = g -> Becomes([State EXCEPT !.b[b] = v])
             [] v.group # g /\ g = None -> Becomes([State EXCEPT !.b[b] = [in EXCEPT !.pc = "crashed"]])
             [] OTHER -> Becomes([State EXCEPT !.b[b] =
                            [in EXCEPT !.group = g, !.pc = "adding",
                                       !.saw = {d \in Dirs : groups[g].suspended[d]}]])

Added(b) ==
    /\ bevs[b].pc = "adding"
    /\ Becomes([State EXCEPT !.b[b] =
          [@ EXCEPT !.pc = "idle", !.saw = {},
                    !.suspended = [d \in Dirs |-> IF d \in bevs[b].saw THEN @[d] \cup {"group"}
                                                  ELSE @[d]]]])

RemoveFromGroup(b) ==
    /\ Idle(b)
    /\ Becomes([State EXCEPT !.b[b] = remove_from_group(@, TRUE)])

SetGroupCfg(g, cfg) == Becomes([State EXCEPT !.g[g] = bufferevent_rate_limit_group_set_cfg(@, cfg)])
SetGroupShare(g, share) == Becomes([State EXCEPT !.g[g] = SetMinShare(@, share)])

DecrementGroup(g, d, n) ==
    /\ groups[g].k.limit[d] - n \in -Debt .. MaxLimit
    /\ Becomes(bufferevent_rate_limit_group_decrement(State, g, d, n))

(* _bufferevent_decref_and_unlock drops the last reference. *)
Free(b) == /\ Idle(b)
           /\ Becomes([State EXCEPT !.b[b] = [NewBev EXCEPT !.alive = FALSE]])

Decrements == {n \in -MaxDecr .. MaxDecr : n # 0}

Traffic == \/ Tick
           \/ \E b \in Bevs, d \in Dirs : Ask(b, d)
           \/ \E b \in Bevs, n \in 0 .. MaxIO : Moved(b, n)
           \/ \E b \in Bevs : RefillTimer(b) \/ Added(b)
           \/ \E g \in Groups : GroupTimer(g)

Membership == \E b \in Bevs : \/ \E g \in Groups : AddToGroup(b, g)
                              \/ RemoveFromGroup(b)
Limits == \E b \in Bevs, cfg \in Cfgs \cup {None} : SetRateLimit(b, cfg)
GroupLimits == \E g \in Groups : \/ \E cfg \in Cfgs : SetGroupCfg(g, cfg)
                                 \/ \E share \in Shares : SetGroupShare(g, share)
OwnDecrement == \E b \in Bevs, d \in Dirs, n \in Decrements : DecrementLimit(b, d, n)
GroupDecrement == \E g \in Groups, d \in Dirs, n \in Decrements : DecrementGroup(g, d, n)
Freed == \E b \in Bevs : Free(b)

(* Programs: one that uses everything about a bufferevent, one that uses     *)
(* everything about groups, one that takes from no bucket by hand, and one   *)
(* that calls bufferevent_add_to_rate_limit_group with no group.             *)
OwnNext == Traffic \/ Limits \/ OwnDecrement \/ Freed
GroupNext == Traffic \/ Membership \/ GroupLimits \/ GroupDecrement \/ Freed
FirstLimit == \E b \in Bevs, cfg \in Cfgs : bevs[b].cfg = None /\ SetRateLimit(b, cfg)
MeteredNext == Traffic \/ Membership \/ FirstLimit
(* The clock runs, the event loop calls the timers that are due before it    *)
(* looks at the clock again, and who holds the lock of a bufferevent lets go *)
(* of it, so that a timer that waits for the lock gets it in the end.        *)
Prompt == now' # now => /\ \A b \in Bevs : bevs[b].timer # 0
                        /\ \A g \in Groups : groups[g].timer # 0
-----------------------------------------------------------------------------
Bucket == [limit : [Dirs -> Int], last_updated : 0 .. TickMod - 1]

(* Buckets, suspensions and timers have the values the structures allow. *)
TypeOK ==
    /\ now \in 0 .. Clock - 1
    /\ \A b \in Bevs :
          /\ bevs[b].k \in Bucket /\ bevs[b].cfg \in Cfgs \cup {None}
          /\ bevs[b].group \in Groups \cup {None} /\ bevs[b].timer \in Int
          /\ bevs[b].suspended \in [Dirs -> SUBSET {"bw", "group"}]
    /\ \A g \in Groups : groups[g].k \in Bucket /\ groups[g].min_share \in Nat

(* A direction that is suspended for its own bucket has a timer that will    *)
(* refill the bucket: the timer is stopped by the other direction, by a new  *)
(* limit and by the decrement functions only when nobody waits for it.       *)
OwnWakes ==
    \A b \in Bevs, d \in Dirs :
        "bw" \in bevs[b].suspended[d] => bevs[b].cfg # None /\ bevs[b].timer >= 0

(* A bufferevent that is suspended for its group is in a group, and the      *)
(* group knows that there is somebody to resume: it is suspended itself, or  *)
(* has noted that it could not lock all when it resumed.  Somebody in the    *)
(* middle of an operation when the group was walked is no exception.         *)
GroupWakes ==
    \A b \in Bevs, d \in Dirs :
        bevs[b].pc # "adding" /\ "group" \in bevs[b].suspended[d] =>
            /\ bevs[b].group # None
            /\ groups[bevs[b].group].suspended[d] \/ groups[bevs[b].group].pending[d]

(* An empty bucket stops its direction. *)
EmptyStops ==
    \A b \in Bevs, d \in Dirs :
        bevs[b].cfg # None /\ bevs[b].k.limit[d] <= 0 => "bw" \in bevs[b].suspended[d]

(* A bucket never holds more than the burst of the configuration in force,   *)
(* whatever it was before.                                                   *)
BurstKept ==
    /\ \A b \in Bevs, d \in Dirs :
          bevs[b].cfg # None => bevs[b].k.limit[d] <= bevs[b].cfg.max
    /\ \A g \in Groups, d \in Dirs : groups[g].k.limit[d] <= groups[g].cfg.max

(* A read that is started asks for at least one byte: a read of nothing      *)
(* would be reported to the program as the end of the stream.                *)
NeverAsksNothing == \A b \in Bevs : bevs[b].pc \in Dirs => bevs[b].max > 0

(* However the reads of the members overlap, and whoever joins meanwhile, a  *)
(* group overdraws its bucket by less than one full share of each: it never  *)
(* resumes in debt.                                                          *)
OverdraftBounded ==
    \A g \in Groups, d \in Dirs :
        groups[g].k.limit[d] + Cardinality(Bevs) * groups[g].cfg.max > 0

(* When the refill timer of a bufferevent has run, a whole tick after it was *)
(* set, its bucket has been brought up to date.                              *)
RefillRefills ==
    \A b \in Bevs :
        RefillTimer(b) /\ bevs[b].cfg # None =>
            bevs'[b].k.last_updated = ev_token_bucket_get_tick(bevs[b].cfg)

(* The comment in ev_token_bucket_update: the bucket gets n_ticks times the   *)
(* rate, and is cut to the maximum.  Only asking and the timer update it.     *)
UpdateAsMeant ==
    \A b \in Bevs :
        LET v == bevs[b]
            k == bevs'[b].k
            n_ticks == (k.last_updated - v.k.last_updated) % TickMod
        IN  v.cfg # None /\ bevs'[b].cfg = v.cfg /\ n_ticks # 0 =>
              k.limit = [d \in Dirs |-> least(v.cfg.max, v.k.limit[d] + n_ticks * v.cfg.rate)]

=============================================================================
