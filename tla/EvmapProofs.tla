---------------------------- MODULE EvmapProofs ----------------------------
(***************************************************************************)
(* Proofs about Evmap for any number of descriptors, files and events of   *)
(* an application that deletes the events of a descriptor before it closes *)
(* it.                                                                     *)
(***************************************************************************)
EXTENDS Evmap, FiniteSetTheorems, TLAPS

Assumptions ==
    EvAssumption /\ KindAssumption /\ BoundAssumption /\ FileAssumption

Change == [fd : Fd, old : SUBSET Kinds, change : [Kinds -> {"add", "del", "none"}]]

(* The types of the base and of the kernel.                                *)
BaseFields == {"events", "n", "idxplus1", "changes", "inserted", "freed", "active"}
TypedBase(bb) ==
    /\ DOMAIN bb = BaseFields
    /\ bb.events \in [Fd -> SUBSET Ev] /\ bb.n \in [Fd -> [Kinds -> Nat]]
    /\ bb.idxplus1 \in [Fd -> Nat] /\ bb.changes \in Seq(Change)
    /\ bb.inserted \subseteq Ev /\ bb.freed \subseteq Ev /\ bb.active \subseteq Ev

TypedKernel(kk) ==
    kk \in [file : [Fd -> File \cup {Closed}], held : SUBSET File,
           item : [Fd -> [File -> SUBSET Kinds]]]

-----------------------------------------------------------------------------
(* epoll.c                                                                 *)

(* The kernel after the interest of the open descriptor fd became s.       *)
Interest(kk, fd, s) == [kk EXCEPT !.item[fd][kk.file[fd]] = s]

(* What epoll_apply_one_change may find: the kernel has what the change    *)
(* takes for old, or the descriptor was opened again after all of that was *)
(* deleted.                                                                *)
Fits(kk, ch) ==
    \/ At(kk, ch.fd) = ch.old
    \/ At(kk, ch.fd) = {} /\ \A d \in ch.old : ch.change[d] # "none"

(* What it makes of that.                                                  *)
Applied(u, kk, ch) ==
    /\ u.r \in {0, -1}
    /\ IF kk.file[ch.fd] \in File \ Refused
       THEN /\ u.r = 0
            /\ \E s \in SUBSET Kinds :
                  u.k = Interest(kk, ch.fd, s) /\ (Fits(kk, ch) => s = Remaining(ch))
       ELSE u.k = kk /\ (Touches(ch, "add") => u.r = -1)

LEMMA InterestSame ==
    ASSUME NEW kk, TypedKernel(kk), NEW fd \in Fd, kk.file[fd] \in File
    PROVE  Interest(kk, fd, At(kk, fd)) = kk
<1> DEFINE f == kk.file[fd]
           of == kk.item[fd]
           item == [kk.item EXCEPT ![fd][f] = of[f]]
<1>1. kk.item \in [Fd -> [File -> SUBSET Kinds]] /\ f \in File
  BY DEF TypedKernel
<1>2. [of EXCEPT ![f] = of[f]] = of
  BY <1>1
<1>3. item = kk.item
  BY <1>1, <1>2
<1>4. Interest(kk, fd, At(kk, fd)) = [kk EXCEPT !.item = item]
  BY <1>1 DEF Interest, At, TypedKernel
<1>5. [kk EXCEPT !.item = kk.item] = kk
  BY DEF TypedKernel
<1>6. QED
  BY <1>3, <1>4, <1>5

LEMMA InterestTyped ==
    ASSUME NEW kk, TypedKernel(kk), NEW fd \in Fd, NEW s \in SUBSET Kinds
    PROVE  TypedKernel(Interest(kk, fd, s))
<1> DEFINE item == [kk.item EXCEPT ![fd][kk.file[fd]] = s]
<1>1. item \in [Fd -> [File -> SUBSET Kinds]]
  BY DEF TypedKernel
<1>2. Interest(kk, fd, s) = [kk EXCEPT !.item = item]
  BY DEF TypedKernel, Interest
<1> HIDE DEF item
<1>3. QED
  BY <1>1, <1>2 DEF TypedKernel

(* epoll_ctl of an open descriptor that epoll takes.                       *)
LEMMA CtlOfOpen ==
    ASSUME NEW kk, NEW fd, kk.file[fd] # Closed, kk.file[fd] \notin Refused,
           NEW op \in {"ADD", "MOD", "DEL"}, NEW events
    PROVE  epoll_ctl(kk, op, fd, events) =
             IF (op = "ADD" /\ At(kk, fd) = {}) \/ (op # "ADD" /\ At(kk, fd) # {})
             THEN [k |-> Interest(kk, fd, IF op = "DEL" THEN {} ELSE events), err |-> "0"]
             ELSE [k |-> kk, err |-> IF op = "ADD" THEN "EEXIST" ELSE "ENOENT"]
<1> DEFINE Set(s) == Interest(kk, fd, s)
           fail(e) == [k |-> kk, err |-> e]
<1>1. epoll_ctl(kk, op, fd, events) =
        IF op = "ADD" /\ At(kk, fd) # {} THEN fail("EEXIST")
        ELSE IF op # "ADD" /\ At(kk, fd) = {} THEN fail("ENOENT")
        ELSE [k |-> Set(IF op = "DEL" THEN {} ELSE events), err |-> "0"]
  BY DEF epoll_ctl, Interest
<1> HIDE DEF Set
<1>2. QED
  BY <1>1 DEF Set

LEMMA CtlOfOther ==
    ASSUME NEW kk, NEW fd, kk.file[fd] = Closed \/ kk.file[fd] \in Refused,
           NEW op, NEW events, NEW x, x = epoll_ctl(kk, op, fd, events)
    PROVE  x.k = kk /\ x.err \in {"EBADF", "EPERM"}
  BY DEF epoll_ctl

(* What is tried first for a change.                                       *)
LEMMA FirstOp ==
    ASSUME NEW ch \in Change, NEW o, o = first_op(ch)
    PROVE  /\ o.op \in {"ADD", "MOD", "DEL"} /\ o.events \in SUBSET Kinds
           /\ Touches(ch, "add") => o.op # "DEL"
           /\ o.op # "DEL" => o.events = Remaining(ch) /\ Remaining(ch) # {}
           /\ o.op = "ADD" => ch.old = {}
           /\ o.op = "DEL" /\ o.events # {} => Remaining(ch) = {}
           /\ o.events = {} =>
                 Remaining(ch) = ch.old /\ \A d \in Kinds : ch.change[d] = "none"
<1> USE DEF Change, Kinds
<1>1. CASE Touches(ch, "add")
  <2>1. o = [op |-> IF ch.old # {} THEN "MOD" ELSE "ADD", events |-> Remaining(ch)]
    BY <1>1 DEF first_op
  <2>2. Remaining(ch) # {}
    BY <1>1 DEF Touches, Remaining
  <2>3. QED
    BY <1>1, <2>1, <2>2 DEF Remaining
<1>2. CASE ~Touches(ch, "add") /\ Touches(ch, "del") /\ Remaining(ch) # {}
  <2>1. o = [op |-> "MOD", events |-> Remaining(ch)]
    BY <1>2 DEF first_op
  <2>2. QED
    BY <1>2, <2>1 DEF Remaining
<1>3. CASE ~Touches(ch, "add") /\ ~(Touches(ch, "del") /\ Remaining(ch) # {})
  <2>1. o = [op |-> "DEL", events |-> Deleted(ch)]
    BY <1>3 DEF first_op
  <2>2. CASE Touches(ch, "del")
    BY <1>3, <2>1, <2>2 DEF Deleted, Touches
  <2>3. CASE ~Touches(ch, "del")
    <3>1. \A d \in Kinds : ch.change[d] = "none"
      BY <1>3, <2>3 DEF Touches
    <3>2. QED
      BY <1>3, <2>1, <3>1 DEF Deleted, Remaining, Touches
  <2>4. QED
    BY <2>2, <2>3
<1>4. QED
  BY <1>1, <1>2, <1>3

LEMMA OneChange ==
    ASSUME FileAssumption, NEW kk, TypedKernel(kk), NEW ch \in Change
    PROVE  Applied(epoll_apply_one_change(kk, ch), kk, ch)
<1> DEFINE o == first_op(ch)
           x == epoll_ctl(kk, o.op, ch.fd, o.events)
           y(op) == epoll_ctl(kk, op, ch.fd, o.events)
           u == epoll_apply_one_change(kk, ch)
           f == kk.file[ch.fd]
<1>1. /\ o.op \in {"ADD", "MOD", "DEL"} /\ o.events \in SUBSET Kinds
      /\ Touches(ch, "add") => o.op # "DEL"
      /\ o.op # "DEL" => o.events = Remaining(ch) /\ Remaining(ch) # {}
      /\ o.op = "ADD" => ch.old = {}
      /\ o.op = "DEL" /\ o.events # {} => Remaining(ch) = {}
      /\ o.events = {} =>
            Remaining(ch) = ch.old /\ \A d \in Kinds : ch.change[d] = "none"
  BY FirstOp
<1>2. u = IF o.events = {} THEN [k |-> kk, r |-> 0]
          ELSE IF x.err = "0" THEN [k |-> x.k, r |-> 0]
          ELSE IF o.op = "MOD" /\ x.err = "ENOENT"
               THEN [k |-> y("ADD").k, r |-> IF y("ADD").err = "0" THEN 0 ELSE -1]
          ELSE IF o.op = "ADD" /\ x.err = "EEXIST"
               THEN [k |-> y("MOD").k, r |-> IF y("MOD").err = "0" THEN 0 ELSE -1]
          ELSE [k |-> kk, r |-> IF o.op = "DEL" /\ x.err \in {"ENOENT", "EBADF", "EPERM"}
                                THEN 0 ELSE -1]
  BY DEF epoll_apply_one_change
<1>3. ch.fd \in Fd /\ f \in File \cup {Closed}
  BY DEF Change, TypedKernel
<1> HIDE DEF o, u
<1>4. CASE f \in File \ Refused
  <2>1. f # Closed /\ f \notin Refused
    BY <1>4 DEF FileAssumption
  <2> DEFINE at == At(kk, ch.fd)
             Set(s) == Interest(kk, ch.fd, s)
  <2>2. x = IF (o.op = "ADD" /\ at = {}) \/ (o.op # "ADD" /\ at # {})
            THEN [k |-> Set(IF o.op = "DEL" THEN {} ELSE o.events), err |-> "0"]
            ELSE [k |-> kk, err |-> IF o.op = "ADD" THEN "EEXIST" ELSE "ENOENT"]
    BY <1>1, <2>1, CtlOfOpen
  <2>3. /\ at = {} => y("ADD") = [k |-> Set(o.events), err |-> "0"]
        /\ at # {} => y("MOD") = [k |-> Set(o.events), err |-> "0"]
    <3>1. y("ADD") = IF at = {} THEN [k |-> Set(o.events), err |-> "0"]
                     ELSE [k |-> kk, err |-> "EEXIST"]
      BY <2>1, CtlOfOpen
    <3>2. y("MOD") = IF at # {} THEN [k |-> Set(o.events), err |-> "0"]
                     ELSE [k |-> kk, err |-> "ENOENT"]
      BY <2>1, CtlOfOpen
    <3> HIDE DEF y
    <3>3. QED
      BY <3>1, <3>2
  <2>4. kk = Set(at)
    BY <1>3, <1>4, InterestSame
  <2>5. at \in SUBSET Kinds /\ Remaining(ch) \in SUBSET Kinds
    BY <1>3, <1>4 DEF TypedKernel, At, Remaining
  <2> HIDE DEF at, Set, x, y
  <2>6. /\ u.r = 0
        /\ u.k = IF o.events = {} THEN Set(at)
                 ELSE IF o.op = "DEL" THEN Set({}) ELSE Set(o.events)
    <3>1. CASE o.events = {}
      BY <1>2, <2>4, <3>1
    <3>2. CASE o.events # {} /\ o.op = "DEL"
      <4>1. CASE at = {}
        BY <1>2, <2>2, <2>4, <3>2, <4>1
      <4>2. CASE at # {}
        BY <1>2, <2>2, <3>2, <4>2
      <4>3. QED
        BY <4>1, <4>2
    <3>3. CASE o.events # {} /\ o.op = "ADD"
      BY <1>2, <2>2, <2>3, <3>3
    <3>4. CASE o.events # {} /\ o.op = "MOD"
      BY <1>2, <2>2, <2>3, <3>4
    <3>5. QED
      BY <1>1, <3>1, <3>2, <3>3, <3>4
  <2>7. Fits(kk, ch) /\ o.events = {} => at = Remaining(ch)
    <3>1. SUFFICES ASSUME Fits(kk, ch), o.events = {}
                   PROVE  at = Remaining(ch)
      OBVIOUS
    <3>2. Remaining(ch) = ch.old
      BY <1>1, <3>1
    <3>3. CASE at = ch.old
      BY <3>2, <3>3
    <3>4. CASE at = {} /\ \A d \in ch.old : ch.change[d] # "none"
      BY <1>1, <3>1, <3>2, <3>4 DEF Change
    <3>5. QED
      BY <3>1, <3>3, <3>4 DEF Fits, at
  <2>8. QED
    BY <1>1, <1>4, <2>5, <2>6, <2>7 DEF Applied, Set, u
<1>5. CASE f \notin File \ Refused
  <2>1. f = Closed \/ f \in Refused
    BY <1>3, <1>5
  <2>2. x.k = kk /\ x.err \in {"EBADF", "EPERM"}
    BY <2>1, CtlOfOther
  <2>3. u.k = kk /\ u.r \in {0, -1} /\ (o.op # "DEL" => u.r = -1)
    BY <1>1, <1>2, <2>2
  <2>4. QED
    BY <1>1, <1>5, <2>3 DEF Applied, u
<1>6. QED
  BY <1>4, <1>5

-----------------------------------------------------------------------------
(* The changelist                                                          *)

(* event_changelist_check: every change is the one that its descriptor     *)
(* points to.                                                              *)
Pointed(bb) ==
    /\ \A i \in DOMAIN bb.changes : bb.idxplus1[bb.changes[i].fd] = i
    /\ \A fd \in Fd : bb.idxplus1[fd] # 0 =>
           /\ bb.idxplus1[fd] \in DOMAIN bb.changes
           /\ bb.changes[bb.idxplus1[fd]].fd = fd

ChangeOf(bb, fd) == bb.changes[bb.idxplus1[fd]]

SameEvents(u, bb) ==
    /\ u.events = bb.events /\ u.n = bb.n /\ u.inserted = bb.inserted
    /\ u.freed = bb.freed /\ u.active = bb.active

(* u is bb with the change ch of fd.                                       *)
Listed(u, bb, fd, ch) ==
    /\ TypedBase(u) /\ Pointed(u) /\ SameEvents(u, bb)
    /\ u.idxplus1[fd] # 0 /\ ChangeOf(u, fd) = ch
    /\ \A g \in Fd \ {fd} :
          /\ u.idxplus1[g] = bb.idxplus1[g]
          /\ bb.idxplus1[g] # 0 => ChangeOf(u, g) = ChangeOf(bb, g)

(* The loop over the changes does to each descriptor what its change says. *)
LEMMA ChangesApplied ==
    ASSUME FileAssumption, NEW kk, TypedKernel(kk), NEW bb, TypedBase(bb), Pointed(bb),
           NEW u, u = epoll_apply_changes(kk, bb.changes)
    PROVE  /\ TypedKernel(u) /\ u.file = kk.file /\ u.held = kk.held
           /\ \A fd \in Fd : u.item[fd] =
                 IF bb.idxplus1[fd] = 0 THEN kk.item[fd]
                 ELSE epoll_apply_one_change(kk, ChangeOf(bb, fd)).k.item[fd]
<1> DEFINE of(fd) == {i \in DOMAIN bb.changes : bb.changes[i].fd = fd}
           done(i) == epoll_apply_one_change(kk, bb.changes[i]).k
           pick(fd) == CHOOSE i \in of(fd) : TRUE
           item == [fd \in Fd |-> IF of(fd) = {} THEN kk.item[fd]
                                  ELSE done(pick(fd)).item[fd]]
<1>1. u = [kk EXCEPT !.item = item]
  BY DEF epoll_apply_changes
<1>2. \A i \in DOMAIN bb.changes : bb.changes[i] \in Change /\ i \in Nat \ {0}
  BY DEF TypedBase
<1>3. ASSUME NEW fd \in Fd
      PROVE  /\ bb.idxplus1[fd] = 0 => of(fd) = {}
             /\ bb.idxplus1[fd] # 0 => of(fd) = {bb.idxplus1[fd]}
  BY <1>2 DEF Pointed
<1>4. ASSUME NEW fd \in Fd
      PROVE  item[fd] = IF bb.idxplus1[fd] = 0 THEN kk.item[fd]
                        ELSE epoll_apply_one_change(kk, ChangeOf(bb, fd)).k.item[fd]
  <2>1. CASE bb.idxplus1[fd] = 0
    BY <1>3, <2>1
  <2>2. CASE bb.idxplus1[fd] # 0
    <3>1. of(fd) = {bb.idxplus1[fd]}
      BY <1>3, <2>2
    <3> HIDE DEF of, done
    <3>2. pick(fd) = bb.idxplus1[fd]
      BY <3>1
    <3>3. item[fd] = done(bb.idxplus1[fd]).item[fd]
      BY <3>1, <3>2
    <3>4. QED
      BY <2>2, <3>3 DEF done, ChangeOf
  <2>3. QED
    BY <2>1, <2>2
<1>5. ASSUME NEW i \in DOMAIN bb.changes
      PROVE  done(i).item \in [Fd -> [File -> SUBSET Kinds]]
  <2> DEFINE ch == bb.changes[i]
  <2>1. Applied(epoll_apply_one_change(kk, ch), kk, ch) /\ ch.fd \in Fd
    BY <1>2, OneChange DEF Change
  <2>2. CASE done(i) = kk
    BY <2>2 DEF TypedKernel
  <2>3. ASSUME NEW s \in SUBSET Kinds, done(i) = Interest(kk, ch.fd, s)
        PROVE  done(i).item \in [Fd -> [File -> SUBSET Kinds]]
    <3>1. done(i) = Interest(kk, ch.fd, s) /\ ch.fd \in Fd
      BY <2>1, <2>3
    <3> HIDE DEF done, ch
    <3>2. QED
      BY <3>1, InterestTyped DEF TypedKernel
  <2>4. QED
    BY <2>1, <2>2, <2>3, Zenon DEF Applied
<1>6. item \in [Fd -> [File -> SUBSET Kinds]]
  <2>1. ASSUME NEW fd \in Fd
        PROVE  item[fd] \in [File -> SUBSET Kinds]
    <3>1. CASE bb.idxplus1[fd] = 0
      BY <1>4, <3>1 DEF TypedKernel
    <3>2. CASE bb.idxplus1[fd] # 0
      <4>1. bb.idxplus1[fd] \in DOMAIN bb.changes
        BY <3>2 DEF Pointed
      <4>2. item[fd] = done(bb.idxplus1[fd]).item[fd]
        BY <1>4, <3>2 DEF ChangeOf
      <4>3. QED
        BY <1>5, <4>1, <4>2
    <3>3. QED
      BY <3>1, <3>2
  <2>2. QED
    BY <2>1
<1> HIDE DEF item
<1>7. TypedKernel(u) /\ u.file = kk.file /\ u.held = kk.held /\ u.item = item
  BY <1>1, <1>6 DEF TypedKernel
<1>8. QED
  BY <1>4, <1>7

(* What event_changelist_get_or_construct returns.                         *)
Before(bb, fd, old) ==
    IF bb.idxplus1[fd] # 0 THEN ChangeOf(bb, fd)
    ELSE [fd |-> fd, old |-> old, change |-> [d \in Kinds |-> "none"]]

LEMMA Constructed ==
    ASSUME NEW bb, TypedBase(bb), Pointed(bb), NEW fd \in Fd, NEW old \in SUBSET Kinds
    PROVE  Listed(event_changelist_get_or_construct(bb, fd, old), bb, fd,
                  Before(bb, fd, old))
<1> DEFINE u == event_changelist_get_or_construct(bb, fd, old)
           ch == [fd |-> fd, old |-> old, change |-> [d \in Kinds |-> "none"]]
           more == Append(bb.changes, ch)
           idx == [bb.idxplus1 EXCEPT ![fd] = Len(bb.changes) + 1]
<1>1. CASE bb.idxplus1[fd] # 0
  BY <1>1 DEF event_changelist_get_or_construct, Listed, Before, SameEvents
<1>2. CASE bb.idxplus1[fd] = 0
  <2>1. u = [bb EXCEPT !.changes = more, !.idxplus1 = idx]
    BY <1>2 DEF event_changelist_get_or_construct
  <2>2. ch \in Change
    BY DEF Change
  <2>3. bb.changes \in Seq(Change) /\ bb.idxplus1 \in [Fd -> Nat]
    BY DEF TypedBase
  <2> HIDE DEF ch
  <2>4. /\ more \in Seq(Change) /\ DOMAIN more = 1 .. Len(bb.changes) + 1
        /\ Len(bb.changes) \in Nat /\ DOMAIN bb.changes = 1 .. Len(bb.changes)
        /\ \A i \in DOMAIN bb.changes : more[i] = bb.changes[i]
        /\ more[Len(bb.changes) + 1] = ch
    BY <2>2, <2>3
  <2>5. /\ idx \in [Fd -> Nat] /\ idx[fd] = Len(bb.changes) + 1
        /\ \A g \in Fd \ {fd} : idx[g] = bb.idxplus1[g]
    BY <2>3, <2>4
  <2> HIDE DEF more, idx, u
  <2>6. /\ DOMAIN u = BaseFields /\ u.changes = more /\ u.idxplus1 = idx
        /\ SameEvents(u, bb)
    BY <2>1 DEF TypedBase, BaseFields, SameEvents
  <2>7. TypedBase(u)
    BY <2>4, <2>5, <2>6 DEF TypedBase, SameEvents
  <2>8. ch.fd = fd
    BY DEF ch
  <2>9. \A i \in DOMAIN bb.changes : bb.changes[i].fd \in Fd \ {fd}
    <3>1. TAKE i \in DOMAIN bb.changes
    <3>2. bb.changes[i] \in Change /\ i # 0
      BY <2>3, <2>4
    <3>3. bb.changes[i].fd \in Fd /\ bb.idxplus1[bb.changes[i].fd] = i
      BY <3>2 DEF Pointed, Change
    <3>4. QED
      BY <1>2, <3>2, <3>3
  <2>10. ASSUME NEW i \in DOMAIN more
         PROVE  idx[more[i].fd] = i
    <3>1. CASE i \in DOMAIN bb.changes
      BY <2>4, <2>5, <2>9, <3>1 DEF Pointed
    <3>2. CASE i = Len(bb.changes) + 1
      BY <2>4, <2>5, <2>8, <3>2
    <3>3. QED
      BY <2>4, <3>1, <3>2
  <2>11. ASSUME NEW g \in Fd, idx[g] # 0
         PROVE  idx[g] \in DOMAIN more /\ more[idx[g]].fd = g
    <3>1. CASE g = fd
      BY <2>4, <2>5, <2>8, <3>1
    <3>2. CASE g # fd
      BY <2>4, <2>5, <2>11, <3>2 DEF Pointed
    <3>3. QED
      BY <3>1, <3>2
  <2>12. Pointed(u)
    BY <2>6, <2>10, <2>11 DEF Pointed
  <2>13. idx[fd] # 0 /\ more[idx[fd]] = ch
    BY <2>4, <2>5
  <2>14. \A g \in Fd \ {fd} : bb.idxplus1[g] # 0 =>
            more[bb.idxplus1[g]] = bb.changes[bb.idxplus1[g]]
    BY <2>4 DEF Pointed
  <2>15. Before(bb, fd, old) = ch
    BY <1>2 DEF Before, ch
  <2>16. Listed(u, bb, fd, ch)
    BY <2>5, <2>6, <2>7, <2>12, <2>13, <2>14 DEF Listed, ChangeOf
  <2>17. QED
    BY <2>15, <2>16 DEF u
<1>3. QED
  BY <1>1, <1>2

LEMMA ListedAgain ==
    ASSUME NEW bb, NEW v, NEW u, NEW fd \in Fd, NEW c, NEW d,
           Listed(v, bb, fd, c), Listed(u, v, fd, d)
    PROVE  Listed(u, bb, fd, d)
  BY DEF Listed, SameEvents

(* A change that the descriptor has gets other directions.                 *)
LEMMA Rewritten ==
    ASSUME NEW bb, TypedBase(bb), Pointed(bb), NEW fd \in Fd, bb.idxplus1[fd] # 0,
           NEW how \in [Kinds -> {"add", "del", "none"}],
           NEW u, u = [bb EXCEPT !.changes[bb.idxplus1[fd]].change = how]
    PROVE  Listed(u, bb, fd, [ChangeOf(bb, fd) EXCEPT !.change = how])
<1> DEFINE i == bb.idxplus1[fd]
           ch == [bb.changes[i] EXCEPT !.change = how]
           new == [bb.changes EXCEPT ![i] = ch]
<1>1. /\ i \in DOMAIN bb.changes /\ bb.changes \in Seq(Change)
      /\ bb.changes[i].fd = fd /\ bb.changes[i] \in Change
  BY DEF TypedBase, Pointed
<1>2. u = [bb EXCEPT !.changes = new]
  BY <1>1 DEF TypedBase
<1>3. ch \in Change /\ ch.fd = fd
  BY <1>1 DEF Change
<1> HIDE DEF ch
<1>4. /\ new \in Seq(Change) /\ DOMAIN new = DOMAIN bb.changes /\ new[i] = ch
      /\ \A j \in DOMAIN new : j # i => new[j] = bb.changes[j]
  BY <1>1, <1>3
<1> HIDE DEF new
<1>5. /\ DOMAIN u = BaseFields /\ u.changes = new /\ u.idxplus1 = bb.idxplus1
      /\ SameEvents(u, bb)
  BY <1>2 DEF TypedBase, BaseFields, SameEvents
<1>6. TypedBase(u)
  BY <1>4, <1>5 DEF TypedBase, SameEvents
<1>7. \A j \in DOMAIN new : new[j].fd = bb.changes[j].fd
  BY <1>1, <1>3, <1>4
<1>8. Pointed(u)
  <2>1. ASSUME NEW j \in DOMAIN u.changes
        PROVE  u.idxplus1[u.changes[j].fd] = j
    <3>1. u.changes[j].fd = bb.changes[j].fd /\ j \in DOMAIN bb.changes
      BY <1>4, <1>5, <1>7, <2>1
    <3>2. bb.idxplus1[bb.changes[j].fd] = j
      BY <3>1 DEF Pointed
    <3>3. QED
      BY <1>5, <3>1, <3>2
  <2>2. ASSUME NEW g \in Fd, u.idxplus1[g] # 0
        PROVE  u.idxplus1[g] \in DOMAIN u.changes /\ u.changes[u.idxplus1[g]].fd = g
    <3>1. bb.idxplus1[g] \in DOMAIN bb.changes /\ bb.changes[bb.idxplus1[g]].fd = g
      BY <1>5, <2>2 DEF Pointed
    <3>2. QED
      BY <1>4, <1>5, <1>7, <3>1
  <2>3. QED
    BY <2>1, <2>2 DEF Pointed
<1>9. \A g \in Fd \ {fd} : bb.idxplus1[g] # 0 =>
         new[bb.idxplus1[g]] = bb.changes[bb.idxplus1[g]]
  <2>1. TAKE g \in Fd \ {fd}
  <2>2. HAVE bb.idxplus1[g] # 0
  <2>3. bb.idxplus1[g] \in DOMAIN bb.changes /\ bb.changes[bb.idxplus1[g]].fd = g
    BY <2>2 DEF Pointed
  <2>4. bb.idxplus1[g] # i
    BY <1>1, <2>3
  <2>5. QED
    BY <1>4, <2>3, <2>4
<1>10. Listed(u, bb, fd, ch)
  BY <1>4, <1>5, <1>6, <1>8, <1>9 DEF Listed, ChangeOf
<1>11. QED
  BY <1>10 DEF ch, ChangeOf

(* The directions of a change after an add and a delete.                   *)
AddedTo(ch, events) ==
    [ch EXCEPT !.change = [d \in Kinds |-> IF d \in events THEN "add" ELSE ch.change[d]]]
DeletedFrom(ch, events) ==
    [ch EXCEPT !.change = [d \in Kinds |->
        IF d \notin events THEN ch.change[d]
        ELSE IF d \notin ch.old /\ ch.change[d] = "add" THEN "none" ELSE "del"]]

LEMMA BeforeTyped ==
    ASSUME NEW bb, TypedBase(bb), Pointed(bb), NEW fd \in Fd, NEW old \in SUBSET Kinds
    PROVE  Before(bb, fd, old) \in Change /\ Before(bb, fd, old).fd = fd
<1>1. CASE bb.idxplus1[fd] = 0
  BY <1>1 DEF Before, Change
<1>2. CASE bb.idxplus1[fd] # 0
  <2>1. /\ bb.idxplus1[fd] \in DOMAIN bb.changes
        /\ bb.changes[bb.idxplus1[fd]].fd = fd /\ bb.changes \in Seq(Change)
    BY <1>2 DEF Pointed, TypedBase
  <2>2. bb.changes[bb.idxplus1[fd]] \in Change
    BY <2>1
  <2>3. QED
    BY <1>2, <2>1, <2>2 DEF Before, ChangeOf
<1>3. QED
  BY <1>1, <1>2

LEMMA ListAdd ==
    ASSUME NEW bb, TypedBase(bb), Pointed(bb), NEW fd \in Fd, NEW old \in SUBSET Kinds,
           NEW events \in SUBSET Kinds
    PROVE  Listed(event_changelist_add(bb, fd, old, events), bb, fd,
                  AddedTo(Before(bb, fd, old), events))
<1> DEFINE c == event_changelist_get_or_construct(bb, fd, old)
           ch == Before(bb, fd, old)
           how == [d \in Kinds |-> IF d \in events THEN "add" ELSE ch.change[d]]
           u == event_changelist_add(bb, fd, old, events)
<1>1. Listed(c, bb, fd, ch)
  BY Constructed
<1>2. TypedBase(c) /\ Pointed(c) /\ c.idxplus1[fd] # 0 /\ ChangeOf(c, fd) = ch
  BY <1>1 DEF Listed
<1>3. how \in [Kinds -> {"add", "del", "none"}]
  BY BeforeTyped DEF Change
<1>4. c.idxplus1[fd] \in DOMAIN c.changes /\ c.changes \in Seq(Change)
  BY <1>2 DEF Pointed, TypedBase
<1>5. u = [c EXCEPT !.changes[c.idxplus1[fd]].change = how]
  <2> HIDE DEF c, ch
  <2>1. DOMAIN c = BaseFields /\ c.changes[c.idxplus1[fd]] = ch
    BY <1>2 DEF TypedBase, ChangeOf
  <2>2. u = [c EXCEPT !.changes[c.idxplus1[fd]].change =
               [d \in Kinds |-> IF d \in events THEN "add" ELSE @[d]]]
    BY DEF event_changelist_add, c
  <2>3. ch \in Change
    BY BeforeTyped DEF ch
  <2>4. QED
    BY <1>4, <2>1, <2>2, <2>3 DEF BaseFields, Change
<1> HIDE DEF c, u, how, ch
<1>6. Listed(u, c, fd, [ch EXCEPT !.change = how])
  BY <1>2, <1>3, <1>5, Rewritten
<1>7. Listed(u, bb, fd, [ch EXCEPT !.change = how])
  BY <1>1, <1>6, ListedAgain
<1>8. QED
  BY <1>7 DEF AddedTo, u, how, ch

LEMMA ListDel ==
    ASSUME NEW bb, TypedBase(bb), Pointed(bb), NEW fd \in Fd, NEW old \in SUBSET Kinds,
           NEW events \in SUBSET Kinds
    PROVE  Listed(event_changelist_del(bb, fd, old, events), bb, fd,
                  DeletedFrom(Before(bb, fd, old), events))
<1> DEFINE c == event_changelist_get_or_construct(bb, fd, old)
           ch == Before(bb, fd, old)
           how == [d \in Kinds |->
                     IF d \notin events THEN ch.change[d]
                     ELSE IF d \notin ch.old /\ ch.change[d] = "add" THEN "none" ELSE "del"]
           u == event_changelist_del(bb, fd, old, events)
<1>1. Listed(c, bb, fd, ch)
  BY Constructed
<1>2. TypedBase(c) /\ Pointed(c) /\ c.idxplus1[fd] # 0 /\ ChangeOf(c, fd) = ch
  BY <1>1 DEF Listed
<1>3. how \in [Kinds -> {"add", "del", "none"}]
  BY BeforeTyped DEF Change
<1>4. c.idxplus1[fd] \in DOMAIN c.changes /\ c.changes \in Seq(Change)
  BY <1>2 DEF Pointed, TypedBase
<1>5. u = [c EXCEPT !.changes[c.idxplus1[fd]].change = how]
  <2> HIDE DEF c, ch
  <2>1. DOMAIN c = BaseFields /\ c.changes[c.idxplus1[fd]] = ch
    BY <1>2 DEF TypedBase, ChangeOf
  <2>2. u = [c EXCEPT !.changes[c.idxplus1[fd]].change =
               [d \in Kinds |->
                  IF d \notin events THEN @[d]
                  ELSE IF d \notin c.changes[c.idxplus1[fd]].old /\ @[d] = "add"
                       THEN "none" ELSE "del"]]
    BY DEF event_changelist_del, c
  <2>3. ch \in Change
    BY BeforeTyped DEF ch
  <2>4. QED
    BY <1>4, <2>1, <2>2, <2>3 DEF BaseFields, Change
<1> HIDE DEF c, u, how, ch
<1>6. Listed(u, c, fd, [ch EXCEPT !.change = how])
  BY <1>2, <1>3, <1>5, Rewritten
<1>7. Listed(u, bb, fd, [ch EXCEPT !.change = how])
  BY <1>1, <1>6, ListedAgain
<1>8. QED
  BY <1>7 DEF DeletedFrom, u, how, ch

-----------------------------------------------------------------------------
(* What the kernel was told, or will be by the change, of a descriptor     *)
(* that is watched for want.                                               *)
Told(bb, kk, fd, want) ==
    IF bb.idxplus1[fd] = 0
    THEN kk.file[fd] # Closed => At(kk, fd) = want
    ELSE /\ want = Remaining(ChangeOf(bb, fd))
         /\ kk.file[fd] # Closed => Fits(kk, ChangeOf(bb, fd))

(* A change keeps adding up what is watched, and fitting what the kernel   *)
(* has.                                                                    *)
LEMMA ChangeAddsUp ==
    ASSUME NEW ch \in Change, NEW events \in SUBSET Kinds, NEW kk
    PROVE  /\ AddedTo(ch, events) \in Change /\ DeletedFrom(ch, events) \in Change
           /\ Remaining(AddedTo(ch, events)) = Remaining(ch) \cup events
           /\ Remaining(DeletedFrom(ch, events)) = Remaining(ch) \ events
           /\ Fits(kk, ch) => /\ Fits(kk, AddedTo(ch, events))
                              /\ Fits(kk, DeletedFrom(ch, events))
<1> DEFINE a == AddedTo(ch, events)
           c == DeletedFrom(ch, events)
<1>1. /\ ch.fd \in Fd /\ ch.old \in SUBSET Kinds
      /\ ch.change \in [Kinds -> {"add", "del", "none"}]
  BY DEF Change
<1>2. /\ a \in Change /\ a.fd = ch.fd /\ a.old = ch.old
      /\ \A d \in Kinds : a.change[d] = IF d \in events THEN "add" ELSE ch.change[d]
  BY DEF AddedTo, Change
<1>3. /\ c \in Change /\ c.fd = ch.fd /\ c.old = ch.old
      /\ \A d \in Kinds : c.change[d] =
            IF d \notin events THEN ch.change[d]
            ELSE IF d \notin ch.old /\ ch.change[d] = "add" THEN "none" ELSE "del"
  BY DEF DeletedFrom, Change
<1> HIDE DEF a, c
<1>4. Remaining(a) = Remaining(ch) \cup events
  BY <1>1, <1>2 DEF Remaining
<1>5. Remaining(c) = Remaining(ch) \ events
  BY <1>1, <1>3 DEF Remaining
<1>6. ASSUME Fits(kk, ch) PROVE Fits(kk, a) /\ Fits(kk, c)
  BY <1>1, <1>2, <1>3, <1>6 DEF Fits
<1>7. QED
  BY <1>2, <1>3, <1>4, <1>5, <1>6 DEF a, c

LEMMA BeforeTold ==
    ASSUME NEW bb, NEW kk, NEW fd \in Fd, NEW old \in SUBSET Kinds, Told(bb, kk, fd, old)
    PROVE  /\ Remaining(Before(bb, fd, old)) = old
           /\ kk.file[fd] # Closed => Fits(kk, Before(bb, fd, old))
<1>1. CASE bb.idxplus1[fd] = 0
  <2> DEFINE ch == [fd |-> fd, old |-> old, change |-> [d \in Kinds |-> "none"]]
  <2>1. Before(bb, fd, old) = ch
    BY <1>1 DEF Before
  <2>2. Remaining(ch) = old
    BY DEF Remaining
  <2>3. kk.file[fd] # Closed => At(kk, fd) = old
    BY <1>1 DEF Told
  <2>4. QED
    BY <2>1, <2>2, <2>3 DEF Fits
<1>2. CASE bb.idxplus1[fd] # 0
  BY <1>2 DEF Before, Told
<1>3. QED
  BY <1>1, <1>2

(* What the backend does with an open descriptor that was watched for old  *)
(* and is to be watched for want.                                          *)
Unlisted(bb) == ~Changelist => \A fd \in Fd : bb.idxplus1[fd] = 0

OtherItems(u, kk, fd) ==
    /\ TypedKernel(u) /\ u.file = kk.file /\ u.held = kk.held
    /\ \A g \in Fd, f \in File :
          g # fd \/ f # kk.file[fd] => u.item[g][f] = kk.item[g][f]

OtherChanges(u, bb, fd) ==
    \A g \in Fd \ {fd} :
       /\ u.idxplus1[g] = bb.idxplus1[g]
       /\ bb.idxplus1[g] # 0 => ChangeOf(u, g) = ChangeOf(bb, g)

Asked(x, bb, kk, fd, old, want) ==
    /\ TypedBase(x.b) /\ Pointed(x.b) /\ Unlisted(x.b) /\ SameEvents(x.b, bb)
    /\ OtherItems(x.k, kk, fd) /\ OtherChanges(x.b, bb, fd)
    /\ x.r \in {0, -1}
    /\ x.r = -1 => x.b = bb /\ x.k = kk
    /\ x.r = 0 /\ ~Changelist => kk.file[fd] \notin Refused
    /\ x.r = 0 /\ Told(bb, kk, fd, old) => Told(x.b, x.k, fd, want)

LEMMA InterestOthers ==
    ASSUME NEW kk, TypedKernel(kk), NEW fd \in Fd, kk.file[fd] \in File,
           NEW s \in SUBSET Kinds
    PROVE  /\ OtherItems(Interest(kk, fd, s), kk, fd)
           /\ At(Interest(kk, fd, s), fd) = s
<1> DEFINE item == [kk.item EXCEPT ![fd][kk.file[fd]] = s]
           u == Interest(kk, fd, s)
<1>1. TypedKernel(u)
  BY InterestTyped
<1>2. u.item = item /\ u.file = kk.file /\ u.held = kk.held
  BY DEF TypedKernel, Interest
<1>3. /\ item[fd][kk.file[fd]] = s
      /\ \A g \in Fd, f \in File :
            g # fd \/ f # kk.file[fd] => item[g][f] = kk.item[g][f]
  BY DEF TypedKernel
<1> HIDE DEF item, u
<1>4. QED
  BY <1>1, <1>2, <1>3 DEF OtherItems, At, u

(* One change of a descriptor without a change, made at once.              *)
LEMMA AskedAtOnce ==
    ASSUME FileAssumption, ~Changelist, NEW bb, TypedBase(bb), Pointed(bb), Unlisted(bb),
           NEW kk, TypedKernel(kk), NEW ch \in Change, kk.file[ch.fd] # Closed,
           NEW u, u = epoll_apply_one_change(kk, ch),
           Touches(ch, "add") \/ kk.file[ch.fd] \notin Refused,
           NEW x, x = [b |-> bb, k |-> u.k, r |-> u.r]
    PROVE  /\ Asked(x, bb, kk, ch.fd, ch.old, Remaining(ch))
           /\ kk.file[ch.fd] \notin Refused => x.r = 0
<1> DEFINE fd == ch.fd
           f == kk.file[fd]
<1>1. fd \in Fd /\ f \in File /\ ch.old \in SUBSET Kinds
  BY DEF Change, TypedKernel
<1>2. Applied(u, kk, ch)
  BY OneChange
<1>3. x.b = bb /\ x.k = u.k /\ x.r = u.r
  OBVIOUS
<1>4. OtherItems(kk, kk, fd) /\ OtherChanges(bb, bb, fd) /\ SameEvents(bb, bb)
  BY DEF OtherItems, OtherChanges, SameEvents
<1>5. CASE f \in Refused
  <2>1. u.k = kk /\ u.r = -1
    BY <1>2, <1>5 DEF Applied
  <2>2. QED
    BY <1>3, <1>4, <1>5, <2>1 DEF Asked
<1>6. CASE f \notin Refused
  <2>1. PICK s \in SUBSET Kinds :
          u.k = Interest(kk, fd, s) /\ (Fits(kk, ch) => s = Remaining(ch))
    BY <1>1, <1>2, <1>6 DEF Applied
  <2>2. u.r = 0
    BY <1>1, <1>2, <1>6 DEF Applied
  <2>3. OtherItems(u.k, kk, fd) /\ At(u.k, fd) = s
    BY <1>1, <2>1, InterestOthers
  <2>4. ASSUME Told(bb, kk, fd, ch.old) PROVE Told(bb, u.k, fd, Remaining(ch))
    <3>1. bb.idxplus1[fd] = 0
      BY <1>1 DEF Unlisted
    <3>2. At(kk, fd) = ch.old
      BY <2>4, <3>1 DEF Told
    <3>3. s = Remaining(ch)
      BY <2>1, <3>2 DEF Fits
    <3>4. QED
      BY <2>3, <3>1, <3>3 DEF Told
  <2>5. QED
    BY <1>3, <1>4, <1>6, <2>2, <2>3, <2>4 DEF Asked
<1>7. QED
  BY <1>5, <1>6

LEMMA BackendAdds ==
    ASSUME FileAssumption, NEW bb, TypedBase(bb), Pointed(bb), Unlisted(bb),
           NEW kk, TypedKernel(kk), NEW fd \in Fd, kk.file[fd] # Closed,
           NEW old \in SUBSET Kinds, NEW events \in SUBSET Kinds, events # {}
    PROVE  Asked(backend_add(bb, kk, fd, old, events), bb, kk, fd, old, old \cup events)
<1> DEFINE x == backend_add(bb, kk, fd, old, events)
<1>1. CASE Changelist
  <2> DEFINE u == event_changelist_add(bb, fd, old, events)
             ch == Before(bb, fd, old)
  <2>1. x = [b |-> u, k |-> kk, r |-> 0]
    BY <1>1 DEF backend_add
  <2>2. Listed(u, bb, fd, AddedTo(ch, events))
    BY ListAdd
  <2>3. ch \in Change /\ ch.fd = fd
    BY BeforeTyped
  <2>4. /\ Remaining(AddedTo(ch, events)) = Remaining(ch) \cup events
        /\ Fits(kk, ch) => Fits(kk, AddedTo(ch, events))
    BY <2>3, ChangeAddsUp
  <2>5. Told(bb, kk, fd, old) =>
          Remaining(ch) = old /\ (kk.file[fd] # Closed => Fits(kk, ch))
    BY BeforeTold
  <2> HIDE DEF u, ch, x
  <2>6. x.b = u /\ x.k = kk /\ x.r = 0
    BY <2>1
  <2>7. OtherItems(kk, kk, fd) /\ OtherChanges(u, bb, fd) /\ Unlisted(u)
    BY <1>1, <2>2 DEF OtherItems, OtherChanges, Unlisted, Listed
  <2>8. Told(bb, kk, fd, old) => Told(u, kk, fd, old \cup events)
    BY <2>2, <2>4, <2>5 DEF Told, Listed
  <2>9. TypedBase(u) /\ Pointed(u) /\ SameEvents(u, bb)
    BY <2>2 DEF Listed
  <2>10. Asked(x, bb, kk, fd, old, old \cup events)
    BY <1>1, <2>6, <2>7, <2>8, <2>9 DEF Asked
  <2>11. QED
    BY <2>10 DEF x
<1>2. CASE ~Changelist
  <2> DEFINE ch == [fd |-> fd, old |-> old,
                    change |-> [d \in Kinds |-> IF d \in events THEN "add" ELSE "none"]]
             u == epoll_apply_one_change(kk, ch)
  <2>1. x = [b |-> bb, k |-> u.k, r |-> u.r]
    BY <1>2 DEF backend_add, epoll_nochangelist
  <2>2. ch \in Change /\ ch.fd = fd /\ ch.old = old
    BY DEF Change
  <2>3. Remaining(ch) = old \cup events /\ Touches(ch, "add")
    BY DEF Remaining, Touches
  <2> HIDE DEF u, ch
  <2>4. Asked(x, bb, kk, ch.fd, ch.old, Remaining(ch))
    BY <1>2, <2>1, <2>2, <2>3, AskedAtOnce DEF u
  <2>5. QED
    BY <2>2, <2>3, <2>4
<1>3. QED
  BY <1>1, <1>2

LEMMA BackendDeletes ==
    ASSUME FileAssumption, NEW bb, TypedBase(bb), Pointed(bb), Unlisted(bb),
           NEW kk, TypedKernel(kk), NEW fd \in Fd, kk.file[fd] # Closed,
           ~Changelist => kk.file[fd] \notin Refused,
           NEW old \in SUBSET Kinds, NEW events \in SUBSET Kinds, events # {}
    PROVE  /\ Asked(backend_del(bb, kk, fd, old, events), bb, kk, fd, old, old \ events)
           /\ backend_del(bb, kk, fd, old, events).r = 0
<1> DEFINE x == backend_del(bb, kk, fd, old, events)
<1>1. CASE Changelist
  <2> DEFINE u == event_changelist_del(bb, fd, old, events)
             ch == Before(bb, fd, old)
  <2>1. x = [b |-> u, k |-> kk, r |-> 0]
    BY <1>1 DEF backend_del
  <2>2. Listed(u, bb, fd, DeletedFrom(ch, events))
    BY ListDel
  <2>3. ch \in Change /\ ch.fd = fd
    BY BeforeTyped
  <2>4. /\ Remaining(DeletedFrom(ch, events)) = Remaining(ch) \ events
        /\ Fits(kk, ch) => Fits(kk, DeletedFrom(ch, events))
    BY <2>3, ChangeAddsUp
  <2>5. Told(bb, kk, fd, old) =>
          Remaining(ch) = old /\ (kk.file[fd] # Closed => Fits(kk, ch))
    BY BeforeTold
  <2> HIDE DEF u, ch, x
  <2>6. x.b = u /\ x.k = kk /\ x.r = 0
    BY <2>1
  <2>7. OtherItems(kk, kk, fd) /\ OtherChanges(u, bb, fd) /\ Unlisted(u)
    BY <1>1, <2>2 DEF OtherItems, OtherChanges, Unlisted, Listed
  <2>8. Told(bb, kk, fd, old) => Told(u, kk, fd, old \ events)
    BY <2>2, <2>4, <2>5 DEF Told, Listed
  <2>9. TypedBase(u) /\ Pointed(u) /\ SameEvents(u, bb)
    BY <2>2 DEF Listed
  <2>10. Asked(x, bb, kk, fd, old, old \ events)
    BY <1>1, <2>6, <2>7, <2>8, <2>9 DEF Asked
  <2>11. QED
    BY <2>6, <2>10 DEF x
<1>2. CASE ~Changelist
  <2> DEFINE ch == [fd |-> fd, old |-> old,
                    change |-> [d \in Kinds |-> IF d \in events THEN "del" ELSE "none"]]
             u == epoll_apply_one_change(kk, ch)
  <2>1. x = [b |-> bb, k |-> u.k, r |-> u.r]
    BY <1>2 DEF backend_del, epoll_nochangelist
  <2>2. ch \in Change /\ ch.fd = fd /\ ch.old = old
    BY DEF Change
  <2>3. Remaining(ch) = old \ events
    BY DEF Remaining
  <2> HIDE DEF u, ch
  <2>4. /\ Asked(x, bb, kk, ch.fd, ch.old, Remaining(ch))
        /\ x.r = 0
    BY <1>2, <2>1, <2>2, AskedAtOnce DEF u
  <2>5. QED
    BY <2>2, <2>3, <2>4
<1>3. QED
  BY <1>1, <1>2

-----------------------------------------------------------------------------
(* evmap.c                                                                 *)

(* The list of a descriptor has the added events on it, and its counts     *)
(* count them.                                                             *)
Wanting(bb, fd, d) == {e \in bb.events[fd] : d \in KindOf[e]}
Counted(bb, fd) ==
    /\ bb.events[fd] = {e \in bb.inserted : FdOf[e] = fd}
    /\ IsFiniteSet(bb.events[fd])
    /\ \A d \in Kinds : bb.n[fd][d] = Cardinality(Wanting(bb, fd, d))

LEMMA WatchedIsWanted ==
    ASSUME NEW bb, TypedBase(bb), NEW fd \in Fd, Counted(bb, fd)
    PROVE  /\ Watched(bb, fd) \in SUBSET Kinds
           /\ \A d \in Kinds : d \in Watched(bb, fd) <=> Wanting(bb, fd, d) # {}
           /\ \A d \in Kinds : IsFiniteSet(Wanting(bb, fd, d))
<1>1. ASSUME NEW d \in Kinds
      PROVE  /\ IsFiniteSet(Wanting(bb, fd, d))
             /\ bb.n[fd][d] > 0 <=> Wanting(bb, fd, d) # {}
  <2>1. IsFiniteSet(Wanting(bb, fd, d))
    BY FS_Subset DEF Counted, Wanting
  <2>2. bb.n[fd][d] = Cardinality(Wanting(bb, fd, d)) /\ bb.n[fd][d] \in Nat
    BY DEF Counted, TypedBase
  <2>3. Cardinality(Wanting(bb, fd, d)) = 0 <=> Wanting(bb, fd, d) = {}
    BY <2>1, FS_EmptySet
  <2>4. QED
    BY <2>1, <2>2, <2>3
<1>2. QED
  BY <1>1 DEF Watched

EventsInv(bb) ==
    TypedBase(bb) /\ Pointed(bb) /\ Unlisted(bb) /\ \A fd \in Fd : Counted(bb, fd)

(* u is v with e on its list and counted, or without it.                   *)
SameRest(u, v, fd) ==
    /\ TypedBase(u) /\ u.changes = v.changes /\ u.idxplus1 = v.idxplus1
    /\ u.freed = v.freed /\ u.active = v.active
    /\ \A g \in Fd \ {fd} : u.n[g] = v.n[g]

LEMMA Joins ==
    ASSUME EvAssumption, KindAssumption, NEW v, TypedBase(v), \A g \in Fd : Counted(v, g),
           NEW e \in Ev, e \notin v.inserted,
           NEW u, u = [[Count(v, e, 1) EXCEPT !.events[FdOf[e]] = @ \cup {e}]
                       EXCEPT !.inserted = @ \cup {e}]
    PROVE  /\ SameRest(u, v, FdOf[e]) /\ u.inserted = v.inserted \cup {e}
           /\ \A g \in Fd : Counted(u, g)
           /\ Watched(u, FdOf[e]) = Watched(v, FdOf[e]) \cup KindOf[e]
<1> DEFINE fd == FdOf[e]
           row == [d \in Kinds |-> IF d \in KindOf[e] THEN v.n[fd][d] + 1 ELSE v.n[fd][d]]
           n == [v.n EXCEPT ![fd] = row]
           list == [v.events EXCEPT ![fd] = v.events[fd] \cup {e}]
<1>1. fd \in Fd /\ KindOf[e] \in SUBSET Kinds
  BY DEF EvAssumption, KindAssumption, Kinds
<1>2. /\ v.events \in [Fd -> SUBSET Ev] /\ v.n \in [Fd -> [Kinds -> Nat]]
      /\ v.inserted \subseteq Ev
  BY DEF TypedBase
<1>3. row \in [Kinds -> Nat]
  BY <1>1, <1>2
<1>4. u = [v EXCEPT !.n = n, !.events = list, !.inserted = v.inserted \cup {e}]
  BY <1>1, <1>2 DEF Count, TypedBase, BaseFields
<1>5. n \in [Fd -> [Kinds -> Nat]] /\ list \in [Fd -> SUBSET Ev]
  BY <1>1, <1>2, <1>3
<1>6. /\ n[fd] = row /\ list[fd] = v.events[fd] \cup {e}
      /\ \A g \in Fd \ {fd} : n[g] = v.n[g] /\ list[g] = v.events[g]
  BY <1>1, <1>2
<1> HIDE DEF row, n, list
<1>7. /\ DOMAIN u = BaseFields /\ u.events = list /\ u.n = n
      /\ u.inserted = v.inserted \cup {e} /\ u.changes = v.changes
      /\ u.idxplus1 = v.idxplus1 /\ u.freed = v.freed /\ u.active = v.active
  BY <1>4 DEF TypedBase, BaseFields
<1>8. SameRest(u, v, fd)
  BY <1>2, <1>5, <1>6, <1>7 DEF SameRest, TypedBase
<1>9. \A g \in Fd : u.events[g] = {f \in u.inserted : FdOf[f] = g}
  <2>1. \A g \in Fd : v.events[g] = {f \in v.inserted : FdOf[f] = g}
    BY DEF Counted
  <2>2. u.events[fd] = {f \in u.inserted : FdOf[f] = fd}
    BY <1>1, <1>6, <1>7, <2>1
  <2>3. ASSUME NEW g \in Fd \ {fd} PROVE u.events[g] = {f \in u.inserted : FdOf[f] = g}
    <3>1. u.events[g] = {f \in v.inserted : FdOf[f] = g}
      BY <1>6, <1>7, <2>1
    <3>2. QED
      BY <1>7, <3>1
  <2>4. QED
    BY <2>2, <2>3
<1>10. \A g \in Fd : IsFiniteSet(u.events[g])
  <2>1. IsFiniteSet(v.events[fd] \cup {e})
    BY <1>1, FS_AddElement DEF Counted
  <2>2. QED
    BY <1>6, <1>7, <2>1 DEF Counted
<1>11. ASSUME NEW d \in Kinds
       PROVE  /\ u.n[fd][d] = Cardinality(Wanting(u, fd, d))
              /\ d \in Watched(u, fd) <=> d \in Watched(v, fd) \cup KindOf[e]
  <2>1. IsFiniteSet(Wanting(v, fd, d)) /\ e \notin Wanting(v, fd, d)
    BY <1>1, WatchedIsWanted DEF Wanting, Counted
  <2>2. /\ v.n[fd][d] = Cardinality(Wanting(v, fd, d)) /\ v.n[fd][d] \in Nat
    BY <1>1, <1>2 DEF Counted
  <2>3. CASE d \in KindOf[e]
    <3>1. Wanting(u, fd, d) = Wanting(v, fd, d) \cup {e}
      BY <1>6, <1>7, <2>3 DEF Wanting
    <3>2. Cardinality(Wanting(u, fd, d)) = v.n[fd][d] + 1
      BY <2>1, <2>2, <3>1, FS_AddElement
    <3>3. u.n[fd][d] = v.n[fd][d] + 1
      BY <1>6, <1>7, <2>3 DEF row
    <3>4. QED
      BY <2>2, <2>3, <3>2, <3>3 DEF Watched
  <2>4. CASE d \notin KindOf[e]
    <3>1. Wanting(u, fd, d) = Wanting(v, fd, d)
      BY <1>6, <1>7, <2>4 DEF Wanting
    <3>2. u.n[fd][d] = v.n[fd][d]
      BY <1>6, <1>7, <2>4 DEF row
    <3>3. QED
      BY <2>2, <2>4, <3>1, <3>2 DEF Watched
  <2>5. QED
    BY <2>3, <2>4
<1>12. ASSUME NEW g \in Fd \ {fd}, NEW d \in Kinds
       PROVE  u.n[g][d] = Cardinality(Wanting(u, g, d))
  <2>1. Wanting(u, g, d) = Wanting(v, g, d) /\ u.n[g][d] = v.n[g][d]
    BY <1>6, <1>7 DEF Wanting
  <2>2. QED
    BY <2>1 DEF Counted
<1>13. \A g \in Fd : Counted(u, g)
  BY <1>9, <1>10, <1>11, <1>12 DEF Counted
<1>14. Watched(u, fd) = Watched(v, fd) \cup KindOf[e]
  <2>1. Watched(u, fd) \subseteq Kinds /\ Watched(v, fd) \cup KindOf[e] \subseteq Kinds
    BY <1>1 DEF Watched
  <2>2. QED
    BY <1>11, <2>1
<1>15. QED
  BY <1>7, <1>8, <1>13, <1>14

Without(v, e) == [Count(v, e, -1) EXCEPT !.events[FdOf[e]] = @ \ {e}]

LEMMA Leaves ==
    ASSUME EvAssumption, KindAssumption, NEW bb, TypedBase(bb),
           \A g \in Fd : Counted(bb, g), NEW e \in bb.inserted,
           NEW v, TypedBase(v), v.events = bb.events, v.n = bb.n,
           v.inserted = bb.inserted \ {e},
           NEW u, u = Without(v, e)
    PROVE  /\ SameRest(u, v, FdOf[e]) /\ u.inserted = v.inserted
           /\ \A g \in Fd : Counted(u, g)
           /\ Watched(u, FdOf[e]) =
                Watched(bb, FdOf[e]) \ {d \in KindOf[e] : bb.n[FdOf[e]][d] = 1}
<1> DEFINE fd == FdOf[e]
           row == [d \in Kinds |-> IF d \in KindOf[e] THEN v.n[fd][d] + -1 ELSE v.n[fd][d]]
           n == [v.n EXCEPT ![fd] = row]
           list == [v.events EXCEPT ![fd] = v.events[fd] \ {e}]
           res == {d \in KindOf[e] : bb.n[fd][d] = 1}
<1>1. fd \in Fd /\ KindOf[e] \in SUBSET Kinds /\ e \in Ev
  BY DEF EvAssumption, KindAssumption, Kinds, TypedBase
<1>2. /\ v.events \in [Fd -> SUBSET Ev] /\ v.n \in [Fd -> [Kinds -> Nat]]
      /\ bb.inserted \subseteq Ev
  BY DEF TypedBase
<1>3. ASSUME NEW d \in Kinds
      PROVE  /\ IsFiniteSet(Wanting(bb, fd, d))
             /\ bb.n[fd][d] = Cardinality(Wanting(bb, fd, d)) /\ bb.n[fd][d] \in Nat
             /\ d \in KindOf[e] => e \in Wanting(bb, fd, d) /\ bb.n[fd][d] > 0
  <2>1. IsFiniteSet(Wanting(bb, fd, d))
    BY <1>1, WatchedIsWanted
  <2>2. bb.n[fd][d] = Cardinality(Wanting(bb, fd, d)) /\ bb.n[fd][d] \in Nat
    BY <1>1, <1>2 DEF Counted
  <2>3. d \in KindOf[e] => e \in Wanting(bb, fd, d)
    BY <1>1 DEF Counted, Wanting
  <2>4. QED
    BY <2>1, <2>2, <2>3, FS_EmptySet
<1>4. row \in [Kinds -> Nat]
  <2>1. \A d \in Kinds : row[d] \in Nat
    BY <1>1, <1>2, <1>3
  <2>2. QED
    BY <2>1
<1>5. u = [v EXCEPT !.n = n, !.events = list]
  BY <1>1, <1>2 DEF Without, Count, TypedBase, BaseFields
<1>6. n \in [Fd -> [Kinds -> Nat]] /\ list \in [Fd -> SUBSET Ev]
  BY <1>1, <1>2, <1>4
<1>7. /\ n[fd] = row /\ list[fd] = v.events[fd] \ {e}
      /\ \A g \in Fd \ {fd} : n[g] = v.n[g] /\ list[g] = v.events[g]
  BY <1>1, <1>2
<1> HIDE DEF row, n, list
<1>8. /\ DOMAIN u = BaseFields /\ u.events = list /\ u.n = n
      /\ u.inserted = v.inserted /\ u.changes = v.changes
      /\ u.idxplus1 = v.idxplus1 /\ u.freed = v.freed /\ u.active = v.active
  BY <1>5 DEF TypedBase, BaseFields
<1>9. SameRest(u, v, fd)
  BY <1>2, <1>6, <1>7, <1>8 DEF SameRest, TypedBase
<1>10. \A g \in Fd : u.events[g] = {f \in u.inserted : FdOf[f] = g}
  <2>1. \A g \in Fd : v.events[g] = {f \in bb.inserted : FdOf[f] = g}
    BY DEF Counted
  <2>2. u.events[fd] = {f \in u.inserted : FdOf[f] = fd}
    BY <1>1, <1>7, <1>8, <2>1
  <2>3. ASSUME NEW g \in Fd \ {fd} PROVE u.events[g] = {f \in u.inserted : FdOf[f] = g}
    <3>1. u.events[g] = {f \in bb.inserted : FdOf[f] = g}
      BY <1>7, <1>8, <2>1
    <3>2. QED
      BY <1>8, <3>1
  <2>4. QED
    BY <2>2, <2>3
<1>11. \A g \in Fd : IsFiniteSet(u.events[g])
  <2>1. IsFiniteSet(v.events[fd] \ {e})
    BY <1>1, FS_RemoveElement DEF Counted
  <2>2. QED
    BY <1>7, <1>8, <2>1 DEF Counted
<1>12. ASSUME NEW d \in Kinds
       PROVE  /\ u.n[fd][d] = Cardinality(Wanting(u, fd, d))
              /\ d \in Watched(u, fd) <=> d \in Watched(bb, fd) \ res
  <2>1. /\ IsFiniteSet(Wanting(bb, fd, d))
        /\ bb.n[fd][d] = Cardinality(Wanting(bb, fd, d)) /\ bb.n[fd][d] \in Nat
    BY <1>3
  <2>2. CASE d \in KindOf[e]
    <3>1. Wanting(u, fd, d) = Wanting(bb, fd, d) \ {e} /\ e \in Wanting(bb, fd, d)
      BY <1>3, <1>7, <1>8, <2>2 DEF Wanting
    <3>2. Cardinality(Wanting(u, fd, d)) = bb.n[fd][d] - 1
      <4> DEFINE S == Wanting(bb, fd, d)
      <4>1. IsFiniteSet(S) /\ e \in S
        BY <2>1, <3>1
      <4> HIDE DEF S
      <4>2. Cardinality(S \ {e}) = Cardinality(S) - 1
        BY <4>1, FS_RemoveElement
      <4>3. QED
        BY <2>1, <3>1, <4>2 DEF S
    <3>3. u.n[fd][d] = bb.n[fd][d] - 1
      BY <1>7, <1>8, <2>1, <2>2 DEF row
    <3>4. QED
      BY <1>3, <2>1, <2>2, <3>2, <3>3 DEF Watched
  <2>3. CASE d \notin KindOf[e]
    <3>1. Wanting(u, fd, d) = Wanting(bb, fd, d)
      BY <1>7, <1>8, <2>3 DEF Wanting
    <3>2. u.n[fd][d] = bb.n[fd][d]
      BY <1>7, <1>8, <2>3 DEF row
    <3>3. QED
      BY <2>1, <2>3, <3>1, <3>2 DEF Watched
  <2>4. QED
    BY <2>2, <2>3
<1>13. ASSUME NEW g \in Fd \ {fd}, NEW d \in Kinds
       PROVE  u.n[g][d] = Cardinality(Wanting(u, g, d))
  <2>1. Wanting(u, g, d) = Wanting(bb, g, d) /\ u.n[g][d] = bb.n[g][d]
    BY <1>7, <1>8 DEF Wanting
  <2>2. QED
    BY <2>1 DEF Counted
<1>14. \A g \in Fd : Counted(u, g)
  BY <1>10, <1>11, <1>12, <1>13 DEF Counted
<1>15. Watched(u, fd) = Watched(bb, fd) \ res
  <2>1. Watched(u, fd) \subseteq Kinds /\ Watched(bb, fd) \subseteq Kinds
    BY DEF Watched
  <2>2. QED
    BY <1>12, <2>1
<1>16. QED
  BY <1>8, <1>9, <1>14, <1>15

-----------------------------------------------------------------------------
(* event.c: the base and the kernel before and after a call about an event *)
(* on fd.  An added event is on an open descriptor that epoll takes, or is *)
(* in the changelist.                                                      *)
Sound(bb, kk) ==
    /\ EventsInv(bb) /\ TypedKernel(kk)
    /\ \A e \in bb.inserted : /\ kk.file[FdOf[e]] # Closed
                              /\ ~Changelist => kk.file[FdOf[e]] \notin Refused

OnFd(x, bb, kk, fd) ==
    /\ Sound(x.b, x.k) /\ OtherItems(x.k, kk, fd) /\ OtherChanges(x.b, bb, fd)
    /\ \A g \in Fd \ {fd} : x.b.n[g] = bb.n[g]
    /\ Told(bb, kk, fd, Watched(bb, fd)) => Told(x.b, x.k, fd, Watched(x.b, fd))

(* Only the active and the freed events change.                            *)
LEMMA NothingOnFd ==
    ASSUME NEW bb, NEW kk, Sound(bb, kk), NEW fd \in Fd, NEW u, DOMAIN u = BaseFields,
           u.events = bb.events, u.n = bb.n, u.inserted = bb.inserted,
           u.idxplus1 = bb.idxplus1, u.changes = bb.changes,
           u.active \subseteq Ev, u.freed \subseteq Ev,
           NEW x, x.b = u, x.k = kk
    PROVE  OnFd(x, bb, kk, fd)
<1>1. TypedBase(u)
  BY DEF Sound, EventsInv, TypedBase
<1>2. Pointed(u) /\ Unlisted(u)
  BY DEF Sound, EventsInv, Pointed, Unlisted
<1>3. \A g \in Fd : Counted(u, g)
  BY DEF Sound, EventsInv, Counted, Wanting
<1>4. OtherItems(kk, kk, fd) /\ OtherChanges(u, bb, fd)
  BY DEF Sound, OtherItems, OtherChanges, ChangeOf
<1>5. Watched(u, fd) = Watched(bb, fd)
  BY DEF Watched
<1>6. Told(bb, kk, fd, Watched(bb, fd)) => Told(u, kk, fd, Watched(u, fd))
  BY <1>5 DEF Told, ChangeOf
<1>7. Sound(u, kk)
  BY <1>1, <1>2, <1>3 DEF Sound, EventsInv
<1>8. QED
  BY <1>4, <1>6, <1>7 DEF OnFd

LEMMA EventAdds ==
    ASSUME EvAssumption, KindAssumption, FileAssumption, NEW bb, NEW kk, Sound(bb, kk),
           NEW e \in Ev, kk.file[FdOf[e]] # Closed
    PROVE  /\ OnFd(event_add(bb, kk, e), bb, kk, FdOf[e])
           /\ event_add(bb, kk, e).b.freed = bb.freed
           /\ event_add(bb, kk, e).b.active = bb.active
           /\ event_add(bb, kk, e).b.inserted \subseteq bb.inserted \cup {e}
<1> DEFINE x == event_add(bb, kk, e)
           fd == FdOf[e]
           old == Watched(bb, fd)
           res == KindOf[e] \ old
           still(r) == [b |-> bb, k |-> kk, r |-> r]
           y == IF TooMany(bb, e) THEN still(-1)
                ELSE IF res = {} THEN still(0) ELSE backend_add(bb, kk, fd, old, res)
           z == evmap_io_add(bb, kk, e)
<1>1. /\ fd \in Fd /\ KindOf[e] \in SUBSET Kinds /\ KindOf[e] # {}
      /\ old \in SUBSET Kinds /\ res \in SUBSET Kinds
  BY DEF EvAssumption, KindAssumption, Kinds, Watched
<1>2. TypedBase(bb) /\ Pointed(bb) /\ Unlisted(bb) /\ TypedKernel(kk) /\ Counted(bb, fd)
  BY <1>1 DEF Sound, EventsInv
<1>3. ASSUME NEW r, x = still(r)
      PROVE  OnFd(x, bb, kk, fd) /\ x.b = bb
  <2>1. x.b = bb /\ x.k = kk
    BY <1>3
  <2> HIDE DEF x
  <2>2. QED
    BY <1>1, <1>2, <2>1, NothingOnFd DEF TypedBase
<1>4. CASE e \in bb.inserted \cup bb.active
  <2>1. x = still(0)
    BY <1>4 DEF event_add
  <2>2. QED
    BY <1>3, <2>1
<1>5. CASE e \notin bb.inserted \cup bb.active
  <2>1. z = IF y.r = -1 THEN y
            ELSE [b |-> [Count(y.b, e, 1) EXCEPT !.events[fd] = @ \cup {e}],
                  k |-> y.k, r |-> IF res = {} THEN 0 ELSE 1]
    BY DEF evmap_io_add
  <2>2. x = IF z.r = -1 THEN z ELSE [z EXCEPT !.b.inserted = @ \cup {e}, !.r = 0]
    BY <1>5 DEF event_add
  <2>3. /\ y.r \in {0, -1}
        /\ y.r = -1 => y.b = bb /\ y.k = kk
        /\ y.r = 0 => Asked(y, bb, kk, fd, old, old \cup res)
    <3>1. CASE TooMany(bb, e)
      BY <3>1
    <3>2. CASE ~TooMany(bb, e) /\ res = {}
      <4>1. y = still(0) /\ old \cup res = old
        BY <3>2
      <4>2. ~Changelist => kk.file[fd] \notin Refused
        <5>1. PICK d \in Kinds : d \in KindOf[e] /\ d \in old
          BY <1>1, <3>2
        <5>2. Wanting(bb, fd, d) # {}
          BY <1>1, <1>2, <5>1, WatchedIsWanted
        <5>3. PICK f \in bb.inserted : FdOf[f] = fd
          BY <1>2, <5>2 DEF Wanting, Counted
        <5>4. QED
          BY <5>3 DEF Sound
      <4>3. Asked(still(0), bb, kk, fd, old, old)
        BY <1>2, <4>2 DEF Asked, SameEvents, OtherItems, OtherChanges
      <4>4. QED
        BY <4>1, <4>3
    <3>3. CASE ~TooMany(bb, e) /\ res # {}
      <4>1. y = backend_add(bb, kk, fd, old, res)
        BY <3>3
      <4>2. Asked(y, bb, kk, fd, old, old \cup res)
        BY <1>1, <1>2, <3>3, <4>1, BackendAdds
      <4>3. QED
        BY <4>2 DEF Asked
    <3>4. QED
      BY <3>1, <3>2, <3>3
  <2> HIDE DEF y, z, x
  <2>4. CASE y.r = -1
    <3>1. x = y /\ y.b = bb /\ y.k = kk
      BY <2>1, <2>2, <2>3, <2>4
    <3>2. OnFd(x, bb, kk, fd)
      BY <1>1, <1>2, <3>1, NothingOnFd DEF TypedBase
    <3>3. QED
      BY <3>1, <3>2 DEF x
  <2>5. CASE y.r = 0
    <3> DEFINE u == [[Count(y.b, e, 1) EXCEPT !.events[fd] = @ \cup {e}]
                     EXCEPT !.inserted = @ \cup {e}]
    <3>1. x.b = u /\ x.k = y.k
      <4> DEFINE c == [Count(y.b, e, 1) EXCEPT !.events[fd] = @ \cup {e}]
      <4>1. z = [b |-> c, k |-> y.k, r |-> IF res = {} THEN 0 ELSE 1]
        BY <2>1, <2>5
      <4> HIDE DEF c
      <4>2. x = [z EXCEPT !.b.inserted = @ \cup {e}, !.r = 0]
        BY <2>2, <4>1
      <4>3. x.b = [c EXCEPT !.inserted = @ \cup {e}] /\ x.k = y.k
        BY <4>1, <4>2
      <4>4. QED
        BY <4>3 DEF c
    <3>2. Asked(y, bb, kk, fd, old, old \cup res)
      BY <2>3, <2>5
    <3>3. TypedBase(y.b) /\ SameEvents(y.b, bb) /\ Pointed(y.b) /\ Unlisted(y.b)
      BY <3>2 DEF Asked
    <3>4. \A g \in Fd : Counted(y.b, g)
      BY <3>3 DEF Sound, EventsInv, Counted, SameEvents, Wanting
    <3>5. e \notin y.b.inserted
      BY <1>5, <3>3 DEF SameEvents
    <3>6. /\ SameRest(u, y.b, fd) /\ u.inserted = y.b.inserted \cup {e}
          /\ \A g \in Fd : Counted(u, g)
          /\ Watched(u, fd) = Watched(y.b, fd) \cup KindOf[e]
      BY <3>3, <3>4, <3>5, Joins
    <3> HIDE DEF u
    <3>7. Pointed(u) /\ Unlisted(u) /\ TypedBase(u)
      BY <3>3, <3>6 DEF SameRest, Pointed, Unlisted
    <3>8. y.k.file = kk.file /\ TypedKernel(y.k) /\ OtherItems(y.k, kk, fd)
      BY <3>2 DEF Asked, OtherItems
    <3>9. /\ u.inserted = bb.inserted \cup {e} /\ u.freed = bb.freed
          /\ u.active = bb.active /\ \A g \in Fd \ {fd} : u.n[g] = bb.n[g]
      BY <3>3, <3>6 DEF SameEvents, SameRest
    <3>10. Sound(u, y.k)
      <4>1. ~Changelist => kk.file[fd] \notin Refused
        BY <2>5, <3>2 DEF Asked
      <4>2. QED
        BY <3>6, <3>7, <3>8, <3>9, <4>1 DEF Sound, EventsInv
    <3>11. OtherChanges(u, bb, fd)
      BY <3>2, <3>6 DEF Asked, OtherChanges, SameRest, ChangeOf
    <3>12. Watched(u, fd) = old \cup res
      BY <3>3, <3>6 DEF SameEvents, Watched
    <3>13. Told(bb, kk, fd, old) => Told(u, y.k, fd, Watched(u, fd))
      BY <2>5, <3>2, <3>6, <3>12 DEF Asked, Told, SameRest, ChangeOf
    <3>14. OnFd(x, bb, kk, fd)
      BY <3>1, <3>8, <3>9, <3>10, <3>11, <3>13 DEF OnFd
    <3>15. QED
      BY <1>5, <3>1, <3>8, <3>9, <3>14 DEF x
  <2>6. QED
    BY <2>3, <2>4, <2>5
<1>6. QED
  BY <1>4, <1>5

LEMMA EventDels ==
    ASSUME EvAssumption, KindAssumption, FileAssumption, NEW bb, NEW kk, Sound(bb, kk),
           NEW e \in Ev
    PROVE  /\ OnFd(event_del(bb, kk, e), bb, kk, FdOf[e])
           /\ event_del(bb, kk, e).b.freed = bb.freed
           /\ event_del(bb, kk, e).b.active = bb.active \ {e}
           /\ event_del(bb, kk, e).b.inserted = bb.inserted \ {e}
<1> DEFINE x == event_del(bb, kk, e)
           fd == FdOf[e]
           old == Watched(bb, fd)
           res == {d \in KindOf[e] : bb.n[fd][d] = 1}
           quiet == [bb EXCEPT !.active = @ \ {e}, !.inserted = @ \ {e}]
           y == IF res = {} THEN [b |-> quiet, k |-> kk, r |-> 0]
                ELSE backend_del(quiet, kk, fd, Watched(quiet, fd), res)
<1>1. /\ fd \in Fd /\ KindOf[e] \in SUBSET Kinds
      /\ old \in SUBSET Kinds /\ res \in SUBSET Kinds
  BY DEF EvAssumption, KindAssumption, Kinds, Watched
<1>2. TypedBase(bb) /\ Pointed(bb) /\ Unlisted(bb) /\ TypedKernel(kk) /\ Counted(bb, fd)
  BY <1>1 DEF Sound, EventsInv
<1>3. /\ DOMAIN quiet = BaseFields /\ quiet.events = bb.events /\ quiet.n = bb.n
      /\ quiet.idxplus1 = bb.idxplus1 /\ quiet.changes = bb.changes
      /\ quiet.freed = bb.freed /\ quiet.inserted = bb.inserted \ {e}
      /\ quiet.active = bb.active \ {e}
  BY <1>2 DEF TypedBase, BaseFields
<1>4. CASE e \notin bb.inserted
  <2>1. x = [b |-> quiet, k |-> kk, r |-> 0]
    BY <1>4 DEF event_del
  <2> HIDE DEF quiet, x
  <2>2. x.b = quiet /\ x.k = kk /\ quiet.inserted = bb.inserted
    BY <1>3, <1>4, <2>1
  <2>3. quiet.active \subseteq Ev /\ quiet.freed \subseteq Ev
    BY <1>2, <1>3 DEF TypedBase
  <2>4. OnFd(x, bb, kk, fd)
    BY <1>1, <1>3, <2>2, <2>3, NothingOnFd
  <2>5. QED
    BY <1>3, <2>2, <2>4 DEF x
<1>5. CASE e \in bb.inserted
  <2>1. /\ kk.file[fd] # Closed /\ (~Changelist => kk.file[fd] \notin Refused)
    BY <1>5 DEF Sound
  <2>2. x = evmap_io_del(quiet, kk, e)
    BY <1>5 DEF event_del
  <2> HIDE DEF quiet
  <2>3. TypedBase(quiet) /\ Pointed(quiet) /\ Unlisted(quiet)
    BY <1>2, <1>3 DEF TypedBase, Pointed, Unlisted
  <2>4. Watched(quiet, fd) = old
    BY <1>3 DEF Watched
  <2>5. x = IF y.r = -1 THEN y
            ELSE [b |-> [Count(y.b, e, -1) EXCEPT !.events[fd] = @ \ {e}],
                  k |-> y.k, r |-> IF res = {} THEN 0 ELSE 1]
    <3> DEFINE gone == {d \in KindOf[e] : quiet.n[fd][d] = 1}
               z == IF gone = {} THEN [b |-> quiet, k |-> kk, r |-> 0]
                    ELSE backend_del(quiet, kk, fd, Watched(quiet, fd), gone)
    <3>1. x = IF z.r = -1 THEN z
              ELSE [b |-> [Count(z.b, e, -1) EXCEPT !.events[fd] = @ \ {e}],
                    k |-> z.k, r |-> IF gone = {} THEN 0 ELSE 1]
      BY <2>2 DEF evmap_io_del
    <3>2. gone = res
      BY <1>3
    <3> HIDE DEF gone, res, x
    <3>3. QED
      BY <3>1, <3>2
  <2>6. y.r = 0 /\ Asked(y, quiet, kk, fd, old, old \ res)
    <3>1. CASE res = {}
      <4> DEFINE still == [b |-> quiet, k |-> kk, r |-> 0]
      <4>1. y = still /\ old \ res = old
        BY <3>1
      <4>2. Asked(still, quiet, kk, fd, old, old)
        BY <1>2, <2>1, <2>3 DEF Asked, SameEvents, OtherItems, OtherChanges
      <4>3. QED
        BY <4>1, <4>2
    <3>2. CASE res # {}
      <4>1. y = backend_del(quiet, kk, fd, old, res)
        BY <2>4, <3>2
      <4> HIDE DEF y, res, old
      <4>2. /\ Asked(backend_del(quiet, kk, fd, old, res), quiet, kk, fd, old, old \ res)
            /\ backend_del(quiet, kk, fd, old, res).r = 0
        BY <1>1, <1>2, <2>1, <2>3, <3>2, BackendDeletes
      <4>3. QED
        BY <4>1, <4>2
    <3>3. QED
      BY <3>1, <3>2
  <2> DEFINE u == [Count(y.b, e, -1) EXCEPT !.events[fd] = @ \ {e}]
  <2> HIDE DEF y
  <2>7. x.b = u /\ x.k = y.k
    BY <2>5, <2>6
  <2> HIDE DEF x
  <2>8. TypedBase(y.b) /\ SameEvents(y.b, quiet) /\ Pointed(y.b) /\ Unlisted(y.b)
    BY <2>6 DEF Asked
  <2>9. /\ y.b.events = bb.events /\ y.b.n = bb.n /\ y.b.inserted = bb.inserted \ {e}
        /\ y.b.freed = bb.freed /\ y.b.active = bb.active \ {e}
    BY <1>3, <2>8 DEF SameEvents
  <2>10. \A g \in Fd : Counted(bb, g)
    BY DEF Sound, EventsInv
  <2>11. /\ SameRest(u, y.b, fd) /\ u.inserted = y.b.inserted
         /\ \A g \in Fd : Counted(u, g)
         /\ Watched(u, fd) = old \ res
    <3> DEFINE v == y.b
    <3>1. /\ TypedBase(v) /\ v.events = bb.events /\ v.n = bb.n
          /\ v.inserted = bb.inserted \ {e}
      BY <2>8, <2>9
    <3> HIDE DEF v
    <3>2. u = Without(v, e)
      BY DEF v, Without
    <3> HIDE DEF u
    <3>3. /\ SameRest(u, v, fd) /\ u.inserted = v.inserted
          /\ \A g \in Fd : Counted(u, g)
          /\ Watched(u, fd) = old \ res
      BY <1>2, <1>5, <2>10, <3>1, <3>2, Leaves
    <3>4. QED
      BY <3>3 DEF v
  <2> HIDE DEF u
  <2>12. Pointed(u) /\ Unlisted(u) /\ TypedBase(u)
    BY <2>8, <2>11 DEF SameRest, Pointed, Unlisted
  <2>13. y.k.file = kk.file /\ TypedKernel(y.k) /\ OtherItems(y.k, kk, fd)
    BY <2>6 DEF Asked, OtherItems
  <2>14. /\ u.inserted = bb.inserted \ {e} /\ u.freed = bb.freed
         /\ u.active = bb.active \ {e} /\ \A g \in Fd \ {fd} : u.n[g] = bb.n[g]
    BY <2>9, <2>11 DEF SameRest
  <2>15. Sound(u, y.k)
    BY <2>11, <2>12, <2>13, <2>14 DEF Sound, EventsInv
  <2>16. OtherChanges(u, bb, fd)
    BY <1>3, <2>6, <2>11 DEF Asked, OtherChanges, SameRest, ChangeOf
  <2>17. Told(bb, kk, fd, old) => Told(u, y.k, fd, Watched(u, fd))
    <3>1. Told(bb, kk, fd, old) => Told(quiet, kk, fd, old)
      BY <1>3 DEF Told, ChangeOf
    <3>2. QED
      BY <2>6, <2>11, <3>1 DEF Asked, Told, SameRest, ChangeOf
  <2>18. OnFd(x, bb, kk, fd)
    BY <2>7, <2>13, <2>14, <2>15, <2>16, <2>17 DEF OnFd
  <2>19. QED
    BY <2>7, <2>14, <2>18 DEF x
<1>6. QED
  BY <1>4, <1>5

LEMMA OnFdAgain ==
    ASSUME NEW bb, NEW kk, NEW y, NEW x, NEW fd \in Fd,
           OnFd(y, bb, kk, fd), OnFd(x, y.b, y.k, fd)
    PROVE  OnFd(x, bb, kk, fd)
<1>1. OtherItems(x.k, kk, fd)
  BY DEF OnFd, OtherItems
<1>2. OtherChanges(x.b, bb, fd)
  BY DEF OnFd, OtherChanges
<1>3. QED
  BY <1>1, <1>2 DEF OnFd

LEMMA EventFrees ==
    ASSUME EvAssumption, KindAssumption, FileAssumption, NEW bb, NEW kk, Sound(bb, kk),
           NEW e \in Ev
    PROVE  /\ OnFd(event_free(bb, kk, e), bb, kk, FdOf[e])
           /\ event_free(bb, kk, e).b.freed = bb.freed \cup {e}
           /\ event_free(bb, kk, e).b.active = bb.active \ {e}
           /\ event_free(bb, kk, e).b.inserted = bb.inserted \ {e}
<1> DEFINE y == event_del(bb, kk, e)
           fd == FdOf[e]
           u == [y.b EXCEPT !.freed = @ \cup {e}]
           x == event_free(bb, kk, e)
<1>1. /\ OnFd(y, bb, kk, fd) /\ y.b.freed = bb.freed
      /\ y.b.active = bb.active \ {e} /\ y.b.inserted = bb.inserted \ {e}
  BY EventDels
<1>2. TypedBase(y.b) /\ Sound(y.b, y.k) /\ fd \in Fd
  BY <1>1 DEF OnFd, Sound, EventsInv, EvAssumption
<1>3. DOMAIN y = {"b", "k", "r"}
  <2>1. \A v : DOMAIN evmap_io_del(v, kk, e) = {"b", "k", "r"}
    BY DEF evmap_io_del, backend_del
  <2>2. QED
    BY <2>1 DEF event_del
<1>4. x = [y EXCEPT !.b = u]
  BY <1>3 DEF event_free
<1>5. /\ DOMAIN u = BaseFields /\ u.events = y.b.events /\ u.n = y.b.n
      /\ u.inserted = y.b.inserted /\ u.idxplus1 = y.b.idxplus1
      /\ u.changes = y.b.changes /\ u.active = y.b.active
      /\ u.freed = y.b.freed \cup {e}
  BY <1>2 DEF TypedBase, BaseFields
<1> HIDE DEF y, u, x
<1>6. x.b = u /\ x.k = y.k
  BY <1>3, <1>4
<1>7. u.active \subseteq Ev /\ u.freed \subseteq Ev
  BY <1>2, <1>5 DEF TypedBase
<1>8. OnFd(x, y.b, y.k, fd)
  BY <1>2, <1>5, <1>6, <1>7, NothingOnFd
<1>9. OnFd(x, bb, kk, fd)
  BY <1>1, <1>2, <1>8, OnFdAgain
<1>10. QED
  BY <1>1, <1>5, <1>6, <1>9 DEF x

-----------------------------------------------------------------------------
(* The inductive invariant: what is added is listed, counted and, by the   *)
(* kernel or a change, watched; a file has one number, and the kernel has  *)
(* no interest for a number and a file that it does not stand for.         *)
NumbersKept == ~Changelist \/ ~Clones
AllTaken == ~Changelist \/ (~Clones /\ Refused = {})

Own(kk) == \A fd \in Fd, f \in File : kk.item[fd][f] # {} => kk.file[fd] = f
Apart(kk) ==
    \A fd, g \in Fd : kk.file[fd] = kk.file[g] /\ kk.file[fd] # Closed => fd = g
FreedOut(bb) == \A e \in bb.freed : e \notin bb.inserted /\ e \notin bb.active
AllTold(bb, kk) == \A fd \in Fd : Told(bb, kk, fd, Watched(bb, fd))

Good(bb, kk) ==
    /\ Sound(bb, kk) /\ FreedOut(bb) /\ Apart(kk)
    /\ ~Clones => kk.held = {}
    /\ NumbersKept => Own(kk)
    /\ AllTaken => AllTold(bb, kk)

Inv == Good(b, k) /\ (pc = "wait" => \A fd \in Fd : b.idxplus1[fd] = 0)

(* A call about an event of fd.                                            *)
LEMMA GoodOnFd ==
    ASSUME NEW bb, NEW kk, Good(bb, kk), NEW fd \in Fd, NEW x, OnFd(x, bb, kk, fd),
           FreedOut(x.b)
    PROVE  Good(x.b, x.k)
<1>1. Sound(x.b, x.k) /\ x.k.file = kk.file /\ x.k.held = kk.held
  BY DEF OnFd, OtherItems
<1>2. Apart(x.k) /\ (~Clones => x.k.held = {})
  BY <1>1 DEF Good, Apart
<1>3. Own(kk) => Own(x.k)
  BY DEF OnFd, OtherItems, Own
<1>4. ASSUME AllTold(bb, kk) PROVE AllTold(x.b, x.k)
  <2>1. SUFFICES ASSUME NEW g \in Fd PROVE Told(x.b, x.k, g, Watched(x.b, g))
    BY DEF AllTold
  <2>2. CASE g = fd
    BY <1>4, <2>2 DEF AllTold, OnFd
  <2>3. CASE g # fd
    <3>1. /\ x.b.idxplus1[g] = bb.idxplus1[g]
          /\ bb.idxplus1[g] # 0 => ChangeOf(x.b, g) = ChangeOf(bb, g)
          /\ Watched(x.b, g) = Watched(bb, g)
      BY <2>3 DEF OnFd, OtherChanges, Watched
    <3>2. kk.file[g] # Closed => At(x.k, g) = At(kk, g)
      <4>1. kk.file[g] # Closed => kk.file[g] \in File
        BY DEF Good, Sound, TypedKernel
      <4>2. QED
        BY <1>1, <2>3, <4>1 DEF OnFd, OtherItems, At
    <3>3. bb.idxplus1[g] # 0 => ChangeOf(bb, g).fd = g
      BY DEF Good, Sound, EventsInv, Pointed, ChangeOf
    <3>4. Told(bb, kk, g, Watched(bb, g))
      BY <1>4 DEF AllTold
    <3>5. QED
      BY <1>1, <3>1, <3>2, <3>3, <3>4 DEF Told, Fits
  <2>4. QED
    BY <2>2, <2>3
<1>5. QED
  BY <1>1, <1>2, <1>3, <1>4 DEF Good

(* A closed descriptor is not watched.                                     *)
LEMMA ClosedUnwatched ==
    ASSUME NEW bb, NEW kk, Sound(bb, kk), NEW fd \in Fd,
           \A e \in bb.inserted : FdOf[e] # fd
    PROVE  Watched(bb, fd) = {}
<1>1. TypedBase(bb) /\ Counted(bb, fd)
  BY DEF Sound, EventsInv
<1>2. \A d \in Kinds : Wanting(bb, fd, d) = {}
  BY <1>1 DEF Wanting, Counted
<1>3. QED
  BY <1>1, <1>2, WatchedIsWanted

(* A closed number gets a file that has no number.                         *)
LEMMA GoodOpened ==
    ASSUME EvAssumption, FileAssumption, NEW bb, NEW kk, Good(bb, kk), NEW fd \in Fd,
           kk.file[fd] = Closed, NEW f \in File, \A g \in Fd : kk.file[g] # f,
           NEW u, TypedKernel(u), u.file = [kk.file EXCEPT ![fd] = f], u.item = kk.item,
           ~Clones => u.held = kk.held
    PROVE  Good(bb, u)
<1>1. /\ Sound(bb, kk) /\ TypedBase(bb) /\ Pointed(bb) /\ TypedKernel(kk)
      /\ kk.file \in [Fd -> File \cup {Closed}] /\ f # Closed
  BY DEF Good, Sound, EventsInv, TypedKernel, FileAssumption
<1>2. u.file[fd] = f /\ \A g \in Fd \ {fd} : u.file[g] = kk.file[g]
  BY <1>1
<1>3. \A e \in bb.inserted : FdOf[e] \in Fd \ {fd}
  BY <1>1 DEF Sound, EvAssumption, TypedBase
<1>4. Sound(bb, u)
  BY <1>1, <1>2, <1>3 DEF Sound
<1>5. Apart(u)
  BY <1>1, <1>2 DEF Good, Apart
<1>6. ASSUME Own(kk) PROVE Own(u)
  <2>1. SUFFICES ASSUME NEW h \in Fd, NEW g \in File, kk.item[h][g] # {}
                 PROVE  u.file[h] = g
    BY DEF Own
  <2>2. kk.file[h] = g
    BY <1>6, <2>1 DEF Own
  <2>3. h # fd
    BY <2>2 DEF FileAssumption
  <2>4. QED
    BY <1>2, <2>2, <2>3
<1>7. Watched(bb, fd) = {}
  BY <1>1, <1>3, ClosedUnwatched
<1>8. ASSUME AllTold(bb, kk), Own(kk) PROVE AllTold(bb, u)
  <2>1. SUFFICES ASSUME NEW g \in Fd PROVE Told(bb, u, g, Watched(bb, g))
    BY DEF AllTold
  <2>2. Told(bb, kk, g, Watched(bb, g))
    BY <1>8 DEF AllTold
  <2>3. bb.idxplus1[g] # 0 =>
          ChangeOf(bb, g).fd = g /\ ChangeOf(bb, g).old \subseteq Kinds
    <3>1. SUFFICES ASSUME bb.idxplus1[g] # 0
                   PROVE  ChangeOf(bb, g).fd = g /\ ChangeOf(bb, g) \in Change
      BY DEF Change
    <3>2. /\ bb.idxplus1[g] \in DOMAIN bb.changes /\ bb.changes \in Seq(Change)
          /\ bb.changes[bb.idxplus1[g]].fd = g
      BY <1>1, <3>1 DEF Pointed, TypedBase
    <3>3. QED
      BY <3>2 DEF ChangeOf
  <2>4. CASE g = fd
    <3>1. At(u, fd) = {}
      BY <1>1, <1>2, <1>8 DEF Own, At, TypedKernel
    <3>2. CASE bb.idxplus1[fd] = 0
      BY <1>7, <2>4, <3>1, <3>2 DEF Told
    <3>3. CASE bb.idxplus1[fd] # 0
      <4> DEFINE ch == ChangeOf(bb, fd)
      <4>1. Remaining(ch) = {} /\ ch.fd = fd /\ ch.old \subseteq Kinds
        BY <1>7, <2>2, <2>3, <2>4, <3>3 DEF Told
      <4>2. \A d \in ch.old : ch.change[d] # "none"
        BY <4>1 DEF Remaining
      <4>3. Fits(u, ch)
        BY <3>1, <4>1, <4>2 DEF Fits
      <4>4. QED
        BY <1>7, <2>4, <3>3, <4>1, <4>3 DEF Told
    <3>4. QED
      BY <3>2, <3>3
  <2>5. CASE g # fd
    <3>1. At(u, g) = At(kk, g) /\ u.file[g] = kk.file[g]
      BY <1>2, <2>5 DEF At
    <3>2. QED
      BY <2>2, <2>3, <3>1 DEF Told, Fits
  <2>6. QED
    BY <2>4, <2>5
<1>9. QED
  BY <1>4, <1>5, <1>6, <1>8 DEF Good, NumbersKept, AllTaken

(* A number whose events are deleted is closed.                            *)
LEMMA GoodClosed ==
    ASSUME EvAssumption, FileAssumption, NEW bb, NEW kk, Good(bb, kk), NEW fd \in Fd,
           kk.file[fd] # Closed, \A e \in bb.inserted : FdOf[e] # fd
    PROVE  Good(bb, Reap([kk EXCEPT !.file[fd] = Closed]))
<1> DEFINE file == [kk.file EXCEPT ![fd] = Closed]
           v == [kk EXCEPT !.file[fd] = Closed]
           u == Reap(v)
           item == [h \in Fd |-> [f \in File |->
                      IF f \in v.held \/ \E g \in Fd : v.file[g] = f
                      THEN v.item[h][f] ELSE {}]]
<1>1. /\ Sound(bb, kk) /\ TypedBase(bb) /\ Pointed(bb) /\ TypedKernel(kk)
      /\ kk.file \in [Fd -> File \cup {Closed}]
      /\ kk.item \in [Fd -> [File -> SUBSET Kinds]]
  BY DEF Good, Sound, EventsInv, TypedKernel
<1>2. v.file = file /\ v.held = kk.held /\ v.item = kk.item /\ TypedKernel(v)
  BY <1>1 DEF TypedKernel
<1>3. u = [v EXCEPT !.item = item]
  BY DEF Reap
<1>4. item \in [Fd -> [File -> SUBSET Kinds]]
  BY <1>1, <1>2
<1>5. /\ file[fd] = Closed /\ \A g \in Fd \ {fd} : file[g] = kk.file[g]
  BY <1>1
<1>6. \A h \in Fd, f \in File : item[h][f] =
         IF f \in kk.held \/ \E g \in Fd : file[g] = f THEN kk.item[h][f] ELSE {}
  BY <1>2
<1> HIDE DEF v, item, file, u
<1>7. u.file = file /\ u.held = kk.held /\ u.item = item /\ TypedKernel(u)
  BY <1>2, <1>3, <1>4 DEF TypedKernel
<1>8. \A e \in bb.inserted : FdOf[e] \in Fd \ {fd}
  BY <1>1 DEF EvAssumption, TypedBase
<1>9. Sound(bb, u)
  BY <1>1, <1>5, <1>7, <1>8 DEF Sound
<1>10. Apart(u)
  BY <1>5, <1>7 DEF Good, Apart
<1>11. Watched(bb, fd) = {}
  BY <1>1, <1>8, ClosedUnwatched
<1>12. ASSUME NumbersKept PROVE Own(u)
  <2>1. SUFFICES ASSUME NEW h \in Fd, NEW f \in File, item[h][f] # {}
                 PROVE  file[h] = f
    BY <1>7 DEF Own
  <2>2. kk.item[h][f] # {} /\ (f \in kk.held \/ \E g \in Fd : file[g] = f)
    BY <1>6, <2>1
  <2>3. kk.file[h] = f
    BY <1>12, <2>2 DEF Good, Own
  <2>4. CASE h # fd
    BY <1>5, <2>3, <2>4
  <2>5. CASE h = fd
    <3>1. CASE ~Clones
      <4>1. PICK g \in Fd : file[g] = f
        BY <2>2, <3>1 DEF Good
      <4>2. g # fd /\ kk.file[g] = f
        BY <1>5, <2>3, <2>5, <4>1
      <4>3. QED
        BY <2>3, <2>5, <4>2 DEF Good, Apart
    <3>2. CASE ~Changelist
      <4>1. bb.idxplus1[fd] = 0 /\ Told(bb, kk, fd, Watched(bb, fd))
        BY <1>1, <3>2 DEF Good, AllTaken, AllTold, Sound, EventsInv, Unlisted
      <4>2. At(kk, fd) = {}
        BY <1>11, <4>1 DEF Told
      <4>3. QED
        BY <2>2, <2>3, <2>5, <4>2 DEF At
    <3>3. QED
      BY <1>12, <3>1, <3>2 DEF NumbersKept
  <2>6. QED
    BY <2>4, <2>5
<1>13. ASSUME AllTold(bb, kk) PROVE AllTold(bb, u)
  <2>1. SUFFICES ASSUME NEW g \in Fd PROVE Told(bb, u, g, Watched(bb, g))
    BY DEF AllTold
  <2>2. Told(bb, kk, g, Watched(bb, g))
    BY <1>13 DEF AllTold
  <2>3. bb.idxplus1[g] # 0 => ChangeOf(bb, g).fd = g
    BY <1>1 DEF Pointed, ChangeOf
  <2>4. CASE g = fd
    BY <1>5, <1>7, <2>2, <2>4 DEF Told
  <2>5. CASE g # fd
    <3>1. u.file[g] = kk.file[g]
      BY <1>5, <1>7, <2>5
    <3>2. u.file[g] # Closed => At(u, g) = At(kk, g)
      <4>1. SUFFICES ASSUME file[g] # Closed PROVE item[g][file[g]] = kk.item[g][file[g]]
        BY <1>7, <3>1 DEF At
      <4>2. file[g] \in File
        BY <1>1, <1>7, <3>1, <4>1
      <4>3. QED
        BY <1>6, <4>2
    <3>3. QED
      BY <2>2, <2>3, <3>1, <3>2 DEF Told, Fits
  <2>6. QED
    BY <2>4, <2>5
<1>14. QED
  BY <1>7, <1>9, <1>10, <1>12, <1>13 DEF Good, u, v

(* dup keeps a file that is closed.                                        *)
LEMMA GoodHeld ==
    ASSUME Clones, NEW bb, NEW kk, Good(bb, kk), NEW u, TypedKernel(u),
           u.file = kk.file, u.item = kk.item
    PROVE  Good(bb, u)
<1>1. Sound(bb, u) /\ Apart(u)
  BY DEF Good, Sound, Apart
<1>2. Own(kk) => Own(u)
  BY DEF Own
<1>3. AllTold(bb, kk) => AllTold(bb, u)
  BY DEF AllTold, Told, Fits, At
<1>4. QED
  BY <1>1, <1>2, <1>3 DEF Good

(* epoll_dispatch: the kernel is told every change.                        *)
LEMMA AllRemoved ==
    ASSUME NEW bb, TypedBase(bb), Pointed(bb), Unlisted(bb),
           NEW u, u = event_changelist_remove_all(bb)
    PROVE  /\ TypedBase(u) /\ Pointed(u) /\ Unlisted(u) /\ SameEvents(u, bb)
           /\ \A fd \in Fd : u.idxplus1[fd] = 0
<1> DEFINE idx == [fd \in Fd |-> IF \E i \in DOMAIN bb.changes : bb.changes[i].fd = fd
                                 THEN 0 ELSE bb.idxplus1[fd]]
<1>1. u = [bb EXCEPT !.changes = <<>>, !.idxplus1 = idx]
  BY DEF event_changelist_remove_all
<1>2. \A fd \in Fd : idx[fd] = 0
  BY DEF Pointed
<1>3. idx \in [Fd -> Nat]
  BY <1>2
<1> HIDE DEF idx
<1>4. /\ DOMAIN u = BaseFields /\ u.changes = <<>> /\ u.idxplus1 = idx
      /\ SameEvents(u, bb)
  BY <1>1 DEF TypedBase, BaseFields, SameEvents
<1>5. <<>> \in Seq(Change) /\ DOMAIN <<>> = {}
  OBVIOUS
<1>6. QED
  BY <1>2, <1>3, <1>4, <1>5 DEF TypedBase, SameEvents, Pointed, Unlisted

LEMMA GoodDispatched ==
    ASSUME FileAssumption, NEW bb, NEW kk, Good(bb, kk),
           NEW v, v = event_changelist_remove_all(bb),
           NEW u, u = epoll_apply_changes(kk, bb.changes)
    PROVE  Good(v, u) /\ \A fd \in Fd : v.idxplus1[fd] = 0
<1> DEFINE one(fd) == epoll_apply_one_change(kk, ChangeOf(bb, fd))
<1>1. /\ TypedBase(bb) /\ Pointed(bb) /\ Unlisted(bb) /\ TypedKernel(kk)
      /\ \A fd \in Fd : Counted(bb, fd)
  BY DEF Good, Sound, EventsInv
<1>2. /\ TypedBase(v) /\ Pointed(v) /\ Unlisted(v) /\ SameEvents(v, bb)
      /\ \A fd \in Fd : v.idxplus1[fd] = 0
  BY <1>1, AllRemoved
<1>3. /\ TypedKernel(u) /\ u.file = kk.file /\ u.held = kk.held
      /\ \A fd \in Fd : u.item[fd] = IF bb.idxplus1[fd] = 0 THEN kk.item[fd]
                                     ELSE one(fd).k.item[fd]
  BY <1>1, ChangesApplied
<1>4. ASSUME NEW fd \in Fd, bb.idxplus1[fd] # 0
      PROVE  /\ ChangeOf(bb, fd).fd = fd /\ ChangeOf(bb, fd) \in Change
             /\ Applied(one(fd), kk, ChangeOf(bb, fd))
  <2>1. ChangeOf(bb, fd).fd = fd /\ ChangeOf(bb, fd) \in Change
    BY <1>1, <1>4 DEF Pointed, TypedBase, ChangeOf
  <2>2. QED
    BY <1>1, <2>1, OneChange
<1> HIDE DEF one
<1>5. ASSUME NEW fd \in Fd, bb.idxplus1[fd] # 0, kk.file[fd] \in File \ Refused
      PROVE  /\ Fits(kk, ChangeOf(bb, fd)) => At(u, fd) = Remaining(ChangeOf(bb, fd))
             /\ \A f \in File \ {kk.file[fd]} : u.item[fd][f] = kk.item[fd][f]
  <2>1. PICK s \in SUBSET Kinds :
            /\ one(fd).k = Interest(kk, fd, s)
            /\ Fits(kk, ChangeOf(bb, fd)) => s = Remaining(ChangeOf(bb, fd))
    BY <1>4, <1>5 DEF Applied
  <2>2. OtherItems(one(fd).k, kk, fd) /\ At(one(fd).k, fd) = s
    BY <1>1, <1>5, <2>1, InterestOthers
  <2>3. u.item[fd] = one(fd).k.item[fd] /\ u.file[fd] = one(fd).k.file[fd]
    BY <1>3, <1>5, <2>2 DEF OtherItems
  <2>4. QED
    BY <2>1, <2>2, <2>3 DEF OtherItems, At
<1>6. ASSUME NEW fd \in Fd, bb.idxplus1[fd] = 0 \/ kk.file[fd] \notin File \ Refused
      PROVE  u.item[fd] = kk.item[fd]
  <2>1. CASE bb.idxplus1[fd] = 0
    BY <1>3, <2>1
  <2>2. CASE bb.idxplus1[fd] # 0
    <3>1. one(fd).k = kk
      BY <1>4, <1>6, <2>2 DEF Applied
    <3>2. QED
      BY <1>3, <2>2, <3>1
  <2>3. QED
    BY <2>1, <2>2
<1>7. Sound(v, u)
  <2>1. \A fd \in Fd : Counted(v, fd)
    BY <1>1, <1>2 DEF Counted, SameEvents, Wanting
  <2>2. v.inserted = bb.inserted
    BY <1>2 DEF SameEvents
  <2>3. QED
    BY <1>2, <1>3, <2>1, <2>2 DEF Good, Sound, EventsInv
<1>8. FreedOut(v) /\ Apart(u) /\ (~Clones => u.held = {})
  BY <1>2, <1>3 DEF Good, FreedOut, Apart, SameEvents
<1>9. Own(kk) => Own(u)
  <2>1. SUFFICES ASSUME Own(kk), NEW fd \in Fd, NEW f \in File, u.item[fd][f] # {}
                 PROVE  kk.file[fd] = f
    BY <1>3 DEF Own
  <2>2. CASE u.item[fd] = kk.item[fd]
    BY <2>1, <2>2 DEF Own
  <2>3. CASE u.item[fd] # kk.item[fd]
    BY <1>5, <1>6, <2>1, <2>3 DEF Own
  <2>4. QED
    BY <2>2, <2>3
<1>10. ASSUME AllTaken, AllTold(bb, kk) PROVE AllTold(v, u)
  <2>1. SUFFICES ASSUME NEW fd \in Fd, kk.file[fd] # Closed
                 PROVE  At(u, fd) = Watched(bb, fd)
    BY <1>2, <1>3 DEF AllTold, Told, Watched, SameEvents
  <2>2. Told(bb, kk, fd, Watched(bb, fd))
    BY <1>10 DEF AllTold
  <2>3. CASE bb.idxplus1[fd] = 0
    BY <1>3, <1>6, <2>1, <2>2, <2>3 DEF Told, At
  <2>4. CASE bb.idxplus1[fd] # 0
    <3>1. Refused = {}
      BY <1>1, <1>10, <2>4 DEF AllTaken, Unlisted
    <3>2. kk.file[fd] \in File \ Refused
      BY <1>1, <2>1, <3>1 DEF TypedKernel
    <3>3. QED
      BY <1>5, <2>1, <2>2, <2>4, <3>2 DEF Told
  <2>5. QED
    BY <2>3, <2>4
<1>11. QED
  BY <1>2, <1>7, <1>8, <1>9, <1>10 DEF Good

-----------------------------------------------------------------------------
(* The steps                                                               *)

LEMMA InitGood ==
    ASSUME EvAssumption, KindAssumption, FileAssumption, Init
    PROVE  Inv
<1>1. /\ DOMAIN b = BaseFields
      /\ b.events = [fd \in Fd |-> {}] /\ b.n = [fd \in Fd |-> [d \in Kinds |-> 0]]
      /\ b.idxplus1 = [fd \in Fd |-> 0] /\ b.changes = <<>>
      /\ b.inserted = {} /\ b.freed = {} /\ b.active = {}
  BY DEF Init, BaseFields
<1>2. TypedBase(b) /\ Pointed(b) /\ Unlisted(b)
  <2>1. <<>> \in Seq(Change) /\ DOMAIN <<>> = {}
    OBVIOUS
  <2>2. QED
    BY <1>1, <2>1 DEF TypedBase, Pointed, Unlisted
<1>3. ASSUME NEW fd \in Fd PROVE Counted(b, fd) /\ Watched(b, fd) = {}
  <2>1. b.events[fd] = {} /\ \A d \in Kinds : Wanting(b, fd, d) = {} /\ b.n[fd][d] = 0
    BY <1>1 DEF Wanting
  <2>2. IsFiniteSet({}) /\ Cardinality({}) = 0
    BY FS_EmptySet
  <2>3. /\ b.events[fd] = {e \in b.inserted : FdOf[e] = fd}
        /\ IsFiniteSet(b.events[fd])
    BY <1>1, <2>1, <2>2
  <2>4. \A d \in Kinds : b.n[fd][d] = Cardinality(Wanting(b, fd, d))
    BY <2>1, <2>2
  <2>5. Watched(b, fd) = {}
    BY <2>1 DEF Watched
  <2>6. QED
    BY <2>3, <2>4, <2>5 DEF Counted
<1>4. /\ TypedKernel(k) /\ k.held = {} /\ \A fd \in Fd : k.file[fd] = Closed
      /\ \A fd \in Fd, f \in File : k.item[fd][f] = {}
  BY DEF Init, TypedKernel
<1>5. Sound(b, k)
  BY <1>1, <1>2, <1>3, <1>4 DEF Sound, EventsInv
<1>6. AllTold(b, k)
  BY <1>1, <1>4 DEF AllTold, Told
<1>7. Good(b, k)
  BY <1>1, <1>4, <1>5, <1>6 DEF Good, FreedOut, Apart, Own
<1>8. QED
  BY <1>1, <1>7 DEF Inv

(* event_active and event_process_active touch only the active events.     *)
LEMMA GoodActive ==
    ASSUME NEW bb, NEW kk, Good(bb, kk), NEW active \in SUBSET Ev,
           active \cap bb.freed = {}
    PROVE  Good([bb EXCEPT !.active = active], kk)
<1> DEFINE u == [bb EXCEPT !.active = active]
           x == [b |-> u, k |-> kk]
<1>1. TypedBase(bb) /\ Sound(bb, kk)
  BY DEF Good, Sound, EventsInv
<1>2. /\ DOMAIN u = BaseFields /\ u.events = bb.events /\ u.n = bb.n
      /\ u.inserted = bb.inserted /\ u.idxplus1 = bb.idxplus1
      /\ u.changes = bb.changes /\ u.active = active /\ u.freed = bb.freed
  BY <1>1 DEF TypedBase, BaseFields
<1>3. u.active \subseteq Ev /\ u.freed \subseteq Ev /\ x.b = u /\ x.k = kk
  BY <1>1, <1>2 DEF TypedBase
<1>4. FreedOut(u)
  BY <1>2 DEF Good, FreedOut
<1> HIDE DEF u, x
<1>5. CASE Fd = {}
  <2>1. Sound(u, kk)
    <3>1. TypedBase(u)
      BY <1>1, <1>2, <1>3 DEF TypedBase
    <3>2. Pointed(u) /\ Unlisted(u) /\ \A fd \in Fd : Counted(u, fd)
      BY <1>1, <1>2, <1>5 DEF Sound, EventsInv, Pointed, Unlisted
    <3>3. QED
      BY <1>1, <1>2, <3>1, <3>2 DEF Sound, EventsInv
  <2>2. QED
    BY <1>4, <1>5, <2>1 DEF Good, AllTold, u
<1>6. ASSUME NEW fd \in Fd PROVE Good(u, kk)
  <2>1. OnFd(x, bb, kk, fd)
    BY <1>1, <1>2, <1>3, NothingOnFd
  <2>2. QED
    BY <1>3, <1>4, <2>1, GoodOnFd
<1>7. QED
  BY <1>5, <1>6 DEF u

LEMMA EventStepGood ==
    ASSUME EvAssumption, KindAssumption, FileAssumption, Good(b, k), NEW e \in Ev,
           Add(e) \/ Del(e) \/ Free(e) \/ Activate(e) \/ Process(e)
    PROVE  Good(b', k') /\ pc' = "run"
<1> DEFINE fd == FdOf[e]
<1>1. fd \in Fd /\ Sound(b, k) /\ FreedOut(b) /\ b.active \subseteq Ev
  BY DEF EvAssumption, Good, Sound, EventsInv, TypedBase
<1>2. ASSUME NEW x, OnFd(x, b, k, fd), FreedOut(x.b), b' = x.b, k' = x.k
      PROVE  Good(b', k')
  BY <1>1, <1>2, GoodOnFd
<1>3. CASE Add(e)
  <2> DEFINE x == event_add(b, k, e)
  <2>1. /\ e \notin b.freed /\ k.file[fd] # Closed
        /\ b' = x.b /\ k' = x.k /\ pc' = "run"
    BY <1>3 DEF Add, Call
  <2>2. /\ OnFd(x, b, k, fd) /\ x.b.freed = b.freed /\ x.b.active = b.active
        /\ x.b.inserted \subseteq b.inserted \cup {e}
    BY <1>1, <2>1, EventAdds
  <2>3. FreedOut(x.b)
    BY <1>1, <2>1, <2>2 DEF FreedOut
  <2> HIDE DEF x
  <2>4. QED
    BY <1>2, <2>1, <2>2, <2>3
<1>4. ASSUME b' = event_del(b, k, e).b, k' = event_del(b, k, e).k
      PROVE  Good(b', k')
  <2> DEFINE x == event_del(b, k, e)
  <2>1. /\ OnFd(x, b, k, fd) /\ x.b.freed = b.freed
        /\ x.b.active = b.active \ {e} /\ x.b.inserted = b.inserted \ {e}
    BY <1>1, EventDels
  <2>2. FreedOut(x.b)
    BY <1>1, <2>1 DEF FreedOut
  <2> HIDE DEF x
  <2>3. QED
    BY <1>2, <1>4, <2>1, <2>2 DEF x
<1>5. CASE Del(e)
  BY <1>4, <1>5 DEF Del, Call
<1>6. CASE Free(e)
  <2> DEFINE x == event_free(b, k, e)
  <2>1. b' = x.b /\ k' = x.k /\ pc' = "run"
    BY <1>6 DEF Free, Call
  <2>2. /\ OnFd(x, b, k, fd) /\ x.b.freed = b.freed \cup {e}
        /\ x.b.active = b.active \ {e} /\ x.b.inserted = b.inserted \ {e}
    BY <1>1, EventFrees
  <2>3. FreedOut(x.b)
    BY <1>1, <2>2 DEF FreedOut
  <2> HIDE DEF x
  <2>4. QED
    BY <1>2, <2>1, <2>2, <2>3
<1>7. CASE Activate(e)
  <2>1. /\ e \notin b.freed /\ pc' = "run"
        /\ b' = [b EXCEPT !.active = @ \cup {e}] /\ k' = k
    BY <1>7 DEF Activate, Call
  <2>2. b.active \cup {e} \in SUBSET Ev /\ (b.active \cup {e}) \cap b.freed = {}
    BY <1>1, <2>1 DEF FreedOut
  <2>3. QED
    BY <2>1, <2>2, GoodActive
<1>8. CASE Process(e)
  <2>1. CASE e \in Persist
    <3>1. b' = [b EXCEPT !.active = @ \ {e}] /\ k' = k /\ pc' = "run"
      BY <1>8, <2>1 DEF Process
    <3>2. b.active \ {e} \in SUBSET Ev /\ (b.active \ {e}) \cap b.freed = {}
      BY <1>1 DEF FreedOut
    <3>3. QED
      BY <3>1, <3>2, GoodActive
  <2>2. CASE e \notin Persist
    BY <1>4, <1>8, <2>2 DEF Process
  <2>3. QED
    BY <2>1, <2>2
<1>9. QED
  BY <1>3, <1>5, <1>6, <1>7, <1>8

LEMMA DescriptorStepGood ==
    ASSUME EvAssumption, FileAssumption, ~CloseFirst, Good(b, k), NEW fd \in Fd,
           CloseFd(fd) \/ Hold(fd) \/ \E f \in File : OpenFd(fd, f) \/ DupBack(fd, f)
    PROVE  Good(b', k') /\ pc' = "run"
<1>1. TypedKernel(k) /\ k.file \in [Fd -> File \cup {Closed}]
  BY DEF Good, Sound, TypedKernel
<1>2. CASE CloseFd(fd)
  <2>1. /\ k.file[fd] # Closed /\ \A e \in b.inserted : FdOf[e] # fd
        /\ b' = b /\ k' = Reap([k EXCEPT !.file[fd] = Closed]) /\ pc' = "run"
    BY <1>2 DEF CloseFd, Call
  <2>2. QED
    BY <2>1, GoodClosed
<1>3. CASE Hold(fd)
  <2> DEFINE u == [k EXCEPT !.held = @ \cup {k.file[fd]}]
  <2>1. Clones /\ k.file[fd] # Closed /\ b' = b /\ k' = u /\ pc' = "run"
    BY <1>3 DEF Hold, Call
  <2>2. TypedKernel(u) /\ u.file = k.file /\ u.item = k.item
    BY <1>1, <2>1 DEF TypedKernel
  <2> HIDE DEF u
  <2>3. QED
    BY <2>1, <2>2, GoodHeld
<1>4. ASSUME NEW f \in File, OpenFd(fd, f) PROVE Good(b', k') /\ pc' = "run"
  <2> DEFINE u == [k EXCEPT !.file[fd] = f]
  <2>1. /\ k.file[fd] = Closed /\ \A g \in Fd : k.file[g] # f
        /\ b' = b /\ k' = u /\ pc' = "run"
    BY <1>4 DEF OpenFd, Call
  <2>2. /\ TypedKernel(u) /\ u.file = [k.file EXCEPT ![fd] = f] /\ u.item = k.item
        /\ u.held = k.held
    BY <1>1 DEF TypedKernel
  <2> HIDE DEF u
  <2>3. QED
    BY <2>1, <2>2, GoodOpened
<1>5. ASSUME NEW f \in File, DupBack(fd, f) PROVE Good(b', k') /\ pc' = "run"
  <2> DEFINE u == [k EXCEPT !.file[fd] = f, !.held = @ \ {f}]
  <2>1. /\ k.file[fd] = Closed /\ f \in k.held /\ \A g \in Fd : k.file[g] # f
        /\ b' = b /\ k' = u /\ pc' = "run"
    BY <1>5 DEF DupBack, Call
  <2>2. /\ TypedKernel(u) /\ u.file = [k.file EXCEPT ![fd] = f] /\ u.item = k.item
    BY <1>1 DEF TypedKernel
  <2>3. Clones
    BY <2>1 DEF Good
  <2> HIDE DEF u
  <2>4. QED
    BY <2>1, <2>2, <2>3, GoodOpened
<1>6. QED
  BY <1>2, <1>3, <1>4, <1>5

LEMMA ReportGood ==
    ASSUME Good(b, k), NEW fd \in Fd, NEW f \in File, NEW s, Report(fd, f, s)
    PROVE  Good(b', k') /\ b'.idxplus1 = b.idxplus1
<1> DEFINE told == {e \in b.events[fd] : KindOf[e] \cap s # {}}
           active == b.active \cup told
<1>1. b' = [b EXCEPT !.active = active] /\ k' = k
  BY DEF Report, evmap_io_active
<1>2. TypedBase(b) /\ Counted(b, fd) /\ FreedOut(b)
  BY DEF Good, Sound, EventsInv
<1>3. told \subseteq b.inserted
  BY <1>2 DEF Counted
<1> HIDE DEF told
<1>4. active \in SUBSET Ev /\ active \cap b.freed = {}
  BY <1>2, <1>3 DEF TypedBase, FreedOut
<1>5. b'.idxplus1 = b.idxplus1
  BY <1>1, <1>2 DEF TypedBase, BaseFields
<1>6. QED
  BY <1>1, <1>4, <1>5, GoodActive

LEMMA InvKept ==
    ASSUME EvAssumption, KindAssumption, FileAssumption, ~CloseFirst,
           Inv, [Next]_vars
    PROVE  Inv'
<1>1. Good(b, k)
  BY DEF Inv
<1>2. CASE UNCHANGED vars
  BY <1>2 DEF vars, Inv
<1>3. ASSUME NEW e \in Ev, Add(e) \/ Del(e) \/ Free(e) \/ Activate(e) \/ Process(e)
      PROVE  Inv'
  BY <1>1, <1>3, EventStepGood DEF Inv
<1>4. ASSUME NEW fd \in Fd,
             CloseFd(fd) \/ Hold(fd) \/ \E f \in File : OpenFd(fd, f) \/ DupBack(fd, f)
      PROVE  Inv'
  BY <1>1, <1>4, DescriptorStepGood DEF Inv
<1>5. CASE Dispatch
  <2>1. k' = epoll_apply_changes(k, b.changes) /\ b' = event_changelist_remove_all(b)
    BY <1>5 DEF Dispatch
  <2>2. Good(b', k') /\ \A fd \in Fd : b'.idxplus1[fd] = 0
    BY <1>1, <2>1, GoodDispatched
  <2>3. QED
    BY <2>2 DEF Inv
<1>6. ASSUME NEW fd \in Fd, NEW f \in File, NEW s, Report(fd, f, s) PROVE Inv'
  BY <1>1, <1>6, ReportGood DEF Inv, Report
<1>7. CASE Return
  BY <1>7, <1>1 DEF Return, Inv
<1>8. QED
  BY <1>2, <1>3, <1>4, <1>5, <1>6, <1>7 DEF Next

THEOREM Invariance ==
    ASSUME EvAssumption, KindAssumption, FileAssumption, ~CloseFirst
    PROVE  Spec => []Inv
<1>1. Init => Inv
  BY InitGood
<1>2. Inv /\ [Next]_vars => Inv'
  BY InvKept
<1>3. QED
  BY <1>1, <1>2, PTL DEF Spec

-----------------------------------------------------------------------------
(* What the invariant says of the properties.                              *)

LEMMA InvSuffices ==
    ASSUME EvAssumption, KindAssumption, FileAssumption, Inv
    PROVE  /\ MapAgrees /\ FreedNotListed
           /\ NumbersKept => NoStaleItem
           /\ AllTaken => WaitsForWanted
<1>1. /\ TypedBase(b) /\ Pointed(b) /\ TypedKernel(k) /\ FreedOut(b)
      /\ \A fd \in Fd : Counted(b, fd)
  BY DEF Inv, Good, Sound, EventsInv
<1>2. MapAgrees
  BY <1>1 DEF MapAgrees, Counted, Pointed, Wanting
<1>3. FreedNotListed
  BY <1>1 DEF FreedNotListed, FreedOut, Counted, TypedBase, EvAssumption
<1>4. ASSUME NumbersKept PROVE NoStaleItem
  BY <1>4 DEF Inv, Good, Own, NoStaleItem
<1>5. ASSUME NEW fd \in Fd PROVE Watched(b, fd) = Wanted(fd)
  <2> DEFINE on == {x \in b.inserted : FdOf[x] = fd}
  <2>1. Counted(b, fd) /\ b.events[fd] = on
    BY <1>1 DEF Counted
  <2>2. /\ Watched(b, fd) \in SUBSET Kinds
        /\ \A d \in Kinds : d \in Watched(b, fd) <=> Wanting(b, fd, d) # {}
    BY <1>1, <2>1, WatchedIsWanted
  <2>3. \A e \in on : KindOf[e] \subseteq Kinds
    BY <1>1 DEF KindAssumption, Kinds, TypedBase
  <2>4. \A d \in Kinds : Wanting(b, fd, d) # {} <=> \E e \in on : d \in KindOf[e]
    BY <2>1 DEF Wanting
  <2>5. Wanted(fd) = UNION {KindOf[e] : e \in on}
    BY DEF Wanted
  <2> HIDE DEF on
  <2>6. QED
    BY <2>2, <2>3, <2>4, <2>5
<1>6. ASSUME AllTaken PROVE WaitsForWanted
  <2>1. SUFFICES ASSUME pc = "wait", NEW fd \in Fd, k.file[fd] # Closed
                 PROVE  At(k, fd) = Wanted(fd)
    BY DEF WaitsForWanted
  <2>2. b.idxplus1[fd] = 0 /\ Told(b, k, fd, Watched(b, fd))
    BY <1>6, <2>1 DEF Inv, Good, AllTold
  <2>3. QED
    BY <1>5, <2>1, <2>2 DEF Told
<1>7. QED
  BY <1>2, <1>3, <1>4, <1>6

(* Lists, counts and changelist agree, with or without a changelist,       *)
(* whatever epoll refuses (evmap.c:264-389, 517-741; event.c:2240-2311).   *)
THEOREM MapAlwaysAgrees ==
    ASSUME EvAssumption, KindAssumption, FileAssumption, ~CloseFirst
    PROVE  Spec => []MapAgrees
<1>1. Inv => MapAgrees
  BY InvSuffices
<1>2. QED
  BY <1>1, Invariance, PTL

(* event_free leaves no pointer to the event behind (event.c:1760-1773).   *)
THEOREM FreedIsNotListed ==
    ASSUME EvAssumption, KindAssumption, FileAssumption, ~CloseFirst
    PROVE  Spec => []FreedNotListed
<1>1. Inv => FreedNotListed
  BY InvSuffices
<1>2. QED
  BY <1>1, Invariance, PTL

(* In epoll_wait the kernel watches each open descriptor for what its      *)
(* events want: always without a changelist, and with one if the           *)
(* application duplicates no descriptor, of which event.h:471-476 warns,   *)
(* and epoll refuses none (then nobody sees that a change failed,          *)
(* epoll.c:333-347).                                                       *)
THEOREM WaitsOnlyForWanted ==
    ASSUME EvAssumption, KindAssumption, FileAssumption, ~CloseFirst, AllTaken
    PROVE  Spec => []WaitsForWanted
<1>1. Inv => WaitsForWanted
  BY InvSuffices
<1>2. QED
  BY <1>1, Invariance, PTL

(* A number is reported for the file that has it: without a changelist, or *)
(* without clones of a descriptor, closing takes the interest away.        *)
THEOREM NoItemIsStale ==
    ASSUME EvAssumption, KindAssumption, FileAssumption, ~CloseFirst, NumbersKept
    PROVE  Spec => []NoStaleItem
<1>1. Inv => NoStaleItem
  BY InvSuffices
<1>2. QED
  BY <1>1, Invariance, PTL
=============================================================================
