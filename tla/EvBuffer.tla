------------------------------ MODULE EvBuffer ------------------------------
(***************************************************************************)
(* evbuffer of libevent's buffer.c: a list of chains, each an allocation   *)
(* with some bytes in the middle of it, a pointer to the next-pointer of   *)
(* the last chain with data, and counters.  Pinned chains (IOCP on         *)
(* Windows) do not occur in this build and no allocation fails.            *)
(***************************************************************************)
EXTENDS Integers, Sequences, FiniteSets, SequencesExt

CONSTANTS Buf, Ref,
          Byte,                   \* bytes are 0 .. Byte - 1
          MaxLen, MaxOps,         \* bounds on the bytes of a buffer and the calls
          Sides,                  \* sets of operations: a behaviour calls one set's
          MIN_BUFFER_SIZE, EVBUFFER_CHAIN_SIZE, EVBUFFER_CHAIN_MAX_AUTO_SIZE,
          MAX_TO_REALIGN_IN_EXPAND, NUM_WRITE_IOVEC

VARIABLES bufs, op,
          calls, ops    \* the operations that are called, and how many were

vars == <<bufs, op, calls, ops>>

(* A chain: its bytes, the unused space before them, the allocation; the   *)
(* memory is its own, refers to memory of the application or is a file.    *)
Chain(cap) == [data |-> <<>>, mis |-> 0, cap |-> cap, kind |-> "mem", id |-> "none"]
Off(c) == Len(c.data)
SPACE_LEN(c) == IF c.kind # "mem" THEN 0 ELSE c.cap - c.mis - Off(c)

(* Mutant of Put: the bytes are put where those of the chain begin.        *)
Mutant_put_first(c, s) == [c EXCEPT !.data = s \o @]

Put(c, s) == [c EXCEPT !.data = @ \o s]
Drop(c, n) == [c EXCEPT !.data = SubSeq(@, n + 1, Len(@)), !.mis = @ + n]

(* An evbuffer; lwd is the index of *last_with_datap, one more than the    *)
(* number of chains for a null pointer.  gone are the references that were *)
(* cleaned up; seen is the length when the callbacks last ran, wrong that  *)
(* they were given another one; bad says that an assertion failed.  Two    *)
(* facts of the past: astray, that an addition left last_with_datap behind *)
(* (Astray), and miscount, that evbuffer_prepend counted other bytes than  *)
(* its own.                                                                *)
evbuffer_new == [ch |-> <<>>, lwd |-> 1, len |-> 0, add |-> 0, del |-> 0,
                 seen |-> 0, wrong |-> FALSE, astray |-> FALSE, miscount |-> FALSE,
                 start |-> FALSE, end |-> FALSE, gone |-> {}, bad |-> FALSE]

Init == /\ bufs = [b \in Buf |-> evbuffer_new] /\ op = <<"new">>
        /\ calls \in Sides /\ ops = 0

Contents(cs) ==
    LET upto[i \in 0 .. Len(cs)] == IF i = 0 THEN <<>> ELSE upto[i - 1] \o cs[i].data
    IN  upto[Len(cs)]
Size(cs) == Len(Contents(cs))
Check(b, p) == [b EXCEPT !.bad = @ \/ ~p]
Last1(b) == b.ch[Len(b.ch)]
Leads(b) ==
    LET full == {i \in DOMAIN b.ch : Off(b.ch[i]) > 0}
    IN  b.lwd = IF full = {} THEN 1 ELSE Max(full)

(* The smallest doubling of MIN_BUFFER_SIZE that holds the chain as well.  *)
evbuffer_chain_new(size) ==
    LET fits == {k \in 0 .. 5 : MIN_BUFFER_SIZE * 2^k >= size + EVBUFFER_CHAIN_SIZE}
    IN  Chain(MIN_BUFFER_SIZE * 2^Min(fits) - EVBUFFER_CHAIN_SIZE)

evbuffer_chain_free(b, cs) ==
    LET ids == {cs[i].id : i \in {i \in DOMAIN cs : cs[i].kind # "mem"}}
    IN  [b EXCEPT !.gone = @ \cup ids, !.bad = @ \/ ids \cap b.gone # {}]

(* The first empty chain from *last_with_datap on, and its successors.     *)
Victims(b) == {i \in b.lwd .. Len(b.ch) : Off(b.ch[i]) = 0}

evbuffer_free_trailing_empty_chains(b) ==
    IF Victims(b) = {} THEN b
    ELSE LET i == Min(Victims(b))
             rest == SubSeq(b.ch, i, Len(b.ch))
         IN  Check([evbuffer_chain_free(b, rest) EXCEPT !.ch = SubSeq(@, 1, i - 1)],
                    Size(rest) = 0)

(* Bytes that come in the place of an empty chain, or into the last chain  *)
(* behind an empty one, may leave last_with_datap where it was.            *)
Astray(b) == [b EXCEPT !.astray = @ \/ b.bad \/ ~Leads(b)]

evbuffer_chain_insert(b, c) ==
    LET f == evbuffer_free_trailing_empty_chains(b)
        n == Len(b.ch)
    IN  Astray(Check([f EXCEPT !.ch = Append(@, c), !.len = @ + Off(c),
                               !.lwd = IF b.lwd <= n /\ Victims(b) = {} /\ Off(c) > 0
                                       THEN n + 1 ELSE @],
                     b.lwd > n => n = 0))

(* Mutant of ZERO_CHAIN: the chains stay.                                  *)
Mutant_keep_chains(b) == [b EXCEPT !.len = 0]

ZERO_CHAIN(b) == [b EXCEPT !.ch = <<>>, !.lwd = 1, !.len = 0, !.astray = FALSE]

advance_last_with_data(b) ==
    LET stay == {i \in b.lwd .. Len(b.ch) :
                    i = Len(b.ch) \/ Off(b.ch[i + 1]) = 0}
    IN  IF stay = {} THEN b ELSE [b EXCEPT !.lwd = Min(stay)]

Added(b, n) == [b EXCEPT !.len = @ + n, !.add = @ + n]

(* The callbacks are given the original size, computed from the counters,  *)
(* which start again.                                                      *)
evbuffer_invoke_callbacks(b) ==
    IF b.add = 0 /\ b.del = 0 THEN b
    ELSE [b EXCEPT !.add = 0, !.del = 0, !.seen = b.len,
                   !.wrong = @ \/ b.len + b.del - b.add # b.seen]

-----------------------------------------------------------------------------
(* Appending and prepending                                                *)

evbuffer_chain_should_realign(c, n) ==
    /\ c.cap - Off(c) >= n
    /\ Off(c) < c.cap \div 2 /\ Off(c) <= MAX_TO_REALIGN_IN_EXPAND
evbuffer_chain_align(c) == [c EXCEPT !.mis = 0]

evbuffer_add(b0, s) ==
    LET n == Len(s)
        b == IF b0.ch = <<>> THEN evbuffer_chain_insert(b0, evbuffer_chain_new(n)) ELSE b0
        c == Last1(b)
        k == Len(b.ch)
        remain == IF c.kind = "mem" THEN c.cap - c.mis - Off(c) ELSE 0
        wanted == IF c.cap <= EVBUFFER_CHAIN_MAX_AUTO_SIZE \div 2 THEN 2 * c.cap ELSE c.cap
        tmp == Put(evbuffer_chain_new(IF n > wanted THEN n ELSE wanted),
                   SubSeq(s, remain + 1, n))
        filled == Added([b EXCEPT !.ch[k] = Put(@, SubSeq(s, 1, remain))], remain)
    IN  evbuffer_invoke_callbacks(Astray(
          IF c.kind = "mem" /\ remain >= n
          THEN Added([b EXCEPT !.ch[k] = Put(@, s)], n)
          ELSE IF c.kind = "mem" /\ evbuffer_chain_should_realign(c, n)
          THEN Added([b EXCEPT !.ch[k] = Put(evbuffer_chain_align(@), s)], n)
          ELSE LET z == evbuffer_chain_insert(filled, tmp)
               IN  [z EXCEPT !.add = @ + n - remain]))

(* The counter for the callbacks misses the bytes of a new chain: it gets  *)
(* the space that is left before those of the old one.                     *)
evbuffer_prepend(b0, s) ==
    LET n == Len(s)
        b1 == IF b0.ch = <<>> THEN evbuffer_chain_insert(b0, evbuffer_chain_new(n)) ELSE b0
        c0 == b1.ch[1]
        c == IF c0.kind = "mem" /\ Off(c0) = 0 THEN [c0 EXCEPT !.mis = c0.cap] ELSE c0
        m == IF c.kind = "mem" THEN Min({c.mis, n}) ELSE 0
        b == Added([b1 EXCEPT !.ch[1] =
                        [c EXCEPT !.data = SubSeq(s, n - m + 1, n) \o @, !.mis = @ - m]], m)
        tmp == evbuffer_chain_new(n - m)
    IN  IF m = n THEN b
        ELSE [b EXCEPT !.ch = <<[tmp EXCEPT !.data = SubSeq(s, 1, n - m),
                                            !.mis = tmp.cap - (n - m)]>> \o @,
                       !.lwd = @ + 1, !.len = @ + n - m,
                       !.add = @ + b.ch[1].mis,
                       !.miscount = @ \/ b.ch[1].mis # n - m]

(* A buffer with the chains of another behind its own.                     *)
APPEND_CHAIN(dst, src) ==
    [dst EXCEPT !.ch = @ \o src.ch, !.lwd = Len(dst.ch) + src.lwd, !.len = @ + src.len,
                !.astray = src.astray]

COPY_CHAIN(dst, src) ==
    [dst EXCEPT !.ch = src.ch, !.lwd = src.lwd, !.len = src.len, !.astray = src.astray]

PREPEND_CHAIN(dst, src) ==
    [dst EXCEPT !.ch = src.ch \o @, !.len = @ + src.len,
                !.lwd = IF @ > Len(dst.ch) THEN src.lwd ELSE @ + Len(src.ch)]

(* evbuffer_add_buffer and evbuffer_prepend_buffer                         *)
Joined(name, dst, src) ==
    LET z == CASE dst.len = 0 -> COPY_CHAIN(evbuffer_chain_free(dst, dst.ch), src)
               [] name = "prepend_buffer" -> PREPEND_CHAIN(dst, src)
               [] OTHER -> APPEND_CHAIN(dst, src)
    IN  [dst |-> evbuffer_invoke_callbacks([z EXCEPT !.add = @ + src.len]),
         src |-> evbuffer_invoke_callbacks(ZERO_CHAIN([src EXCEPT !.del = @ + src.len]))]

add_reference(b, id, kind, s, mis) ==
    LET z == evbuffer_chain_insert(b, [data |-> s, mis |-> mis, cap |-> Len(s) + mis,
                                       kind |-> kind, id |-> id])
    IN  [z EXCEPT !.add = @ + Len(s)]

-----------------------------------------------------------------------------
(* Removing                                                                *)

(* The number of chains that the first n bytes fill.                       *)
Whole(cs, n) ==
    CHOOSE k \in 0 .. Len(cs) :
        /\ Size(SubSeq(cs, 1, k)) <= n
        /\ k = Len(cs) \/ Size(SubSeq(cs, 1, k + 1)) > n

(* The chains without the first n bytes; last_with_datap goes back to the  *)
(* first chain when the chain it points to, or lies in, is removed.        *)
Cut(b, n) ==
    LET k == Whole(b.ch, n)
        rest == SubSeq(b.ch, k + 1, Len(b.ch))
    IN  [b EXCEPT !.ch = IF rest = <<>> THEN rest
                         ELSE [rest EXCEPT ![1] = Drop(@, n - Size(SubSeq(b.ch, 1, k)))],
                  !.lwd = IF k = 0 THEN @ ELSE IF @ <= k + 1 THEN 1 ELSE @ - k]

evbuffer_drain(b, n0) ==
    LET n == Min({n0, b.len})
        freed == evbuffer_chain_free(b, SubSeq(b.ch, 1, Whole(b.ch, n)))
        z == IF n = b.len THEN ZERO_CHAIN(evbuffer_chain_free(b, b.ch))
                          ELSE [Cut(freed, n) EXCEPT !.len = @ - n]
    IN  IF b.len = 0 THEN b ELSE evbuffer_invoke_callbacks([z EXCEPT !.del = @ + n])

evbuffer_copyout(b, n) == SubSeq(Contents(b.ch), 1, Min({n, b.len}))

(* The buffers after datlen bytes of src, and not all, have gone to dst:   *)
(* whole chains are moved, the rest is copied.  When the whole chains hold *)
(* nothing they stay, but last_with_datap goes back all the same.          *)
evbuffer_remove_buffer(src, dst, n) ==
    LET k == Whole(src.ch, n)
        moved == SubSeq(src.ch, 1, k)
        nread == Size(moved)
        cut == Cut(src, n)
        f == evbuffer_free_trailing_empty_chains(dst)
        d == IF nread = 0 THEN dst
             ELSE Added(advance_last_with_data([f EXCEPT !.ch = @ \o moved]), nread)
        stay == [cut EXCEPT !.ch = moved \o @, !.lwd = IF src.lwd <= k + 1 THEN 1 ELSE src.lwd]
        left == IF nread = 0 THEN stay ELSE cut
    IN  [dst |-> evbuffer_add(d, SubSeq(Contents(src.ch), nread + 1, n)),
         src |-> evbuffer_invoke_callbacks(
                   Check([left EXCEPT !.len = @ - n, !.del = @ + n],
                          ~(k >= 1 /\ src.lwd = 1)))]

(* The first size bytes are put together in the first chain.               *)
evbuffer_pullup(b, size) ==
    LET c == b.ch[1]
        inPlace == c.cap - c.mis >= size
        s == IF inPlace THEN 2 ELSE 1
        k == Whole(b.ch, size)
        tmp == IF inPlace THEN [c EXCEPT !.data = SubSeq(Contents(b.ch), 1, size)]
               ELSE Put(evbuffer_chain_new(size), SubSeq(Contents(b.ch), 1, size))
        rest == Cut(b, size).ch
        chs == <<tmp>> \o rest
        freed == evbuffer_chain_free(b, SubSeq(b.ch, s, k))
    IN  IF size = 0 \/ size > b.len \/ Off(c) >= size THEN b
        ELSE [freed EXCEPT
                !.ch = chs,
                !.lwd = IF s <= @ /\ @ <= k THEN 1
                        ELSE IF s < @ /\ @ <= k + 1
                        THEN IF rest # <<>> /\ Off(rest[1]) > 0 THEN 2 ELSE 1
                        ELSE IF @ = 1 THEN 1 ELSE @ - k + 1]

-----------------------------------------------------------------------------
(* Space to read into                                                      *)

(* The first chain with space, or one that is added: its index.  A chain   *)
(* is never resized, for its condition, EVBUFFER_CHAIN_MAX - datlen >=     *)
(* chain->off, is true of every size that fits into memory.                *)
evbuffer_expand_singlechain(b, n) ==
    LET i == IF b.lwd <= Len(b.ch) /\ SPACE_LEN(b.ch[b.lwd]) = 0 THEN b.lwd + 1 ELSE b.lwd
        c == b.ch[i]
        z == evbuffer_chain_insert(b, evbuffer_chain_new(n))
        new == [b |-> z, i |-> Len(z.ch)]
    IN  IF i > Len(b.ch) THEN new
        ELSE IF c.kind # "mem" THEN new
        ELSE IF SPACE_LEN(c) >= n THEN [b |-> b, i |-> i]
        ELSE IF Off(c) = 0 THEN new
        ELSE IF evbuffer_chain_should_realign(c, n)
        THEN [b |-> [b EXCEPT !.ch[i] = evbuffer_chain_align(@)], i |-> i]
        ELSE IF i < Len(b.ch) /\ SPACE_LEN(b.ch[i + 1]) >= n THEN [b |-> b, i |-> i + 1]
        ELSE new

(* Space in up to nv chains: what is there, another chain, or one instead  *)
(* of all empty ones.                                                      *)
_evbuffer_expand_fast(b, n, nv) ==
    LET Step(a, i) ==
            LET c == a.b.ch[i]
                empty == Off(c) = 0
                room == IF empty THEN c.cap ELSE SPACE_LEN(c)
            IN  IF a.avail >= n \/ a.used = nv THEN a
                ELSE [avail |-> a.avail + room,
                      used |-> IF empty \/ room > 0 THEN a.used + 1 ELSE a.used,
                      b |-> IF empty THEN [a.b EXCEPT !.ch[i] = evbuffer_chain_align(@)]
                                     ELSE Check(a.b, i = b.lwd)]
        a == FoldLeft(Step, [avail |-> 0, used |-> 0, b |-> b],
                      [i \in 1 .. Len(b.ch) - b.lwd + 1 |-> b.lwd + i - 1])
        z == a.b
        all == Off(z.ch[z.lwd]) = 0
        keep == IF all THEN z.lwd - 1 ELSE z.lwd
        have == IF all THEN 0 ELSE SPACE_LEN(z.ch[z.lwd])
        tail == SubSeq(z.ch, keep + 1, Len(z.ch))
    IN  IF b.ch = <<>> THEN evbuffer_chain_insert(b, evbuffer_chain_new(n))
        ELSE IF Last1(b).kind # "mem" THEN evbuffer_chain_insert(b, evbuffer_chain_new(n))
        ELSE IF a.avail >= n THEN z
        ELSE IF a.used < nv THEN [z EXCEPT !.ch = Append(@, evbuffer_chain_new(n - a.avail))]
        ELSE Check([evbuffer_chain_free(z, tail) EXCEPT
                        !.ch = Append(SubSeq(@, 1, keep), evbuffer_chain_new(n - have))],
                    Size(tail) = 0 /\ (all => z.lwd = 1))

(* Bytes go to the chains from the first one with space on, and the last   *)
(* of these becomes the last one with data.                                *)
_evbuffer_read_setup_vecs(b) ==
    IF SPACE_LEN(b.ch[b.lwd]) = 0 THEN b.lwd + 1 ELSE b.lwd

Filled(b, s) ==
    LET first == _evbuffer_read_setup_vecs(b)
        Step(a, i) ==
            LET m == Min({SPACE_LEN(a.b.ch[i]), Len(a.s)})
            IN  IF a.s = <<>> THEN a
                ELSE [s |-> SubSeq(a.s, m + 1, Len(a.s)),
                      b |-> [a.b EXCEPT !.ch[i] = Put(@, SubSeq(a.s, 1, m)),
                                        !.lwd = IF m = Len(a.s) THEN i ELSE @]]
        a == FoldLeft(Step, [s |-> s, b |-> b],
                      [i \in 1 .. Len(b.ch) - first + 1 |-> first + i - 1])
    IN  Added(a.b, Len(s))

evbuffer_read(b, howmuch, s) ==
    LET z == _evbuffer_expand_fast(b, howmuch, 4)
    IN  IF s = <<>> THEN z ELSE evbuffer_invoke_callbacks(Filled(z, s))

(* Space for n bytes is reserved, in one or two extents, and the bytes of  *)
(* s are committed; evbuffer_add_vprintf does the same with one extent.    *)
evbuffer_commit_space(b, n, extents, s) ==
    LET e == evbuffer_expand_singlechain(b, n)
        one == Added([e.b EXCEPT !.ch[e.i] = Put(@, s)], Len(s))
    IN  evbuffer_invoke_callbacks(
          IF extents = 2 THEN Filled(_evbuffer_expand_fast(b, n, 2), s)
          ELSE IF e.i = Len(e.b.ch) THEN IF s = <<>> THEN e.b ELSE advance_last_with_data(one)
          ELSE [one EXCEPT !.lwd = IF s = <<>> THEN @ ELSE e.i])

evbuffer_add_vprintf(b, s) ==
    LET e == evbuffer_expand_singlechain(b, 2)
        f == IF Len(s) < SPACE_LEN(e.b.ch[e.i]) THEN e
             ELSE evbuffer_expand_singlechain(e.b, Len(s) + 1)
    IN  evbuffer_invoke_callbacks(advance_last_with_data(
            Added([f.b EXCEPT !.ch[f.i] = Put(@, s)], Len(s))))

(* What is offered to one writev or sendfile: a file chain goes alone, and *)
(* whole, whatever the caller's limit.                                     *)
evbuffer_write_iovec(b, howmuch) ==
    LET files == {i \in DOMAIN b.ch : b.ch[i].kind = "file"}
        k == IF files = {} THEN Len(b.ch) ELSE Min(files) - 1
    IN  IF 1 \in files THEN Off(b.ch[1])
        ELSE Min({howmuch, Size(SubSeq(b.ch, 1, Min({k, NUM_WRITE_IOVEC})))})

-----------------------------------------------------------------------------
(* The calls                                                               *)

(* The bytes that the application adds follow those that are there.        *)
Fresh(b, n) ==
    LET c == Contents(bufs[b].ch)
        from == IF c = <<>> THEN 0 ELSE c[Len(c)] + 1
    IN  [i \in 1 .. n |-> (from + i - 1) % Byte]
FreshFront(b, n) ==
    LET c == Contents(bufs[b].ch)
        from == IF c = <<>> THEN Byte ELSE c[1] + Byte
    IN  [i \in 1 .. n |-> (from + n * Byte - n + i - 1) % Byte]

Live(b) == {bufs[b].ch[i].id : i \in DOMAIN bufs[b].ch} \ {"none"}
Room(b) == 1 .. Min({3, MaxLen - bufs[b].len})
Call(name, b, z, o) == name \in calls /\ bufs' = [bufs EXCEPT ![b] = z] /\ op' = o
Refuse(b) == bufs' = bufs /\ op' = <<"refused", b>>

Append_(name, b, s, z) ==
    IF bufs[b].end THEN name \in calls /\ Refuse(b) ELSE Call(name, b, z, <<"append", b, s>>)

add(b) ==
    \E n \in Room(b) : LET s == Fresh(b, n) IN Append_("add", b, s, evbuffer_add(bufs[b], s))

prepend(b) ==
    \E n \in Room(b) :
        LET s == FreshFront(b, n)
            z == evbuffer_invoke_callbacks(evbuffer_prepend(bufs[b], s))
        IN  IF bufs[b].start THEN "prepend" \in calls /\ Refuse(b)
            ELSE Call("prepend", b, z, <<"prepend", b, s>>)

reference(b, id) ==
    /\ \A d \in Buf : id \notin Live(d) \cup bufs[d].gone
    /\ \E n \in Room(b) \cup (IF "empty reference" \in calls THEN {0} ELSE {}) :
        LET s == Fresh(b, n)
        IN  Append_("reference", b, s,
                    evbuffer_invoke_callbacks(add_reference(bufs[b], id, "ref", s, 0)))

(* evbuffer_add_file with sendfile, or a map of the file up to the end of  *)
(* what is added, from which the first offset bytes are then drained: not  *)
(* from the new chain, but from the buffer.                                *)
add_file(b, id, offset) ==
    /\ \A d \in Buf : id \notin Live(d) \cup bufs[d].gone
    /\ offset = 0 \/ "offset" \in calls
    /\ \E n \in Room(b) :
        LET s == Fresh(b, n)
            before == [i \in 1 .. offset |-> 0]
            sent == evbuffer_invoke_callbacks(add_reference(bufs[b], id, "file", s, offset))
            z == add_reference(bufs[b], id, "mmap", before \o s, 0)
            mapped == evbuffer_invoke_callbacks(
                         IF offset = 0 THEN z ELSE evbuffer_drain(z, offset))
        IN  \/ Append_("sendfile", b, s, sent)
            \/ Append_("mmap", b, s, mapped)

drain(b) ==
    \E n \in 0 .. bufs[b].len + 1 :
        IF bufs[b].start THEN bufs[b].len > 0 /\ "drain" \in calls /\ Refuse(b)
        ELSE Call("drain", b, evbuffer_drain(bufs[b], n),
                  <<"remove", b, evbuffer_copyout(bufs[b], n)>>)

pullup(b) ==
    \E n \in 1 .. bufs[b].len :
        LET z == evbuffer_pullup(bufs[b], n)
        IN  Call("pullup", b, z, <<"look", b, SubSeq(z.ch[1].data, 1, n)>>)

(* evbuffer_add_buffer, evbuffer_prepend_buffer, evbuffer_remove_buffer    *)
move(src, dst, name, n) ==
    LET r == IF n < bufs[src].len /\ name # "prepend_buffer"
             THEN evbuffer_remove_buffer(bufs[src], bufs[dst], n)
             ELSE Joined(name, bufs[dst], bufs[src])
        closed == bufs[src].start \/ (IF name = "prepend_buffer" THEN bufs[dst].start
                                                                  ELSE bufs[dst].end)
    IN  /\ name \in calls /\ src # dst
        /\ bufs[src].len > 0 /\ bufs[dst].len + n <= MaxLen
        /\ IF closed THEN Refuse(IF bufs[src].start THEN src ELSE dst)
           ELSE /\ bufs' = [bufs EXCEPT ![src] = r.src, ![dst] = r.dst]
                /\ op' = IF name = "prepend_buffer" THEN <<"move to front", src, dst>>
                                                    ELSE <<"move", src, dst, n>>

read(b, howmuch) ==
    \/ \E n \in Room(b) :
        /\ n <= howmuch
        /\ LET s == Fresh(b, n)
           IN  Append_("read", b, s, evbuffer_read(bufs[b], howmuch, s))
    \/ /\ ~bufs[b].end
       /\ Call("read", b, evbuffer_read(bufs[b], howmuch, <<>>), <<"nothing", b>>)

commit(b, n, extents) ==
    \E m \in {0} \cup Room(b) :
        /\ m <= n
        /\ LET s == Fresh(b, m)
           IN  Append_("commit", b, s, evbuffer_commit_space(bufs[b], n, extents, s))

printf(b) ==
    \E n \in Room(b) :
        LET s == Fresh(b, n) IN Append_("printf", b, s, evbuffer_add_vprintf(bufs[b], s))

expand(b, n) ==
    Call("expand", b, evbuffer_expand_singlechain(bufs[b], n).b, <<"nothing", b>>)

write(b, howmuch) ==
    LET offered == evbuffer_write_iovec(bufs[b], Min({howmuch, bufs[b].len}))
    IN  IF bufs[b].start THEN "write" \in calls /\ Refuse(b)
        ELSE bufs[b].len > 0 /\ \E n \in 1 .. offered :
             Call("write", b, evbuffer_drain(bufs[b], n),
                  <<"remove", b, evbuffer_copyout(bufs[b], n), howmuch>>)

(* evbuffer_freeze and evbuffer_unfreeze                                   *)
freeze(b, at) ==
    Call("freeze", b, IF at = "start" THEN [bufs[b] EXCEPT !.start = ~@]
                                      ELSE [bufs[b] EXCEPT !.end = ~@], <<"freeze", b, at>>)

(* An assertion that fails ends the program.                               *)
AssertionsHold == \A b \in Buf : ~bufs[b].bad

Next ==
    /\ ops < MaxOps /\ AssertionsHold
    /\ ops' = ops + 1 /\ calls' = calls
    /\ \E b \in Buf :
        \/ add(b) \/ prepend(b) \/ drain(b) \/ pullup(b) \/ printf(b)
        \/ \E id \in Ref : reference(b, id) \/ \E offset \in 0 .. 1 : add_file(b, id, offset)
        \/ \E d \in Buf : \/ move(b, d, "prepend_buffer", bufs[b].len)
                          \/ move(b, d, "add_buffer", bufs[b].len)
                          \/ \E n \in 1 .. bufs[b].len : move(b, d, "remove_buffer", n)
        \/ \E n \in 1 .. MaxLen : \/ read(b, n) \/ expand(b, n) \/ write(b, n)
                                  \/ \E x \in 1 .. 2 : commit(b, n, x)
        \/ \E at \in {"start", "end"} : freeze(b, at)

Spec == Init /\ [][Next]_vars

-----------------------------------------------------------------------------
(* Properties                                                              *)

(* However its bytes are split over chains, copied, moved and realigned,   *)
(* an evbuffer is a queue of bytes, and two evbuffers that give each other *)
(* their chains are two queues, for every mix of the calls; but only until *)
(* an addition meets an empty chain behind the last one with data and      *)
(* leaves last_with_datap there (buffer.c:306-310, 1561): from then on     *)
(* bytes may land in the middle.  That addition itself still appends, if   *)
(* no assertion fails.                                                     *)
Queue == INSTANCE ByteQueue WITH
    q <- [b \in Buf |-> Contents(bufs[b].ch)],
    frozen <- {<<b, "start">> : b \in {d \in Buf : bufs[d].start}}
                 \cup {<<b, "end">> : b \in {d \in Buf : bufs[d].end}},
    op <- SubSeq(op, 1, IF op[1] = "move" THEN 4 ELSE IF Len(op) > 3 THEN 3 ELSE Len(op))
NoneAstray == \A b \in Buf : ~bufs[b].astray
QueueStep == NoneAstray /\ AssertionsHold' => Queue!Next \/ Queue!vars' = Queue!vars

(* The length that is kept is the sum of those of the chains and no        *)
(* assertion of the code fails (buffer.c:280, 297, 312, 1131, 1886, 1928), *)
(* unless an addition left last_with_datap behind; and no chain ever holds *)
(* more than its allocation (buffer.c:593, 714-726).                       *)
ChainsAgree ==
    \A b \in Buf :
        /\ bufs[b].astray \/ (bufs[b].len = Size(bufs[b].ch) /\ ~bufs[b].bad)
        /\ \A i \in DOMAIN bufs[b].ch :
              bufs[b].ch[i].mis + Off(bufs[b].ch[i]) <= bufs[b].ch[i].cap

(* The callbacks are told by how much the buffer grew and shrank since     *)
(* they last ran: the original size is the one they saw (buffer.c:474),    *)
(* unless evbuffer_prepend needed a new chain and counted the space before *)
(* the old one instead of its own bytes (buffer.c:1708).                   *)
CallbacksTold == \A b \in Buf : bufs[b].wrong => bufs[b].miscount

(* last_with_datap leads to the last chain with data: where it does not,   *)
(* bytes that are read would be put before others (evbuffer-internal.h,    *)
(* last_with_datap).  Nothing but an addition that met an empty chain      *)
(* leaves it behind: no read, commit, move, drain or pullup does.          *)
LastWithData == \A b \in Buf : bufs[b].astray \/ Leads(bufs[b])

(* The cleanup of memory that was added by reference, or the close of a    *)
(* file, happens once and not before its chain has left all buffers, and   *)
(* the chain of a reference is in one buffer (buffer.c:192-236, 2740-2777).*)
CleanedOnce ==
    /\ \A b, d \in Buf : bufs[b].gone \cap Live(d) = {}
    /\ \A b, d \in Buf : b # d => bufs[b].gone \cap bufs[d].gone = {}
                                  /\ Live(b) \cap Live(d) = {}

=============================================================================
