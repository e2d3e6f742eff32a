----------------------------- MODULE ByteQueue -----------------------------
(* What an evbuffer promises: a queue of bytes, open at both ends unless   *)
(* an end is frozen.  op is the operation last done and its result.        *)
EXTENDS Integers, Sequences

CONSTANTS Buf, Byte

VARIABLES q, frozen, op

vars == <<q, frozen, op>>

Init ==
    /\ q = [b \in Buf |-> <<>>]
    /\ frozen = {}
    /\ op = <<"new">>

Front(b, n) == SubSeq(q[b], 1, n)
Rest(b, n) == SubSeq(q[b], n + 1, Len(q[b]))

AddEnd(b, s) ==
    /\ <<b, "end">> \notin frozen
    /\ op' = <<"append", b, s>>
    /\ q' = [q EXCEPT ![b] = @ \o s]
    /\ UNCHANGED frozen

AddStart(b, s) ==
    /\ <<b, "start">> \notin frozen
    /\ op' = <<"prepend", b, s>>
    /\ q' = [q EXCEPT ![b] = s \o @]
    /\ UNCHANGED frozen

Remove(b, n) ==
    /\ <<b, "start">> \notin frozen
    /\ op' = <<"remove", b, Front(b, n)>>
    /\ q' = [q EXCEPT ![b] = Rest(b, n)]
    /\ UNCHANGED frozen

Move(src, dst, n) ==
    /\ src # dst /\ <<src, "start">> \notin frozen /\ <<dst, "end">> \notin frozen
    /\ op' = <<"move", src, dst, n>>
    /\ q' = [q EXCEPT ![src] = Rest(src, n), ![dst] = @ \o Front(src, n)]
    /\ UNCHANGED frozen

MoveToFront(src, dst) ==
    /\ src # dst /\ <<src, "start">> \notin frozen /\ <<dst, "start">> \notin frozen
    /\ op' = <<"move to front", src, dst>>
    /\ q' = [q EXCEPT ![src] = <<>>, ![dst] = q[src] \o @]
    /\ UNCHANGED frozen

Look(b, n) ==
    /\ op' = <<"look", b, Front(b, n)>>
    /\ UNCHANGED <<q, frozen>>

Freeze(b, at) ==
    /\ op' = <<"freeze", b, at>>
    /\ frozen' = IF <<b, at>> \in frozen THEN frozen \ {<<b, at>>}
                                         ELSE frozen \cup {<<b, at>>}
    /\ UNCHANGED q

Nothing(b) ==
    /\ op' = <<"nothing", b>>
    /\ UNCHANGED <<q, frozen>>

Refused(b) ==
    /\ {<<b, "start">>, <<b, "end">>} \cap frozen # {}
    /\ op' = <<"refused", b>>
    /\ UNCHANGED <<q, frozen>>

Next ==
    \E b \in Buf :
        \/ op'[1] \in {"append", "prepend"}
             /\ (AddEnd(b, op'[3]) \/ AddStart(b, op'[3]))
        \/ \E n \in 0 .. Len(q[b]) : Remove(b, n) \/ Look(b, n)
        \/ \E d \in Buf : MoveToFront(b, d) \/ \E n \in 0 .. Len(q[b]) : Move(b, d, n)
        \/ \E at \in {"start", "end"} : Freeze(b, at)
        \/ Nothing(b) \/ Refused(b)

Spec == Init /\ [][Next]_vars

=============================================================================
