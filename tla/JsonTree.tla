------------------------------ MODULE JsonTree ------------------------------
(* A program that keeps two Json::Values and calls their operations on them, *)
(* in any order the preconditions of include/json/value.h allow.             *)
EXTENDS JsonValue

CONSTANTS Indices, Names, Leaves,
          MaxDepth,   \* how deep the program nests values
          MaxSize     \* and how large they grow

VARIABLES v, w,
          aborted,    \* a failed assert ended the program
          op          \* the operation last called and its argument

vars == <<v, w, aborted, op>>

RECURSIVE Depth(_)
Depth(x) == IF x.type \notin {"array", "object"} \/ DOMAIN MapOf(x) = {} THEN 0
            ELSE 1 + MaxKey({Depth(MapOf(x)[k]) : k \in DOMAIN MapOf(x)})

Init == v = NullV /\ w = NullV /\ aborted = FALSE /\ op = <<"none">>

(* One call that turns v into next. *)
Call(next, name) ==
    /\ ~aborted
    /\ op' = name
    /\ IF next = Abort THEN aborted' = TRUE /\ v' = v
                       ELSE /\ aborted' = FALSE /\ v' = next
                            /\ Depth(next) <= MaxDepth /\ Size(next) <= MaxSize
    /\ w' = w

SetAt(i, x) == IsArray(v) /\ Call(SetElement(v, i, x), <<"set", i>>)
Look(i) == IsArray(v) /\ Call(Element(v, i), <<"look", i>>)
AppendLeaf(x) == IsArray(v) /\ Call(AppendTo(v, x), <<"append">>)
ResizeTo(n) == IsArray(v) /\ Call(Resize(v, n), <<"resize", n>>)
SetName(k, x) == IsObject(v) /\ Call(SetMember(v, k, x), <<"name", k>>)
RemoveName(k) == IsObject(v) /\ Call(RemoveMember(v, k), <<"remove", k>>)
ClearAll == (IsArray(v) \/ IsObject(v)) /\ Call(Clear(v), <<"clear">>)
Comment(p) == Call(SetComment(v, <<"/", "/">>, p), <<"comment", p>>)
AssignW == Call(Assign(v, w), <<"assign">>)
SwapThem ==
    /\ ~aborted
    /\ v' = Swap(v, w)[1] /\ w' = Swap(v, w)[2]
    /\ op' = <<"swap">> /\ UNCHANGED aborted

Next ==
    \/ \E i \in Indices, x \in Leaves \cup {w} : SetAt(i, x)
    \/ \E i \in Indices : Look(i) \/ ResizeTo(i)
    \/ \E x \in Leaves \cup {w} : AppendLeaf(x)
    \/ \E k \in Names, x \in Leaves \cup {w} : SetName(k, x)
    \/ \E k \in Names : RemoveName(k)
    \/ Comment("before")
    \/ ClearAll \/ AssignW \/ SwapThem

Spec == Init /\ [][Next]_vars
-----------------------------------------------------------------------------
(* append() puts its element after all others, however sparse the array has  *)
(* become, and keeps them (Value::append).                                   *)
AppendKeeps ==
    op'[1] = "append" =>
      /\ Size(v') = Size(v) + 1
      /\ \A i \in DOMAIN MapOf(v') : i < Size(v) => v'.arr[i] = v.arr[i]
(* After resize(n) that returns, the size is n and what stays is unchanged   *)
(* (Value::resize).                                                          *)
ResizeExact ==
    op'[1] = "resize" /\ ~aborted' =>
      /\ Size(v') = op'[2]
      /\ v.type = "array" =>
           \A i \in DOMAIN v.arr : i < op'[2] => i \in DOMAIN v'.arr /\ v'.arr[i] = v.arr[i]
(* "comments are intentionally not swapped": only setComment changes the     *)
(* comments of a value, so a reader may attach them before the value is read.*)
CommentsStay == op'[1] # "comment" => v'.com = v.com /\ w'.com = w.com
(* What was assigned equals its source (Value::operator=).                   *)
AssignedEqual == op[1] = "assign" /\ ~aborted => Equal(v, w)
=============================================================================
