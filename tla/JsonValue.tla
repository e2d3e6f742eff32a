----------------------------- MODULE JsonValue -----------------------------
(* Json::Value of jsoncpp, json_value.cpp: the tagged union of a document,   *)
(* its conversions, its order, its arrays and objects (one std::map each),   *)
(* its comments, and Json::Path.                                             *)
(*                                                                           *)
(* A value is a record whose fields depend on its type: an array maps the    *)
(* indices it holds to values, an object the names, each with its comments.  *)
(* A real is the number of its halves.  An operation returns the new value,  *)
(* Abort where the code ends in a failed assert, Throw where it throws.  A   *)
(* character is a string of length one ("NUL" for the byte zero), a C++      *)
(* string a sequence of them.                                                *)
EXTENDS Integers, Sequences, FiniteSets, SequencesExt

CONSTANTS MaxInt,       \* Value::maxInt
          NullString    \* the string_ of a Value(stringValue): a null pointer

WidthAssumption == MaxInt \in Nat \ {0}

MinInt == -MaxInt - 1
MaxUInt == 2 * MaxInt + 1

Throw == [type |-> "throw"]
Abort == [type |-> "abort"]
Missing == [type |-> "missing"]    \* a reference to Value::null itself

Placements == {"before", "afterSameLine", "after"}
NoComments == [p \in Placements |-> <<>>]
-----------------------------------------------------------------------------
(* Characters and their codes; a byte above 127 is # and its number. *)
Ascii == "NUL" :> 0 @@ "BS" :> 8 @@ "\t" :> 9 @@ "\n" :> 10 @@ "\f" :> 12 @@ "\r" :> 13
         @@ "US" :> 31 @@ " " :> 32 @@ "\"" :> 34 @@ "%" :> 37 @@ "*" :> 42 @@ "+" :> 43
         @@ "," :> 44 @@ "-" :> 45 @@ "." :> 46 @@ "/" :> 47 @@ "0" :> 48 @@ "1" :> 49
         @@ "2" :> 50 @@ "3" :> 51 @@ "4" :> 52 @@ "5" :> 53 @@ "6" :> 54 @@ "7" :> 55
         @@ "8" :> 56 @@ "9" :> 57 @@ ":" :> 58 @@ "A" :> 65 @@ "B" :> 66 @@ "C" :> 67
         @@ "D" :> 68 @@ "E" :> 69 @@ "F" :> 70 @@ "[" :> 91 @@ "\\" :> 92 @@ "]" :> 93
         @@ "a" :> 97 @@ "b" :> 98 @@ "c" :> 99 @@ "d" :> 100 @@ "e" :> 101 @@ "f" :> 102
         @@ "l" :> 108 @@ "n" :> 110 @@ "r" :> 114 @@ "s" :> 115 @@ "t" :> 116
         @@ "u" :> 117 @@ "x" :> 120 @@ "{" :> 123 @@ "}" :> 125
CharOf == [n \in 0 .. 255 |-> IF \E c \in DOMAIN Ascii : Ascii[c] = n
                              THEN CHOOSE c \in DOMAIN Ascii : Ascii[c] = n
                              ELSE "#" \o ToString(n)]
Ord == [c \in {CharOf[n] : n \in 0 .. 255} |-> CHOOSE n \in 0 .. 255 : CharOf[n] = c]

CString(s) ==
    IF \E i \in DOMAIN s : s[i] = "NUL"
    THEN SubSeq(s, 1, (CHOOSE i \in DOMAIN s :
                           s[i] = "NUL" /\ \A j \in 1 .. i - 1 : s[j] # "NUL") - 1)
    ELSE s

StrLess(s, t) ==
    \E i \in 0 .. Len(s) :
        /\ i < Len(t)
        /\ \A j \in 1 .. i : s[j] = t[j]
        /\ i = Len(s) \/ Ord[s[i + 1]] < Ord[t[i + 1]]
-----------------------------------------------------------------------------
(* Construction, copy and assignment. *)
NullV == [type |-> "null", com |-> NoComments]
IntV(i) == [type |-> "int", int |-> i, com |-> NoComments]
UIntV(u) == [type |-> "uint", uint |-> u, com |-> NoComments]
RealV(h) == [type |-> "real", halves |-> h, com |-> NoComments]
StringV(s) == [type |-> "string", str |-> s, com |-> NoComments]
BoolV(b) == [type |-> "bool", bool |-> b, com |-> NoComments]
ArrayV(m) == [type |-> "array", arr |-> m, com |-> NoComments]
ObjectV(m) == [type |-> "object", obj |-> m, com |-> NoComments]

ValueOfType(type) ==
    CASE type = "null" -> NullV
      [] type = "int" -> IntV(0)
      [] type = "uint" -> UIntV(0)
      [] type = "real" -> RealV(0)
      [] type = "string" -> StringV(NullString)
      [] type = "bool" -> BoolV(FALSE)
      [] type = "array" -> ArrayV(<<>>)
      [] type = "object" -> ObjectV(<<>>)

(* A copy is deep; the characters of a string after a NUL are not copied. *)
RECURSIVE Copy(_)
Copy(v) ==
    CASE v.type = "string" ->
            IF v.str = NullString THEN v ELSE [v EXCEPT !.str = CString(@)]
      [] v.type = "array" -> [v EXCEPT !.arr = [i \in DOMAIN @ |-> Copy(@[i])]]
      [] v.type = "object" -> [v EXCEPT !.obj = [k \in DOMAIN @ |-> Copy(@[k])]]
      [] OTHER -> v

(* swap() leaves the comments where they are, and so does operator=. *)
Swap(v, w) == <<[w EXCEPT !.com = v.com], [v EXCEPT !.com = w.com]>>
Assign(old, new) == Swap(old, Copy(new))[1]

(* setComment: an assertion and an exception guard the text. *)
SetComment(v, text, p) ==
    IF CString(text) # <<>> /\ text[1] # "/" THEN Throw
    ELSE [v EXCEPT !.com[p] = <<CString(text)>>]
HasComment(v, p) == v.com[p] # <<>>
GetComment(v, p) == IF HasComment(v, p) THEN v.com[p][1] ELSE <<>>
-----------------------------------------------------------------------------
IsNull(v) == v.type = "null"
IsArray(v) == v.type \in {"null", "array"}
IsObject(v) == v.type \in {"null", "object"}

(* The map behind an array or object, as begin() .. end() walk it. *)
MapOf(v) == CASE v.type = "array" -> v.arr [] v.type = "object" -> v.obj [] OTHER -> <<>>
Keys(v) ==
    CASE v.type = "array" -> SetToSortSeq(DOMAIN v.arr, <)
      [] v.type = "object" -> SetToSortSeq(DOMAIN v.obj, StrLess)
      [] OTHER -> <<>>

MaxKey(S) == CHOOSE i \in S : \A j \in S : j <= i
Size(v) ==
    CASE v.type = "array" -> IF DOMAIN v.arr = {} THEN 0 ELSE MaxKey(DOMAIN v.arr) + 1
      [] v.type = "object" -> Cardinality(DOMAIN v.obj)
      [] OTHER -> 0

Empty(v) == (IsArray(v) \/ IsObject(v)) /\ Size(v) = 0
-----------------------------------------------------------------------------
(* operator< and operator==. *)
Rank == [null |-> 0, int |-> 1, uint |-> 2, real |-> 3, string |-> 4, bool |-> 5,
         array |-> 6, object |-> 7]
KeyLess(v, k, l) == IF v.type = "array" THEN k < l ELSE StrLess(k, l)

RECURSIVE Less(_, _)
(* The order of two maps of one type: the first pair that differs decides. *)
MapLess(v, w, kv, kw) ==
    \E i \in 1 .. Len(kv) :
        /\ i <= Len(kw)
        /\ \A j \in 1 .. i - 1 :
             /\ kv[j] = kw[j]
             /\ ~Less(MapOf(v)[kv[j]], MapOf(w)[kw[j]])
             /\ ~Less(MapOf(w)[kw[j]], MapOf(v)[kv[j]])
        /\ \/ KeyLess(v, kv[i], kw[i])
           \/ kv[i] = kw[i] /\ Less(MapOf(v)[kv[i]], MapOf(w)[kw[i]])

Less(v, w) ==
    IF v.type # w.type THEN Rank[v.type] < Rank[w.type]
    ELSE CASE v.type = "null" -> FALSE
           [] v.type = "int" -> v.int < w.int
           [] v.type = "uint" -> v.uint < w.uint
           [] v.type = "real" -> v.halves < w.halves
           [] v.type = "bool" -> ~v.bool /\ w.bool
           [] v.type = "string" ->
                /\ w.str # NullString
                /\ v.str = NullString \/ StrLess(CString(v.str), CString(w.str))
           [] v.type \in {"array", "object"} ->
                LET sv == Cardinality(DOMAIN MapOf(v))
                    sw == Cardinality(DOMAIN MapOf(w))
                IN IF sv # sw THEN sv < sw ELSE MapLess(v, w, Keys(v), Keys(w))

RECURSIVE Equal(_, _)
Equal(v, w) ==
    /\ v.type = w.type
    /\ CASE v.type = "null" -> TRUE
         [] v.type = "int" -> v.int = w.int
         [] v.type = "uint" -> v.uint = w.uint
         [] v.type = "real" -> v.halves = w.halves
         [] v.type = "bool" -> v.bool = w.bool
         [] v.type = "string" ->
              \/ v.str = NullString /\ w.str = NullString
              \/ /\ NullString \notin {v.str, w.str}
                 /\ CString(v.str) = CString(w.str)
         [] v.type \in {"array", "object"} ->
              /\ DOMAIN MapOf(v) = DOMAIN MapOf(w)
              /\ \A k \in DOMAIN MapOf(v) : Equal(MapOf(v)[k], MapOf(w)[k])
-----------------------------------------------------------------------------
(* Conversions: what they return, or Throw. *)
Truncate(h) == IF h >= 0 THEN h \div 2 ELSE -((-h) \div 2)

AsString(v) ==
    CASE v.type = "null" -> StringV(<<>>)
      [] v.type = "string" -> StringV(IF v.str = NullString THEN <<>> ELSE CString(v.str))
      [] v.type = "bool" -> StringV(IF v.bool THEN <<"t", "r", "u", "e">>
                                              ELSE <<"f", "a", "l", "s", "e">>)
      [] OTHER -> Throw

AsInt(v) ==
    CASE v.type = "null" -> IntV(0)
      [] v.type = "int" -> IntV(v.int)
      [] v.type = "uint" /\ v.uint < MaxInt -> IntV(v.uint)
      [] v.type = "real" /\ v.halves \in 2 * MinInt .. 2 * MaxInt -> IntV(Truncate(v.halves))
      [] v.type = "bool" -> IntV(IF v.bool THEN 1 ELSE 0)
      [] OTHER -> Throw

AsUInt(v) ==
    CASE v.type = "null" -> UIntV(0)
      [] v.type = "int" /\ v.int >= 0 -> UIntV(v.int)
      [] v.type = "uint" -> UIntV(v.uint)
      [] v.type = "real" /\ v.halves \in 0 .. 2 * MaxUInt -> UIntV(Truncate(v.halves))
      [] v.type = "bool" -> UIntV(IF v.bool THEN 1 ELSE 0)
      [] OTHER -> Throw

AsDouble(v) ==
    CASE v.type = "null" -> RealV(0)
      [] v.type = "int" -> RealV(2 * v.int)
      [] v.type = "uint" -> RealV(2 * v.uint)
      [] v.type = "real" -> RealV(v.halves)
      [] v.type = "bool" -> RealV(IF v.bool THEN 2 ELSE 0)
      [] OTHER -> Throw

AsBool(v) ==
    CASE v.type = "null" -> FALSE
      [] v.type = "int" -> v.int # 0
      [] v.type = "uint" -> v.uint # 0
      [] v.type = "real" -> v.halves # 0
      [] v.type = "bool" -> v.bool
      [] v.type = "string" -> v.str # NullString /\ CString(v.str) # <<>>
      [] v.type \in {"array", "object"} -> DOMAIN MapOf(v) # {}

IsZero(v) ==
    CASE v.type = "int" -> v.int = 0
      [] v.type = "uint" -> v.uint = 0
      [] v.type = "real" -> v.halves = 0
      [] v.type = "bool" -> ~v.bool
      [] v.type = "string" -> v.str = NullString \/ CString(v.str) = <<>>
      [] v.type \in {"array", "object"} -> DOMAIN MapOf(v) = {}

IsConvertibleTo(v, other) ==
    \/ v.type = "null"
    \/ other = "null" /\ IsZero(v)
    \/ v.type \in {"string", "array", "object"} /\ other = v.type
    \/ /\ v.type \in {"int", "uint", "real", "bool"}
       /\ \/ other \in {"real", "string", "bool"}
          \/ /\ other = "int"
             /\ CASE v.type = "uint" -> v.uint <= MaxInt
                  [] v.type = "real" -> v.halves \in 2 * MinInt .. 2 * MaxInt
                  [] OTHER -> TRUE
          \/ /\ other = "uint"
             /\ CASE v.type = "int" -> v.int >= 0
                  [] v.type = "real" -> v.halves \in 0 .. 2 * MaxUInt
                  [] OTHER -> TRUE
-----------------------------------------------------------------------------
(* Arrays and objects. *)
With(f, k, x) == [l \in DOMAIN f \cup {k} |-> IF l = k THEN x ELSE f[l]]
Without(f, S) == [l \in DOMAIN f \ S |-> f[l]]

(* operator[](UInt): makes the element, and only it, if it is not there. *)
Element(v, i) ==
    IF ~IsArray(v) THEN Abort
    ELSE LET a == IF IsNull(v) THEN Assign(v, ArrayV(<<>>)) ELSE v
         IN IF i \in DOMAIN a.arr THEN a ELSE [a EXCEPT !.arr = With(@, i, NullV)]
(* resolveReference, behind the operator[]s of a name. *)
Member(v, k) ==
    IF ~IsObject(v) THEN Abort
    ELSE LET o == IF IsNull(v) THEN Assign(v, ObjectV(<<>>)) ELSE v
         IN IF k \in DOMAIN o.obj THEN o ELSE [o EXCEPT !.obj = With(@, k, NullV)]

(* The const operator[]s. *)
ElementOf(v, i) ==
    CASE ~IsArray(v) -> Abort
      [] IsNull(v) -> Missing
      [] OTHER -> IF i \in DOMAIN v.arr THEN v.arr[i] ELSE Missing
MemberOf(v, k) ==
    CASE ~IsObject(v) -> Abort
      [] IsNull(v) -> Missing
      [] OTHER -> IF k \in DOMAIN v.obj THEN v.obj[k] ELSE Missing

Get(found, default) == IF found = Missing THEN default ELSE found
IsMember(v, k) == MemberOf(v, k) # Missing
IsValidIndex(v, i) == i < Size(v)
GetMemberNames(v) == IF IsObject(v) THEN Keys(v) ELSE Abort

(* v[i] = x and v[k] = x. *)
SetElement(v, i, x) ==
    LET e == Element(v, i)
    IN IF e = Abort THEN e ELSE [e EXCEPT !.arr[i] = Assign(@, x)]
SetMember(v, k, x) ==
    LET m == Member(v, k)
    IN IF m = Abort THEN m ELSE [m EXCEPT !.obj[k] = Assign(@, x)]
AppendTo(v, x) == SetElement(v, Size(v), x)

RemoveMember(v, k) ==
    CASE ~IsObject(v) -> Abort
      [] IsNull(v) -> v
      [] OTHER -> [v EXCEPT !.obj = Without(@, {k})]

Clear(v) ==
    CASE v.type = "null" -> v
      [] v.type = "array" -> [v EXCEPT !.arr = <<>>]
      [] v.type = "object" -> [v EXCEPT !.obj = <<>>]
      [] OTHER -> Abort

Resize(v, n) ==
    IF ~IsArray(v) THEN Abort
    ELSE LET a == IF IsNull(v) THEN Assign(v, ArrayV(<<>>)) ELSE v
             cut == [a EXCEPT !.arr = Without(@, n .. Size(a) - 1)]
         IN CASE n = 0 -> Clear(a)
              [] n > Size(a) -> Element(a, n - 1)
              [] n > 0 /\ n <= Size(a) -> IF Size(cut) = n THEN cut ELSE Abort
-----------------------------------------------------------------------------
(* Json::Path: makePath takes a path apart, addPathInArg puts an argument    *)
(* where it says %.  Nothing that is wrong with a path is reported.          *)
IndexArg(i) == [kind |-> "index", index |-> i]
KeyArg(k) == [kind |-> "key", key |-> k]

Digit == [c \in {CharOf[n] : n \in 48 .. 57} |-> Ord[c] - 48]

(* The first character from p on that is none of S (or, of S if in is TRUE). *)
RECURSIVE SkipWhile(_, _, _, _)
SkipWhile(s, p, S, in) ==
    IF p > Len(s) \/ ((s[p] \in S) # in) THEN p ELSE SkipWhile(s, p + 1, S, in)
RECURSIVE Decimal(_, _, _)
Decimal(s, p, n) ==
    IF p <= Len(s) /\ s[p] \in DOMAIN Digit
    THEN Decimal(s, p + 1, (10 * n + Digit[s[p]]) % (MaxUInt + 1)) ELSE n

(* The iterator over the arguments is passed on but never moved. *)
AddPathInArg(in, kind, args) ==
    IF in # <<>> /\ in[1].kind = kind THEN Append(args, in[1]) ELSE args

RECURSIVE MakePathFrom(_, _, _, _)
MakePathFrom(s, p, in, args) ==
    IF p > Len(s) THEN args
    ELSE CASE s[p] = "[" /\ p < Len(s) /\ s[p + 1] = "%" ->
                MakePathFrom(s, p + 2, in, AddPathInArg(in, "index", args))
           [] s[p] = "[" /\ ~(p < Len(s) /\ s[p + 1] = "%") ->
                LET q == SkipWhile(s, p + 1, DOMAIN Digit, TRUE)
                IN MakePathFrom(s, q + 1, in, Append(args, IndexArg(Decimal(s, p + 1, 0))))
           [] s[p] = "%" -> MakePathFrom(s, p + 1, in, AddPathInArg(in, "key", args))
           [] s[p] = "." -> MakePathFrom(s, p + 1, in, args)
           [] OTHER ->
                LET q == SkipWhile(s, p, {"[", "."}, FALSE)
                IN MakePathFrom(s, q, in, Append(args, KeyArg(SubSeq(s, p, q - 1))))
MakePath(s, in) == MakePathFrom(s, 1, in, <<>>)

(* Mutant of Step: by the number of elements.                                *)
Mutant_step_count(node, arg) ==
    CASE node \in {Missing, Abort} -> node
      [] arg.kind = "index" ->
            IF IsArray(node) /\ arg.index >= Cardinality(DOMAIN MapOf(node)) THEN Missing
            ELSE ElementOf(node, arg.index)
      [] arg.kind = "key" -> MemberOf(node, arg.key)

Step(node, arg) ==
    CASE node = Missing -> Missing
      [] node = Abort -> Abort
      [] arg.kind = "index" -> ElementOf(node, arg.index)
      [] arg.kind = "key" -> MemberOf(node, arg.key)

(* Path::resolve( root ) *)
RECURSIVE Resolve(_, _)
Resolve(root, args) ==
    IF args = <<>> \/ root = Abort THEN root
    ELSE Resolve(Step(root, args[1]), Tail(args))

(* Path::resolve( root, defaultValue ) *)
RECURSIVE ResolveOr(_, _, _)
ResolveOr(root, args, default) ==
    IF args = <<>> THEN root
    ELSE LET arg == args[1]
         IN IF \/ arg.kind = "index" /\ (~IsArray(root) \/ IsValidIndex(root, arg.index))
               \/ arg.kind = "key" /\ (~IsObject(root) \/ MemberOf(root, arg.key) = Missing)
            THEN default
            ELSE ResolveOr(Get(Step(root, arg), NullV), Tail(args), default)

(* Path::make: the root with the node in it. *)
RECURSIVE Make(_, _)
Make(root, args) ==
    IF args = <<>> THEN root
    ELSE IF args[1].kind = "index"
    THEN LET i == args[1].index
             e == Element(root, i)
             sub == Make(e.arr[i], Tail(args))
         IN IF e = Abort THEN Abort ELSE IF sub = Abort THEN Abort
            ELSE [e EXCEPT !.arr[i] = sub]
    ELSE LET k == args[1].key
             m == Member(root, k)
             sub == Make(m.obj[k], Tail(args))
         IN IF m = Abort THEN Abort ELSE IF sub = Abort THEN Abort
            ELSE [m EXCEPT !.obj[k] = sub]
=============================================================================
