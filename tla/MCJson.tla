------------------------------- MODULE MCJson -------------------------------
(***************************************************************************)
(* The JSON modules for TLC: the order and the conversions of a pool of    *)
(* values, paths, a program that changes values, documents of a few        *)
(* lexemes that are read, and values that are written and read back.  Each *)
(* is a part, and a behaviour is one of a single part; MCText has them     *)
(* among its own.                                                          *)
(***************************************************************************)
EXTENDS JsonText

VARIABLES part,
          x, y, z,            \* what a part is about, see the Init of each
          v, w, aborted, op   \* the program of JsonTree

given == <<x, y, z>>
program == <<v, w, aborted, op>>
allVars == <<part, r, given, program>>

A == <<"a">>
B == <<"b">>
Tree == INSTANCE JsonTree WITH Indices <- {0, 2}, Names <- {A}, Leaves <- {IntV(1)},
            MaxDepth <- 1, MaxSize <- 3

ArrayOf(t) == ArrayV([i \in 0 .. Len(t) - 1 |-> t[i + 1]])

-----------------------------------------------------------------------------
(* "values": every triple x, y, z of a pool of values.                     *)
Ints == {MinInt, -1, 0, 1, MaxInt}
UInts == {0, 1, MaxInt, MaxInt + 1, MaxUInt}
Reals == {2 * MinInt - 1, 2 * MinInt, -1, 0, 1, 2 * MaxInt, 2 * MaxInt + 1, 2 * MaxUInt,
          2 * MaxUInt + 1}
Strings == {NullString, <<>>, A, <<"a", "NUL", "b">>, <<"a", "b">>, B}
Arrays == {ArrayV(<<>>), ArrayV(0 :> NullV), ArrayV(1 :> NullV),
           ArrayV(0 :> IntV(1)), ArrayV(0 :> IntV(0) @@ 1 :> NullV),
           ArrayV(0 :> ArrayV(<<>>)), ArrayV(0 :> IntV(1) @@ 1 :> IntV(0)),
           ArrayV(0 :> IntV(0) @@ 1 :> IntV(1)), ArrayV(0 :> IntV(0) @@ 2 :> IntV(1))}
Objects == {ObjectV(<<>>), ObjectV(A :> NullV), ObjectV(A :> IntV(1)),
            ObjectV(B :> IntV(0)), ObjectV(<<"a", "b">> :> IntV(1)),
            ObjectV(A :> IntV(0) @@ B :> ArrayV(0 :> NullV))}
Pool == {NullV} \cup {IntV(i) : i \in Ints} \cup {UIntV(i) : i \in UInts}
          \cup {RealV(h) : h \in Reals} \cup {StringV(s) : s \in Strings}
          \cup {BoolV(b) : b \in BOOLEAN} \cup Arrays \cup Objects

(* "paths": x is the root, y the arguments of the path, z its text.        *)
PathArgs == {IndexArg(0), IndexArg(12), KeyArg(A), KeyArg(<<"b", "%">>)}
TextOf(args) ==
    FlattenSeq([i \in DOMAIN args |->
        CASE args[i] = IndexArg(0) -> <<"[", "0", "]">>
          [] args[i] = IndexArg(12) -> <<"[", "1", "2", "]">>
          [] args[i].kind = "key" -> <<".">> \o args[i].key])
Roots == {NullV, ArrayV(0 :> NullV @@ 12 :> IntV(1)), ObjectV(A :> ArrayV(0 :> IntV(1))),
          ArrayV(0 :> ObjectV(A :> IntV(1))), IntV(1)}

-----------------------------------------------------------------------------
(* Documents: x is the sequence of lexemes, or a code point and what       *)
(* stands around it in a string, and y a second reader of the document     *)
(* which does not collect comments.                                        *)
Lexemes == {<<"{">>, <<"}">>, <<"[">>, <<"]">>, <<",">>, <<":">>, <<"\"", "a", "\"">>, <<"1">>}
WithComment == Lexemes \cup {<<"/", "*", "c", "*", "/">>, <<"/", "/", "c", "\n">>}
Sequences_(S, n) == UNION {[1 .. i -> S] : i \in 0 .. n}
Document == FlattenSeq([i \in DOMAIN x |-> x[i] \o <<" ">>])
Readers(doc) == r = Parse(doc, NullV, All, TRUE) /\ y = Parse(doc, NullV, All, FALSE)

Hex4Text(n) == [i \in 1 .. 4 |-> LET d == (n \div 16 ^ (4 - i)) % 16
                                 IN CharOf[IF d < 10 THEN 48 + d ELSE 87 + d]]
Escaped(cp) ==
    IF cp < 65536 THEN <<"\\", "u">> \o Hex4Text(cp)
    ELSE <<"\\", "u">> \o Hex4Text(55296 + (cp - 65536) \div 1024)
         \o <<"\\", "u">> \o Hex4Text(56320 + ((cp - 65536) % 1024))
Points == 1 .. 40 \cup 120 .. 135 \cup 2040 .. 2055 \cup {4095, 4096, 55295, 57344, 65535}
            \cup {65536 + k : k \in {0, 1, 63, 64, 1023, 1024, 4095, 4096, 262143, 262144}}
            \cup {1114111}

-----------------------------------------------------------------------------
(* "write": x is the value, y the writer, and r reads what was written.    *)
Nums == {IntV(i) : i \in {MinInt, MinInt + 1, -13, -12, 0, 12, MaxInt}}
          \cup {UIntV(i) : i \in {0, MaxInt, MaxInt + 1, MaxUInt - 6, MaxUInt - 5, MaxUInt}}
          \cup {RealV(h) : h \in {-3, -2, 0, 1, 5, 20, 2 * MaxUInt + 1}}
Strs == {StringV(s) : s \in {<<>>, A, <<"\"">>, <<"\\">>, <<"a", "\\", "n">>, <<"/", "\n", "\t">>,
                             <<"US", "BS", "\f", "\r">>, <<"#195", "#128">>}}
Few == {IntV(1), StringV(<<"\\", "a">>), NullV, ArrayV(<<>>), ObjectV(<<>>)}
Keys_ == {<<>>, A, <<"\n">>}
Nested == {ArrayOf(<<e, f>>) : e \in {ObjectV(A :> IntV(1)), ArrayOf(<<IntV(1), NullV>>)},
                               f \in Few \cup {ArrayOf(<<StringV(A)>>)}}
            \cup {ObjectV(A :> e @@ B :> f) :
                    e \in {ArrayOf(<<NullV>>), ArrayOf(<<ArrayV(<<>>), ArrayOf(<<NullV>>)>>)},
                    f \in {ObjectV(A :> BoolV(TRUE)), IntV(1)}}
Uncommented ==
    Nums \cup Strs \cup {NullV, BoolV(TRUE), BoolV(FALSE)} \cup Nested
      \cup {ArrayOf(t) : t \in UNION {[1 .. n -> Few] : n \in 1 .. 3}}
      \cup {ArrayOf([i \in 1 .. n |-> IntV(i)]) : n \in 4 .. 6}
      \cup UNION {{ObjectV(m) : m \in [N -> Few]} : N \in (SUBSET Keys_) \ {{}}}

(* Comments as the reader attaches them.                                   *)
Commented(e) == {SetComment(e, t, p) : t \in {<<"/", "*", "c", "*", "/">>, <<"/", "/", "c", "\n">>},
                                       p \in Placements \ {"after"}}
CommentedLeaf == UNION {Commented(e) : e \in {IntV(1), ArrayV(<<>>), ArrayOf(<<IntV(1)>>),
                                              ObjectV(A :> NullV)}}
WithComments ==
    CommentedLeaf \cup UNION {Commented(e) : e \in Nested}
      \cup UNION {{ArrayOf(<<e, IntV(2)>>), ArrayOf(<<IntV(2), e>>),
                   ObjectV(A :> e @@ B :> IntV(2)), ObjectV(A :> IntV(2) @@ B :> e)}
                    : e \in CommentedLeaf}
WriteWith(e, how) ==
    CASE how = "fast" -> FastWrite(e, FALSE)
      [] how = "yaml" -> FastWrite(e, TRUE)
      [] how = "styled" -> StyledWrite(e, FALSE)
      [] how = "stream" -> StyledWrite(e, TRUE)

-----------------------------------------------------------------------------
Idle(e) == e = <<>>
NoReader == Idle(r)
NoProgram == v = NullV /\ w = NullV /\ aborted = FALSE /\ op = <<"none">>

Parts == {"values", "paths", "read", "comments", "escapes", "write", "tree"}

AllInit ==
    /\ part \in Parts
    /\ NoProgram
    /\ \/ part = "values" /\ x \in Pool /\ y \in Pool /\ z \in Pool /\ NoReader
       \/ part = "paths" /\ x \in Roots /\ y \in Sequences_(PathArgs, 3) /\ z = TextOf(y) /\ NoReader
       \/ part = "read" /\ x \in Sequences_(Lexemes, 4) /\ Idle(z) /\ Readers(Document)
       \/ part = "comments" /\ x \in Sequences_(WithComment, 3) /\ Idle(z) /\ Readers(Document)
       \/ part = "escapes" /\ x \in Points \X {<<>>, A, <<"\\", "\\">>} /\ Idle(z)
                           /\ Readers(<<"\"">> \o x[2] \o Escaped(x[1]) \o x[2] \o <<"\"">>)
       \/ part = "write" /\ x \in Uncommented \cup WithComments /\ Idle(z)
                         /\ y \in {"fast", "yaml", "styled", "stream"}
                         /\ r = Parse(WriteWith(x, y), NullV, All, TRUE)
       \/ part = "tree" /\ Idle(x) /\ Idle(y) /\ Idle(z) /\ NoReader

(* Path::make turns the root into one that has the node.                   *)
MakeNode ==
    /\ x' = Make(x, MakePath(z, <<>>))
    /\ x' # Abort
    /\ UNCHANGED <<y, z>>

AllNext ==
    /\ UNCHANGED part
    /\ \/ part = "values" /\ x' = y /\ y' = z /\ z' = x /\ UNCHANGED <<r, program>>
       \/ part = "paths" /\ MakeNode /\ UNCHANGED <<r, program>>
       \/ part \in {"read", "comments", "escapes"} /\ ReadOn /\ y' = NextToken(y)
                                                   /\ UNCHANGED <<x, z, program>>
       \/ part = "write" /\ ReadOn /\ UNCHANGED <<given, program>>
       \/ part = "tree" /\ Tree!Next /\ UNCHANGED <<r, given>>

AllSpec == AllInit /\ [][AllNext]_allVars

-----------------------------------------------------------------------------
(* operator< is a strict order on all values, whatever their types: the    *)
(* maps behind objects and the sorted containers of a caller rest on it.   *)
StrictOrder ==
    part = "values" =>
        /\ ~Less(x, x)
        /\ Less(x, y) => ~Less(y, x)
        /\ Less(x, y) /\ Less(y, z) => Less(x, z)

(* operator== is what operator< leaves unordered, no more and no less.     *)
EqualIsUnordered == part = "values" => (Equal(x, y) <=> ~Less(x, y) /\ ~Less(y, x))

IsNumber(e) == e.type \in {"int", "uint", "real"}

(* isConvertibleTo says what the as...() functions do: it denies none of   *)
(* their conversions but asBool, which has a value for a string, an array  *)
(* and an object too (json_value.cpp:808-812, 855-863), and none that it   *)
(* allows is refused but the greatest int as an unsigned one and a number  *)
(* as a string (json_value.cpp:685-793).                                   *)
ConversionAllowed ==
    part = "values" =>
        /\ AsInt(x) = Throw <=> ~IsConvertibleTo(x, "int") \/ x = UIntV(MaxInt)
        /\ AsUInt(x) = Throw <=> ~IsConvertibleTo(x, "uint")
        /\ AsDouble(x) = Throw <=> ~IsConvertibleTo(x, "real")
        /\ AsString(x) = Throw <=> ~IsConvertibleTo(x, "string") \/ IsNumber(x)
        /\ AsBool(x) \in BOOLEAN
        /\ IsConvertibleTo(x, "bool") <=> x.type \notin {"string", "array", "object"}

(* makePath reads the documented syntax (value.h:474-482) for paths that   *)
(* name all members and indices: the text of a list of arguments gives     *)
(* that list back.  Of a % only the first one in a path, for a key, gives  *)
(* the parameter; the next gives the first parameter again, and [%] gives  *)
(* its parameter and then a key ] (json_value.cpp:1570-1585, 1603-1622).   *)
KeyArgs == {a \in PathArgs : a.kind = "key"}
SyntaxRead ==
    part = "paths" =>
        /\ MakePath(z, <<>>) = y
        /\ \A a \in KeyArgs, b \in PathArgs :
              /\ MakePath(z \o <<".", "%">>, <<a>>) = Append(y, a)
              /\ MakePath(z \o <<".", "%", ".", "%">>, <<a, b>>) = y \o <<a, a>>
        /\ \A a \in PathArgs \ KeyArgs :
              MakePath(z \o <<"[", "%", "]">>, <<a>>) = y \o <<a, KeyArg(<<"]">>)>>

(* What make() made, resolve() finds, and making it again changes nothing  *)
(* (Path::make, Path::resolve).                                            *)
MadeIsFound ==
    [][ part = "paths" =>
          /\ Resolve(x', MakePath(z, <<>>)) \notin {Missing, Abort}
          /\ Make(x', MakePath(z, <<>>)) = x' ]_allVars

(* append() puts its element after all others and keeps them.              *)
AppendKeeps == [][part = "tree" => Tree!AppendKeeps]_allVars

(* After resize(n) that returns, the size is n and what stays is unchanged *)
(* (Value::resize).                                                        *)
ResizeExact == [][part = "tree" => Tree!ResizeExact]_allVars

(* Only setComment changes the comments of a value (Value::swap).          *)
CommentsStay == [][part = "tree" => Tree!CommentsStay]_allVars

(* What was assigned equals its source (Value::operator=).                 *)
AssignedEqual == part = "tree" => Tree!AssignedEqual

-----------------------------------------------------------------------------
(* The grammar of json.org over lexemes: the values a sequence says.       *)
RECURSIVE ValuesOf(_), Members_(_), Elements_(_)
Elements_(s) ==
    {<<e>> : e \in ValuesOf(s)}
      \cup UNION {{<<e>> \o t : e \in ValuesOf(SubSeq(s, 1, k - 1)),
                                t \in Elements_(SubSeq(s, k + 1, Len(s)))}
                    : k \in {k \in DOMAIN s : s[k] = <<",">>}}
Pairs(s) ==
    IF Len(s) > 2 /\ s[1][1] = "\"" /\ s[2] = <<":">>
    THEN {<<SubSeq(s[1], 2, Len(s[1]) - 1), e>> : e \in ValuesOf(SubSeq(s, 3, Len(s)))} ELSE {}
Members_(s) ==
    {<<p>> : p \in Pairs(s)}
      \cup UNION {{<<p>> \o t : p \in Pairs(SubSeq(s, 1, k - 1)),
                                t \in Members_(SubSeq(s, k + 1, Len(s)))}
                    : k \in {k \in DOMAIN s : s[k] = <<",">>}}
ObjectOf(t) == ObjectV([k \in {t[i][1] : i \in DOMAIN t} |->
    t[CHOOSE i \in DOMAIN t : t[i][1] = k /\ \A j \in i + 1 .. Len(t) : t[j][1] # k][2]])
Inner(s) == SubSeq(s, 2, Len(s) - 1)
ValuesOf(s) ==
    CASE s = <<>> -> {}
      [] Len(s) = 1 /\ s[1] = <<"1">> -> {IntV(1)}
      [] Len(s) = 1 /\ s[1][1] = "\"" -> {StringV(Inner(s[1]))}
      [] Len(s) = 2 /\ s = <<<<"[">>, <<"]">>>> -> {ArrayV(<<>>)}
      [] Len(s) = 2 /\ s = <<<<"{">>, <<"}">>>> -> {ObjectV(<<>>)}
      [] Len(s) > 2 /\ s[1] = <<"[">> /\ Last(s) = <<"]">> -> {ArrayOf(t) : t \in Elements_(Inner(s))}
      [] Len(s) > 2 /\ s[1] = <<"{">> /\ Last(s) = <<"}">> -> {ObjectOf(t) : t \in Members_(Inner(s))}
      [] OTHER -> {}

IsRead == part \in {"read", "comments"} /\ r.phase = "done"

(* Every document of the grammar is read, to the value it stands for       *)
(* (Reader::parse).                                                        *)
ReadsJson == IsRead => \A e \in ValuesOf(x) : r.ok /\ Equal(r.root, e)

(* parse() fails if and only if there is an error to show; the recovery    *)
(* from one error neither loses it nor lets the document pass.             *)
FailureSaysWhy == IsRead => (r.ok <=> r.errs = <<>>)

(* Collecting the comments changes nothing of what is read                 *)
(* (Reader::readComment, json_reader.cpp).                                 *)
CommentsHarmless ==
    part \in {"read", "comments"} =>
        /\ y.phase = r.phase
        /\ r.phase = "done" => y.ok = r.ok /\ Equal(y.root, r.root)

(* The Unicode standard's reading of bytes, and the shortest form it asks. *)
Low6(c) == Ord[c] - 128
UTF8(b) ==
    CASE Len(b) = 1 /\ Ord[b[1]] < 128 -> Ord[b[1]]
      [] Len(b) = 2 -> 64 * (Ord[b[1]] - 192) + Low6(b[2])
      [] Len(b) = 3 -> 4096 * (Ord[b[1]] - 224) + 64 * Low6(b[2]) + Low6(b[3])
      [] Len(b) = 4 -> 262144 * (Ord[b[1]] - 240) + 4096 * Low6(b[2]) + 64 * Low6(b[3]) + Low6(b[4])
Shortest(cp) == CASE cp < 128 -> 1 [] cp \in 128 .. 2047 -> 2 [] cp \in 2048 .. 65535 -> 3
                  [] OTHER -> 4

(* An escaped code point becomes its UTF-8, with its neighbours untouched  *)
(* (codePointToUTF8, Reader::decodeUnicodeCodePoint).                      *)
EscapeDecoded ==
    part = "escapes" /\ r.phase = "done" =>
        LET around == IF x[2] = <<>> THEN 0 ELSE 1
            bytes == SubSeq(r.root.str, 1 + around, Len(r.root.str) - around)
        IN r.ok /\ Len(bytes) = Shortest(x[1]) /\ UTF8(bytes) = x[1]

RECURSIVE Same(_, _)
Same(e, f) ==
    \/ IsNumber(e) /\ IsNumber(f) /\ Equal(AsDouble(e), AsDouble(f))
    \/ /\ ~IsNumber(e) /\ e.type = f.type
       /\ IF e.type \in {"array", "object"}
          THEN /\ DOMAIN MapOf(e) = DOMAIN MapOf(f)
               /\ \A k \in DOMAIN MapOf(e) : Same(MapOf(e)[k], MapOf(f)[k])
          ELSE Equal(e, f)

(* What any of the writers writes, the reader reads back: the same value,  *)
(* where numbers keep their value but not always their type, whatever the  *)
(* comments and however the lines are broken (json_writer.cpp).            *)
RoundTrip == part = "write" /\ r.phase = "done" => r.ok /\ Same(x, r.root)

-----------------------------------------------------------------------------
(* What the runs check: the properties above by what they are about. *)

(* JSON values are ordered and converted as json_value.cpp says,           *)
(* json_reader.cpp reads what a document says or tells why not, and what   *)
(* json_writer.cpp writes is read back.                                    *)
JsonSound ==
    /\ StrictOrder /\ EqualIsUnordered /\ ConversionAllowed /\ SyntaxRead
    /\ AssignedEqual /\ ReadsJson /\ FailureSaysWhy /\ CommentsHarmless
    /\ EscapeDecoded /\ RoundTrip

(* What a step of a program may never do to a JSON value: make a path that *)
(* is not found, lose an element when one is appended, change others when  *)
(* it is resized, move a comment (json_value.cpp).                         *)
JsonSteps ==
    /\ MadeIsFound /\ AppendKeeps /\ ResizeExact /\ CommentsStay

=============================================================================
