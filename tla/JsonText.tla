------------------------------ MODULE JsonText ------------------------------
(* JSON as text, json_reader.cpp and json_writer.cpp.                        *)
(* Json::Reader: a document of characters becomes a Value,                   *)
(* or a list of errors, a token at a time.  The reader is a record:          *)
(*   d, p      the document and current_ (Len(d) + 1 at its end)             *)
(*   allow, strict, collect   the features, and whether comments are kept    *)
(*   root      the value read into                                           *)
(*   path      nodes_: the way from root to the current value                *)
(*   phase     where in readValue, readArray and readObject it is            *)
(*   name      of the member of the current object read last, if any         *)
(*   until     the token an error recovery looks for                         *)
(*   before    the comments collected for the next value                     *)
(*   lastEnd, last   where the last value ended (0: none) and its path       *)
(*   errs      the errors, each by what it is about                          *)
(*   tok       the last token: type, start_, end_                            *)
(*   ok        what the last call returned                                   *)
(* The writers, FastWriter, StyledWriter and StyledStreamWriter, come last:  *)
(* what they write is a sequence of characters, the documents that the       *)
(* reader reads.                                                             *)
EXTENDS JsonValue

CONSTANTS RightMargin,   \* rightMargin_, 74 in the constructors
          IndentSize     \* indentSize_

VARIABLE r   \* the reader

Chr(z, i) == IF i <= Len(z.d) THEN z.d[i] ELSE "NUL"
AtEnd(z) == z.p > Len(z.d)
Skip(z, n) == [z EXCEPT !.p = IF @ + n > Len(z.d) THEN Len(z.d) + 1 ELSE @ + n]

AddError(z, what) == [z EXCEPT !.errs = Append(@, what), !.ok = FALSE]

(* currentValue(): the node on top of nodes_. *)
RECURSIVE NodeAt(_, _), PutAt(_, _, _)
NodeAt(v, path) ==
    CASE path = <<>> -> v
      [] path # <<>> /\ path[1].kind = "index" -> NodeAt(v.arr[path[1].index], Tail(path))
      [] path # <<>> /\ path[1].kind = "key" -> NodeAt(v.obj[path[1].key], Tail(path))
PutAt(v, path, x) ==
    CASE path = <<>> -> x
      [] path # <<>> /\ path[1].kind = "index" ->
            [v EXCEPT !.arr[path[1].index] = PutAt(@, Tail(path), x)]
      [] path # <<>> /\ path[1].kind = "key" ->
            [v EXCEPT !.obj[path[1].key] = PutAt(@, Tail(path), x)]
SetCurrent(z, x) ==
    [z EXCEPT !.root = PutAt(@, z.path, Assign(NodeAt(@, z.path), x)), !.ok = TRUE]
-----------------------------------------------------------------------------
(* Tokens. *)
Spaces == {" ", "\t", "\r", "\n"}
NewLines == {"\r", "\n"}
NumberChars == DOMAIN Digit \cup {".", "e", "E", "+", "-"}

SkipSpaces(z) == [z EXCEPT !.p = SkipWhile(z.d, @, Spaces, TRUE)]
ContainsNewLine(z, from, to) == \E i \in from .. to - 1 : z.d[i] \in NewLines
Match(z, word) ==
    IF Len(z.d) - z.p + 1 >= Len(word) /\ SubSeq(z.d, z.p, z.p + Len(word) - 1) = word
    THEN [Skip(z, Len(word)) EXCEPT !.ok = TRUE] ELSE [z EXCEPT !.ok = FALSE]

(* readString, behind the opening quote. *)
RECURSIVE ReadString(_)
ReadString(z) ==
    IF AtEnd(z) THEN [z EXCEPT !.ok = FALSE]
    ELSE CASE Chr(z, z.p) = "\"" -> [Skip(z, 1) EXCEPT !.ok = TRUE]
           [] Chr(z, z.p) = "\\" -> ReadString(Skip(z, 2))
           [] OTHER -> ReadString(Skip(z, 1))

ReadNumber(z) == [z EXCEPT !.p = SkipWhile(z.d, @, NumberChars, TRUE), !.ok = TRUE]

ReadCStyleComment(z) ==
    LET ends == {i \in z.p .. Len(z.d) : z.d[i] = "*" /\ Chr(z, i + 1) = "/"}
    IN IF ends = {} THEN [z EXCEPT !.p = Len(z.d) + 1, !.ok = FALSE]
       ELSE [z EXCEPT !.p = 2 + CHOOSE i \in ends : \A j \in ends : i <= j, !.ok = TRUE]
ReadCppStyleComment(z) ==
    [Skip([z EXCEPT !.p = SkipWhile(z.d, @, NewLines, FALSE)], 1) EXCEPT !.ok = TRUE]

AddComment(z, text, sameLine) ==
    IF sameLine
    THEN [z EXCEPT !.root = PutAt(@, z.last,
                                  SetComment(NodeAt(@, z.last), text, "afterSameLine"))]
    ELSE [z EXCEPT !.before = (IF @ = <<>> THEN @ ELSE Append(@, "\n")) \o text]

(* readComment, behind the first slash; begin is where that is. *)
CollectComment(z, begin, c) ==
    IF ~z.ok \/ ~z.collect THEN z
    ELSE AddComment(z, SubSeq(z.d, begin, z.p - 1),
                    /\ z.lastEnd # 0 /\ ~ContainsNewLine(z, z.lastEnd, begin)
                    /\ c # "*" \/ ~ContainsNewLine(z, begin, z.p))
ReadComment(z, begin) ==
    LET c == Chr(z, z.p)
    IN CollectComment(CASE c = "*" -> ReadCStyleComment(Skip(z, 1))
                        [] c = "/" -> ReadCppStyleComment(Skip(z, 1))
                        [] OTHER -> [Skip(z, 1) EXCEPT !.ok = FALSE], begin, c)

TokenOf == "{" :> "objectBegin" @@ "}" :> "objectEnd" @@ "[" :> "arrayBegin"
           @@ "]" :> "arrayEnd" @@ "," :> "separator" @@ ":" :> "colon" @@ "NUL" :> "end"

(* readToken itself always returns true. *)
TokenDone(z, type, start) ==
    [z EXCEPT !.tok = [type |-> IF z.ok THEN type ELSE "error", s |-> start, e |-> z.p],
              !.ok = TRUE]
TokenAt(z, s, c) ==
    CASE c \in DOMAIN TokenOf -> TokenDone([z EXCEPT !.ok = TRUE], TokenOf[c], s)
      [] c = "\"" -> TokenDone(ReadString(z), "string", s)
      [] c = "/" -> TokenDone(ReadComment(z, s), "comment", s)
      [] c \in DOMAIN Digit \cup {"-"} -> TokenDone(ReadNumber(z), "number", s)
      [] c = "t" -> TokenDone(Match(z, <<"r", "u", "e">>), "true", s)
      [] c = "f" -> TokenDone(Match(z, <<"a", "l", "s", "e">>), "false", s)
      [] c = "n" -> TokenDone(Match(z, <<"u", "l", "l">>), "null", s)
      [] OTHER -> TokenDone([z EXCEPT !.ok = FALSE], "error", s)
ReadTokenHere(z) == TokenAt(Skip(z, 1), z.p, Chr(z, z.p))
ReadToken(z) == ReadTokenHere(SkipSpaces(z))

-----------------------------------------------------------------------------
(* Numbers.  A double is read by sscanf( "%lf" ): the longest prefix that is *)
(* one counts, as glibc has it ("1e" is 1); its value is kept in halves.     *)
(* Tokens are shorter here than the 32 characters of its buffer.             *)
RECURSIVE Pow10(_)
Pow10(n) == IF n = 0 THEN 1 ELSE 10 * Pow10(n - 1)
RECURSIVE Digits(_, _, _, _)
Digits(s, p, q, n) == IF p >= q THEN n ELSE Digits(s, p + 1, q, 10 * n + Digit[s[p]])

Scaled(m, e) == IF e >= 0 THEN 2 * m * Pow10(e) ELSE (2 * m) \div Pow10(-e)
Skim(s, p) == SkipWhile(s, p, DOMAIN Digit, TRUE)
Is(s, p, C) == p <= Len(s) /\ s[p] \in C
(* a: first digit; dot: behind the integer part; b .. x - 1: the fraction.   *)
Exponent(s, x) ==
    CASE ~Is(s, x, {"e", "E"}) -> 0
      [] Is(s, x, {"e", "E"}) /\ Is(s, x + 1, {"-"}) -> -Digits(s, x + 2, Skim(s, x + 2), 0)
      [] Is(s, x, {"e", "E"}) /\ Is(s, x + 1, {"+"}) -> Digits(s, x + 2, Skim(s, x + 2), 0)
      [] OTHER -> Digits(s, x + 1, Skim(s, x + 1), 0)
Fraction(s, a, dot, b, x) ==
    IF (dot - a) + (x - b) = 0 THEN <<>>
    ELSE <<Scaled(Digits(s, b, x, Digits(s, a, dot, 0)), Exponent(s, x) - (x - b))>>
IntegerPart(s, a, dot, b) == Fraction(s, a, dot, b, Skim(s, b))
Unsigned(s, a, dot) == IntegerPart(s, a, dot, IF Is(s, dot, {"."}) THEN dot + 1 ELSE dot)
Sscanf(s) ==
    IF s[1] = "-" THEN LET h == Unsigned(s, 2, Skim(s, 2))
                       IN [i \in DOMAIN h |-> -h[i]]
    ELSE Unsigned(s, 1, Skim(s, 1))

TokenText(z) == SubSeq(z.d, z.tok.s, z.tok.e - 1)
SetReal(z, found) == IF found = <<>> THEN AddError(z, "number") ELSE SetCurrent(z, RealV(found[1]))
DecodeDouble(z) == SetReal(z, Sscanf(TokenText(z)))

(* The loop of decodeNumber: the value, or -1 where it turns to doubles. *)
RECURSIVE Accumulate(_, _, _, _)
Accumulate(s, p, value, threshold) ==
    IF p > Len(s) THEN value
    ELSE IF value >= threshold THEN -1
    ELSE Accumulate(s, p + 1, 10 * value + Digit[s[p]], threshold)

SetInteger(z, neg, n) ==
    CASE n = -1 -> DecodeDouble(z)
      [] n # -1 /\ neg -> SetCurrent(z, IntV(-n))
      [] n # -1 /\ ~neg -> SetCurrent(z, IF n <= MaxInt THEN IntV(n) ELSE UIntV(n))
DecodeInteger(z, s, neg) ==
    SetInteger(z, neg, Accumulate(s, IF neg THEN 2 ELSE 1, 0,
                                  (IF neg THEN -MinInt ELSE MaxUInt) \div 10))
LooksDouble(s) ==
    \E i \in DOMAIN s : s[i] \in {".", "e", "E", "+"} \/ (s[i] = "-" /\ i > 1)
DecodeNumber(z) ==
    IF LooksDouble(TokenText(z)) THEN DecodeDouble(z)
    ELSE DecodeInteger(z, TokenText(z), TokenText(z)[1] = "-")
-----------------------------------------------------------------------------
(* Strings. *)
Trail(n) == CharOf[128 + (n % 64)]
(* Mutant of CodePointToUTF8: two bytes one code too early.                  *)
Mutant_utf8_127(cp) ==
    CASE cp <= 126 -> <<CharOf[cp]>>
      [] cp \in 127 .. 2047 -> <<CharOf[192 + (cp \div 64)], Trail(cp)>>
      [] cp \in 2048 .. 65535 -> <<CharOf[224 + (cp \div 4096)], Trail(cp \div 64), Trail(cp)>>
      [] OTHER -> <<CharOf[240 + (cp \div 262144)], Trail(cp \div 4096), Trail(cp \div 64), Trail(cp)>>

CodePointToUTF8(cp) ==
    CASE cp <= 127 -> <<CharOf[cp]>>
      [] cp \in 128 .. 2047 -> <<CharOf[192 + (cp \div 64)], Trail(cp)>>
      [] cp \in 2048 .. 65535 -> <<CharOf[224 + (cp \div 4096)], Trail(cp \div 64), Trail(cp)>>
      [] cp \in 65536 .. 1114111 ->
            <<CharOf[240 + (cp \div 262144)], Trail(cp \div 4096), Trail(cp \div 64), Trail(cp)>>
      [] OTHER -> <<>>

HexDigit == Digit @@ [c \in {CharOf[n] : n \in 65 .. 70} |-> Ord[c] - 55]
            @@ [c \in {CharOf[n] : n \in 97 .. 102} |-> Ord[c] - 87]
(* What is decoded is a set: of the one result, or of none where it fails.   *)
(* decodeUnicodeEscapeSequence: the code of four digits.                     *)
Hex4(s, p) ==
    IF Len(s) - p + 1 < 4 \/ \E i \in p .. p + 3 : s[i] \notin DOMAIN HexDigit THEN {}
    ELSE {4096 * HexDigit[s[p]] + 256 * HexDigit[s[p + 1]] + 16 * HexDigit[s[p + 2]]
          + HexDigit[s[p + 3]]}
(* decodeUnicodeCodePoint, behind the u: the code and how many characters    *)
(* it took; a surrogate is one half, the other half is behind a u of its own.*)
Halves == 55296 .. 56319
OtherHalf(s, p) ==
    IF Len(s) - p + 1 < 6 \/ s[p] # "\\" \/ s[p + 1] # "u" THEN {} ELSE Hex4(s, p + 2)
CodePoint(s, p) ==
    {<<code, 4>> : code \in Hex4(s, p) \ Halves}
      \cup {<<65536 + 1024 * (first % 1024) + (second % 1024), 10>>
              : first \in Hex4(s, p) \cap Halves, second \in OtherHalf(s, p + 4)}

Escape == "\"" :> "\"" @@ "/" :> "/" @@ "\\" :> "\\" @@ "b" :> "BS" @@ "f" :> "\f"
          @@ "n" :> "\n" @@ "r" :> "\r" @@ "t" :> "\t"

(* decodeString of a token without its quotes. *)
RECURSIVE Decoded(_, _, _)
Decoded(s, p, out) ==
    CASE p > Len(s) -> {out}
      [] p <= Len(s) /\ s[p] # "\\" -> Decoded(s, p + 1, Append(out, s[p]))
      [] p <= Len(s) /\ s[p] = "\\" ->
            IF p = Len(s) \/ s[p + 1] \notin {"u"} \cup DOMAIN Escape THEN {}
            ELSE IF s[p + 1] = "u"
            THEN UNION {Decoded(s, p + 2 + c[2], out \o CodePointToUTF8(c[1]))
                          : c \in CodePoint(s, p + 2)}
            ELSE Decoded(s, p + 2, Append(out, Escape[s[p + 1]]))
TokenString(z) == Decoded(SubSeq(z.d, z.tok.s + 1, z.tok.e - 2), 1, <<>>)
SetString(z, texts) ==
    IF texts = {} THEN AddError(z, "escape")
    ELSE SetCurrent(z, StringV(CHOOSE text \in texts : TRUE))
DecodeString(z) == SetString(z, TokenString(z))
-----------------------------------------------------------------------------
Into(z, arg, node) ==
    [z EXCEPT !.root = PutAt(@, z.path, node), !.path = Append(@, arg), !.phase = "value"]
Recover(z, until) == [z EXCEPT !.until = until, !.phase = "recover", !.ok = FALSE]
AddErrorAndRecover(z, what, until) == Recover(AddError(z, what), until)

Above(z, arg) ==
    CASE ~z.ok -> Recover(z, IF arg.kind = "index" THEN "arrayEnd" ELSE "objectEnd")
      [] z.ok /\ arg.kind = "index" -> [z EXCEPT !.phase = "afterElement", !.until = arg]
      [] z.ok /\ arg.kind = "key" -> [z EXCEPT !.phase = "afterMember", !.name = arg.raw]
(* What a call returns to its caller. *)
Return(z) ==
    IF z.path = <<>> THEN [z EXCEPT !.phase = IF z.ok THEN "end" ELSE "failed"]
    ELSE Above([z EXCEPT !.path = Front(@)], Last(z.path))
(* The end of readValue. *)
Remember(z) == IF z.collect THEN [z EXCEPT !.lastEnd = z.p, !.last = z.path] ELSE z
ValueRead(z) == Return(Remember(z))

(* readValue *)
AttachBefore(z) ==
    IF z.collect /\ z.before # <<>>
    THEN [z EXCEPT !.root = PutAt(@, z.path, SetComment(NodeAt(@, z.path), z.before, "before")),
                   !.before = <<>>]
    ELSE z
BeginArray(z) ==
    IF Chr(z, z.p) = "]" THEN ValueRead(Skip(z, 1))
    ELSE Into(z, IndexArg(0), Element(NodeAt(z.root, z.path), 0))
ValueToken(z) ==
    CASE z.tok.type = "objectBegin" ->
            [SetCurrent(z, ObjectV(<<>>)) EXCEPT !.phase = "name", !.name = <<>>]
      [] z.tok.type = "arrayBegin" -> BeginArray(SkipSpaces(SetCurrent(z, ArrayV(<<>>))))
      [] z.tok.type = "number" -> ValueRead(DecodeNumber(z))
      [] z.tok.type = "string" -> ValueRead(DecodeString(z))
      [] z.tok.type = "true" -> ValueRead(SetCurrent(z, BoolV(TRUE)))
      [] z.tok.type = "false" -> ValueRead(SetCurrent(z, BoolV(FALSE)))
      [] z.tok.type = "null" -> ValueRead(SetCurrent(z, NullV))
      [] OTHER -> Return(AddError(z, "value"))

(* readArray, behind an element: whatever the token, only ] ends the array.  *)
AfterElement(z) ==
    IF z.tok.type = "arrayEnd" THEN ValueRead([z EXCEPT !.ok = TRUE])
    ELSE Into(z, IndexArg(z.until.index + 1),
              Element(NodeAt(z.root, z.path), z.until.index + 1))

(* readObject *)
SetName(z, texts) ==
    IF texts = {} THEN AddErrorAndRecover(z, "escape", "objectEnd")
    ELSE [z EXCEPT !.name = CHOOSE text \in texts : TRUE, !.phase = "colon"]
NameToken(z) ==
    CASE z.tok.type = "objectEnd" /\ z.name = <<>> -> ValueRead([z EXCEPT !.ok = TRUE])
      [] z.tok.type = "string" -> SetName(z, TokenString(z))
      [] OTHER -> AddErrorAndRecover(z, "member", "objectEnd")
Colon(z) ==
    IF z.tok.type # "colon" THEN AddErrorAndRecover(z, "colon", "objectEnd")
    ELSE Into(z, [kind |-> "key", key |-> CString(z.name), raw |-> z.name],
              Member(NodeAt(z.root, z.path), CString(z.name)))
AfterComments(z) ==
    IF z.tok.type = "objectEnd" THEN ValueRead([z EXCEPT !.ok = TRUE])
    ELSE [z EXCEPT !.phase = "name"]
AfterMember(z) ==
    CASE z.tok.type = "comment" -> [z EXCEPT !.phase = "afterComments"]
      [] z.tok.type \in {"objectEnd", "separator"} -> AfterComments(z)
      [] OTHER -> AddErrorAndRecover(z, "comma", "objectEnd")

(* recoverFromError *)
RecoverFromError(z) ==
    IF z.tok.type \in {z.until, "end"} THEN ValueRead([z EXCEPT !.ok = FALSE]) ELSE z

(* The end of parse(). *)
CheckRoot(z) ==
    IF z.strict /\ ~IsArray(z.root) /\ ~IsObject(z.root) THEN AddError(z, "root") ELSE z
Finish(z) ==
    CheckRoot([z EXCEPT
        !.root = IF z.collect /\ z.before # <<>> THEN SetComment(@, z.before, "after") ELSE @,
        !.phase = "done", !.ok = z.phase = "end"])

(* Comments are skipped where skipCommentTokens or a loop of its own does.   *)
Skipped(z) ==
    z.tok.type = "comment" /\ \/ z.phase \in {"value", "end", "failed"} /\ z.allow
                              \/ z.phase \in {"afterElement", "name", "afterComments"}
Dispatch(z) ==
    CASE Skipped(z) -> z
      [] ~Skipped(z) /\ z.phase = "value" -> ValueToken(AttachBefore(z))
      [] ~Skipped(z) /\ z.phase = "afterElement" -> AfterElement(z)
      [] ~Skipped(z) /\ z.phase = "name" -> NameToken(z)
      [] ~Skipped(z) /\ z.phase = "colon" -> Colon(z)
      [] ~Skipped(z) /\ z.phase = "afterMember" -> AfterMember(z)
      [] ~Skipped(z) /\ z.phase = "afterComments" -> AfterComments(z)
      [] ~Skipped(z) /\ z.phase = "recover" -> RecoverFromError(z)
      [] ~Skipped(z) /\ z.phase \in {"end", "failed"} -> Finish(z)
-----------------------------------------------------------------------------
(* parse( beginDoc, endDoc, root, collectComments ), token by token. *)
Features(allow, strict) == [allow |-> allow, strict |-> strict]
StrictMode == Features(FALSE, TRUE)
All == Features(TRUE, FALSE)

Parse(doc, root, features, collect) ==
    [d |-> doc, p |-> 1, allow |-> features.allow, strict |-> features.strict,
     collect |-> collect /\ features.allow, root |-> root, path |-> <<>>, phase |-> "value",
     name |-> <<>>, until |-> "none", before |-> <<>>, lastEnd |-> 0, last |-> <<>>,
     errs |-> <<>>, tok |-> [type |-> "none", s |-> 1, e |-> 1], ok |-> TRUE]
NextToken(z) == Dispatch(ReadToken(z))
ReadOn == r.phase # "done" /\ r' = NextToken(r)
-----------------------------------------------------------------------------
(* The writers: scalars. *)
RECURSIVE UIntToString(_)
UIntToString(n) ==
    IF n < 10 THEN <<CharOf[48 + n]>> ELSE Append(UIntToString(n \div 10), CharOf[48 + (n % 10)])
IntToString(i) == IF i < 0 THEN <<"-">> \o UIntToString(-i) ELSE UIntToString(i)
(* "%#.16g" with its zeros cut but one. *)
RealToString(h) ==
    (IF h < 0 THEN <<"-">> ELSE <<>>)
      \o UIntToString((IF h < 0 THEN -h ELSE h) \div 2)
      \o (IF h % 2 = 1 THEN <<".", "5", "0">> ELSE <<".", "0">>)
BoolToString(b) == IF b THEN <<"t", "r", "u", "e">> ELSE <<"f", "a", "l", "s", "e">>

Hex(n) == CharOf[IF n < 10 THEN 48 + n ELSE 55 + n]
IsControlCharacter(c) == Ord[c] \in 1 .. 31
Unescape == [c \in {Escape[e] : e \in DOMAIN Escape \ {"/"}} |->
                CHOOSE e \in DOMAIN Escape : Escape[e] = c]
QuotedChar(c) ==
    CASE c \in DOMAIN Unescape -> <<"\\", Unescape[c]>>
      [] c \notin DOMAIN Unescape /\ IsControlCharacter(c) ->
            <<"\\", "u", "0", "0", Hex(Ord[c] \div 16), Hex(Ord[c] % 16)>>
      [] OTHER -> <<c>>
ValueToQuotedString(s) ==
    <<"\"">> \o FlattenSeq([i \in DOMAIN CString(s) |-> QuotedChar(s[i])]) \o <<"\"">>

Scalar(v) ==
    CASE v.type = "null" -> <<"n", "u", "l", "l">>
      [] v.type = "int" -> IntToString(v.int)
      [] v.type = "uint" -> UIntToString(v.uint)
      [] v.type = "real" -> RealToString(v.halves)
      [] v.type = "string" -> ValueToQuotedString(v.str)
      [] v.type = "bool" -> BoolToString(v.bool)

At(v, i) == Get(ElementOf(v, i), NullV)
-----------------------------------------------------------------------------
(* FastWriter. *)
Joined(parts, sep) ==
    FlattenSeq([i \in DOMAIN parts |-> IF i = 1 THEN parts[i] ELSE sep \o parts[i]])

RECURSIVE FastValue(_, _)
FastMember(v, name, yaml) ==
    ValueToQuotedString(name) \o (IF yaml THEN <<":", " ">> ELSE <<":">>)
      \o FastValue(MemberOf(v, name), yaml)
FastValue(v, yaml) ==
    CASE v.type = "array" ->
            <<"[">> \o Joined([i \in 1 .. Size(v) |-> FastValue(At(v, i - 1), yaml)], <<",">>)
                    \o <<"]">>
      [] v.type = "object" ->
            <<"{">> \o Joined([i \in DOMAIN Keys(v) |-> FastMember(v, Keys(v)[i], yaml)], <<",">>)
                    \o <<"}">>
      [] OTHER -> Scalar(v)
FastWrite(root, yaml) == FastValue(root, yaml) \o <<"\n">>
-----------------------------------------------------------------------------
(* StyledWriter and StyledStreamWriter.  A writer w is a record: stream says *)
(* which of the two, doc is what it wrote, ind the indentation, and while    *)
(* add is set values go to kids (childValues_) and not to doc.               *)
Put(w, s) == [w EXCEPT !.doc = @ \o s]
PushValue(w, s) == IF w.add THEN [w EXCEPT !.kids = Append(@, s)] ELSE Put(w, s)
Indentation(w) == [i \in 1 .. w.ind |-> IF w.stream THEN "\t" ELSE " "]
IndentWidth(w) == IF w.stream THEN 1 ELSE IndentSize
WriteIndent(w) ==
    CASE w.stream -> Put(w, <<"\n">> \o Indentation(w))
      [] ~w.stream /\ w.doc # <<>> /\ Last(w.doc) = " " -> w
      [] ~w.stream /\ w.doc # <<>> /\ Last(w.doc) \notin {" ", "\n"} ->
            Put(w, <<"\n">> \o Indentation(w))
      [] OTHER -> Put(w, Indentation(w))
WriteWithIndent(w, s) == Put(WriteIndent(w), s)
Indent(w) == [w EXCEPT !.ind = @ + IndentWidth(w)]
Unindent(w) == [w EXCEPT !.ind = @ - IndentWidth(w)]

(* A carriage return, with or without a line feed behind it, becomes one.    *)
NormalizeEOL(s) ==
    FlattenSeq([i \in DOMAIN s |->
        CASE s[i] = "\r" -> <<"\n">>
          [] s[i] = "\n" /\ i > 1 /\ s[i - 1] = "\r" -> <<>>
          [] OTHER -> <<s[i]>>])
Comment(v, p) == NormalizeEOL(GetComment(v, p))
WriteCommentBefore(w, v) ==
    IF HasComment(v, "before") THEN Put(w, Comment(v, "before") \o <<"\n">>) ELSE w
WriteCommentAfter(w, v) ==
    Put(w, (IF HasComment(v, "afterSameLine") THEN <<" ">> \o Comment(v, "afterSameLine") ELSE <<>>)
           \o (IF HasComment(v, "after") THEN <<"\n">> \o Comment(v, "after") \o <<"\n">> ELSE <<>>))

RECURSIVE WriteValue(_, _), WriteMembers(_, _, _), WriteElements(_, _, _, _), ChildValues(_, _, _)

(* isMultineArray: kids gets the text of the elements, unless the array is   *)
(* too long or has something in it.  The comments of an element are tested   *)
(* only if the array is known to take several lines.                         *)
HasInside(v) == \E i \in 0 .. Size(v) - 1 : At(v, i).type \in {"array", "object"} /\ Size(At(v, i)) > 0
ChildValues(w, v, i) ==
    IF i = Size(v) THEN [w EXCEPT !.add = FALSE] ELSE ChildValues(WriteValue(w, At(v, i)), v, i + 1)
LineLength(w, v) ==
    4 + (Size(v) - 1) * 2 + FoldLeft(LAMBDA n, s : n + Len(s), 0, w.kids)
Children(w, v) ==
    IF Size(v) * 3 >= RightMargin \/ HasInside(v) THEN [w EXCEPT !.kids = <<>>]
    ELSE ChildValues([w EXCEPT !.kids = <<>>, !.add = TRUE], v, 0)

WriteElements(w, v, hasChild, i) ==
    LET x == At(v, i)
        before == WriteCommentBefore(w, x)
        written == IF hasChild THEN WriteWithIndent(before, before.kids[i + 1])
                   ELSE WriteValue(WriteIndent(before), x)
    IN IF i + 1 = Size(v) THEN WriteCommentAfter(written, x)
       ELSE WriteElements(WriteCommentAfter(Put(written, <<",">>), x), v, hasChild, i + 1)
ArrayWithChildren(w, v) ==
    IF w.kids = <<>> \/ LineLength(w, v) >= RightMargin
    THEN WriteWithIndent(Unindent(WriteElements(Indent(WriteWithIndent(w, <<"[">>)), v,
                                                w.kids # <<>>, 0)), <<"]">>)
    ELSE Put(w, <<"[", " ">> \o Joined(w.kids, <<",", " ">>) \o <<" ", "]">>)
WriteArrayValue(w, v) ==
    IF Size(v) = 0 THEN PushValue(w, <<"[", "]">>) ELSE ArrayWithChildren(Children(w, v), v)

WriteMembers(w, v, i) ==
    LET name == Keys(v)[i]
        x == MemberOf(v, name)
        written == WriteValue(Put(WriteWithIndent(WriteCommentBefore(w, x),
                                                  ValueToQuotedString(name)),
                                  <<" ", ":", " ">>), x)
    IN IF i = Len(Keys(v)) THEN WriteCommentAfter(written, x)
       ELSE WriteMembers(WriteCommentAfter(Put(written, <<",">>), x), v, i + 1)
WriteValue(w, v) ==
    CASE v.type = "array" -> WriteArrayValue(w, v)
      [] v.type = "object" ->
            IF DOMAIN v.obj = {} THEN PushValue(w, <<"{", "}">>)
            ELSE WriteWithIndent(Unindent(WriteMembers(Indent(WriteWithIndent(w, <<"{">>)), v, 1)),
                                 <<"}">>)
      [] OTHER -> PushValue(w, Scalar(v))

Fresh(stream) == [stream |-> stream, doc |-> <<>>, kids |-> <<>>, add |-> FALSE, ind |-> 0]
StyledWrite(root, stream) ==
    WriteCommentAfter(WriteValue(WriteCommentBefore(Fresh(stream), root), root), root).doc
      \o <<"\n">>
=============================================================================
