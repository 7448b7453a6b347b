------------------------------- MODULE Tokens -------------------------------
(***************************************************************************)
(* The tokens of the experimental compiler: the stream with its trees      *)
(* (experimental/token), the lexer that fills it (internal/lexer) as the   *)
(* parser configures it (parser/parse.go), and the cursors that read it.   *)
(* A text is a sequence of characters, and offsets count characters; "nl", *)
(* "nul", "bom" and "bad" are the newline, the null character, the byte    *)
(* order mark and a byte that is not UTF-8; "ghost" is a letter that does  *)
(* not print and "accent" one that is not ASCII.  A token's id is its      *)
(* place in the stream, and 0 is no token.                                 *)
(***************************************************************************)
EXTENDS Integers, FiniteSets, Tree

CONSTANTS Texts,        \* the texts that are lexed
          MaxFileSize,  \* the longest text
          MaxWord       \* the largest integer that fits a word

VARIABLES text,    \* the text, or Nil before it is given
          lex,     \* the lexer and its stream
          cursor   \* a cursor, or Nil

tokenVars == <<text, lex, cursor>>

Zero == 0
Unknown == <<>>

At(s, i) == IF i < Len(s) THEN s[i + 1] ELSE "eof"
Text(s, i, j) == SubSeq(s, i + 1, IF j > Len(s) THEN Len(s) ELSE j)

-----------------------------------------------------------------------------
(* Keywords *)

Letters == {"a", "b", "e", "f", "i", "n", "u", "x"}
Digits == {"0", "1", "7", "8"}
XIDStart == Letters \cup {"_", "ghost", "accent"}
XIDContinue == XIDStart \cup Digits
Whitespace == {" ", "nl"}
Quotes == {"\"", "'"}
Unprintable == {"ghost"}

Openers == {<<"(">>, <<"[">>, <<"{">>}
Closers == {<<")">>, <<"]">>, <<"}">>}
ReservedWords == {<<"i", "n">>, <<"i", "n", "f">>, <<"i", "f">>}
Keywords ==
  Openers \cup Closers \cup ReservedWords
    \cup {<<"/", "/">>, <<"/", "*">>, <<"*", "/">>, <<"*">>, <<"/">>, <<";">>, <<".">>, <<"-">>, <<"&">>, <<"&", "&">>}
\* Words and punctuation of other languages.
Foreign == {<<"i", "f">>, <<"&">>}

\* The first two results of Brackets.
Left(kw) == CASE kw \in {<<"(">>, <<")">>} -> <<"(">> [] kw \in {<<"[">>, <<"]">>} -> <<"[">> [] kw \in {<<"{">>, <<"}">>} -> <<"{">>
              [] kw \in {<<"/", "*">>, <<"*", "/">>} -> <<"/", "*">> [] OTHER -> Unknown
Right(kw) == CASE Left(kw) = <<"(">> -> <<")">> [] Left(kw) = <<"[">> -> <<"]">> [] Left(kw) = <<"{">> -> <<"}">>
               [] Left(kw) = <<"/", "*">> -> <<"*", "/">> [] OTHER -> Unknown

OnKeyword(kw) ==
  CASE kw = <<"/", "/">> -> "line comment"
    [] kw \in {<<"/", "*">>, <<"*", "/">>} -> "block comment"
    [] kw \in Openers \cup Closers -> "bracket"
    [] kw \in Foreign -> "discard"
    [] OTHER -> "soft"

\* The longest keyword at i that is not discarded.
KeywordPrefixes(s, i) == {kw \in Keywords : Text(s, i, i + Len(kw)) = kw /\ OnKeyword(kw) # "discard"}
KeywordAt(s, i) ==
  LET found == KeywordPrefixes(s, i) IN IF found = {} THEN Unknown ELSE CHOOSE kw \in found : \A other \in found : Len(kw) >= Len(other)

IsAffix(affix, kind, suffix) ==
  IF kind = "number" THEN suffix /\ affix = <<"u">> ELSE ~suffix /\ affix = <<"b">>

-----------------------------------------------------------------------------
(* The stream *)

\* A token, which ends where the next one begins; `off` leads to its other end, `meta` is what the lexer knows of it.
EndOf(toks) == IF toks = <<>> THEN 0 ELSE Last(toks).end
PushKeyword(toks, length, kind, kw) == Append(toks, [end |-> EndOf(toks) + length, kind |-> kind, kw |-> kw, off |-> 0, meta |-> Nil])

offsets(toks, t) == <<IF t = 1 THEN 0 ELSE toks[t - 1].end, toks[t].end>>
LeafText(s, toks, t) == Text(s, offsets(toks, t)[1], offsets(toks, t)[2])

IsLeaf(toks, t) == toks[t].off = 0
IsOpen(toks, t) == toks[t].off > 0
IsClose(toks, t) == toks[t].off < 0
StartEnd(toks, t) == IF IsClose(toks, t) THEN <<t + toks[t].off, t>> ELSE <<t, t + toks[t].off>>
IsSkippable(kind) == kind \in {"space", "comment", "unrecognized"}

Fuse(toks, open, close) == [toks EXCEPT ![open].off = close - open, ![close].off = open - close]

\* Around: by binary search among the ends.
Around(s, toks, offset) ==
  LET i == Search(1, Len(toks) + 1, {t \in DOMAIN toks : toks[t].end >= offset})
  IN CASE offset = 0 -> <<Zero, 1>>
       [] offset = Len(s) -> <<Len(toks), Zero>>
       [] OTHER -> IF i <= Len(toks) /\ toks[i].end = offset THEN <<i, i + 1>> ELSE <<i, i>>

-----------------------------------------------------------------------------
(* The lexer *)

\* keyword and push: what was not recognized before becomes a token first.
Flush(st) ==
  IF st.bad > 0 THEN [st EXCEPT !.toks = PushKeyword(@, st.bad, "unrecognized", Unknown), !.bad = 0, !.errors = @ + 1] ELSE st
Push(st, length, kind, kw) == LET flushed == Flush(st) IN [flushed EXCEPT !.toks = PushKeyword(@, length, kind, kw)]
Lexed(st, end, kind, kw) == [Push(st, end - st.pos, kind, kw) EXCEPT !.pos = end]
WithMeta(st, meta) == [st EXCEPT !.toks[Len(st.toks)].meta = meta]
Errors(st, n) == [st EXCEPT !.errors = @ + n]

RECURSIVE takeWhile(_, _, _)
takeWhile(s, i, class) == IF At(s, i) \in class THEN takeWhile(s, i + 1, class) ELSE i

\* The first place after i where the needle is, or the end of the text.
seekInclusive(s, i, needle) ==
  LET found == {j \in i..Len(s) - Len(needle) : Text(s, j, j + Len(needle)) = needle}
  IN IF found = {} THEN Nil ELSE (CHOOSE j \in found : \A k \in found : j <= k) + Len(needle)

lexPrelude(s) ==
  \/ s = <<>>
  \/ /\ Len(s) <= MaxFileSize
     /\ ~(Len(s) >= 2 /\ "nul" \in {s[1], s[2]})
     /\ \A i \in DOMAIN s : s[i] # "bad"

\* Whitespace, a token for each line and each newline.
RECURSIVE Spaces(_, _, _)
Spaces(s, st, end) ==
  LET line == takeWhile(s, st.pos, {" "})
  IN IF st.pos >= end THEN st
     ELSE Spaces(s, Lexed(st, IF line > st.pos THEN line ELSE st.pos + 1, "space", Unknown), end)

(* Numbers *)

DigitValues == ("0" :> 0) @@ ("1" :> 1) @@ ("7" :> 7) @@ ("8" :> 8) @@ ("a" :> 10) @@ ("b" :> 11) @@ ("e" :> 14) @@ ("f" :> 15)
Digit(c, base) == c \in DOMAIN DigitValues /\ DigitValues[c] < base
InBase(base) == {c \in DOMAIN DigitValues : DigitValues[c] < base}

RECURSIVE lexRawNumber(_, _)
lexRawNumber(s, i) ==
  IF At(s, i) = "e" THEN lexRawNumber(s, IF At(s, i + 1) = "-" THEN i + 2 ELSE i + 1)
  ELSE IF At(s, i) \in XIDContinue \cup {"."} THEN lexRawNumber(s, i + 1)
  ELSE i

\* parseInt: the value, Nil when some character is not a digit; a value past the word goes on as a big integer.
RECURSIVE parseInt(_, _, _)
parseInt(digits, base, value) ==
  CASE digits = <<>> -> value
    [] Head(digits) = "_" -> parseInt(Tail(digits), base, value)
    [] ~Digit(Head(digits), base) -> Nil
    [] OTHER -> parseInt(Tail(digits), base, value * base + DigitValues[Head(digits)])

\* The expressions of fpRegexp: underscores stand between digits, and not in an exponent with a sign.
Block(d, digits) ==
  /\ d # <<>> /\ Head(d) \in digits /\ Last(d) \in digits
  /\ Range(d) \subseteq digits \cup {"_"}
  /\ "_" \in Range(d) => Len(d) >= 3
Mantissa(d, digits) == d = <<>> \/ Block(d, digits) \/ \E i \in DOMAIN d :
  /\ d[i] = "."
  /\ \A part \in {SubSeq(d, 1, i - 1), SubSeq(d, i + 1, Len(d))} : part = <<>> \/ Block(part, digits)
fpRegexp(d, digits, exp) ==
  \/ Mantissa(d, digits)
  \/ \E i \in DOMAIN d :
       /\ d[i] \in exp /\ Mantissa(SubSeq(d, 1, i - 1), digits)
       /\ LET e == SubSeq(d, i + 1, Len(d))
          IN Block(e, InBase(10)) \/ (e # <<>> /\ Head(e) = "-" /\ Tail(e) # <<>> /\ Range(Tail(e)) \subseteq InBase(10))

treatAsOctal(digits) == Range(digits) \subseteq {"0", "1", "7", "8", "a", "b", "f", "_"}
FirstIn(s, class) == LET found == {i \in DOMAIN s : s[i] \in class} IN IF found = {} THEN 0 ELSE CHOOSE i \in found : \A j \in found : i <= j

\* The base of a number and the length of its prefix.
Radix(digits) ==
  CASE Text(digits, 0, 2) = <<"0", "b">> -> <<2, 2>>
    [] Text(digits, 0, 2) = <<"0", "x">> -> <<16, 2>>
    [] Len(digits) >= 2 /\ Head(digits) = "0" /\ treatAsOctal(digits) -> <<8, 1>>
    [] OTHER -> <<10, 0>>

\* The suffix of the digits: what follows the last character that the base, or the exponent, allows, if it is an affix.
SuffixOf(digits, exp, base) ==
  LET haystack == SubSeq(digits, exp + 1, Len(digits))
      at == FirstIn(haystack, (XIDContinue \cup {"."}) \ (InBase(IF exp > 0 THEN 10 ELSE base) \cup {"_", ".", "-"}))
      suffix == SubSeq(haystack, at, Len(haystack))
  IN IF at > 0 /\ IsAffix(suffix, "number", TRUE) THEN suffix ELSE <<>>

\* What is known of a number whose text this is, Nil for a plain decimal integer.
\* `exp` is as long as the exponent with its letter; `word` is its value if it has one.
NumberMeta(number) ==
  LET base == Radix(number)[1]
      prefix == Radix(number)[2]
      digits == SubSeq(number, (IF base = 8 THEN 0 ELSE prefix) + 1, Len(number))
      exp == IF {".", "e"} \cap Range(digits) # {} THEN FirstIn(digits, {"e"}) ELSE 0
      suffix == SuffixOf(digits, exp, base)
      rest == SubSeq(digits, 1, Len(digits) - Len(suffix))
      value == parseInt(rest, base, 0)
      valid == value # Nil \/ (base = 10 /\ fpRegexp(rest, InBase(10), {"e"})) \/ (base = 16 /\ fpRegexp(rest, InBase(16), {}))
      octalLost == value = Nil /\ base = 8 /\ ~treatAsOctal(rest)
      meta == [base |-> IF octalLost THEN 10 ELSE base, prefix |-> IF octalLost THEN 0 ELSE prefix, suffix |-> Len(suffix),
               exp |-> IF exp > 0 THEN Len(rest) - (exp - 1) - Len(suffix) ELSE 0, valid |-> valid,
               word |-> CASE value = Nil -> Nil [] value > MaxWord -> value [] base = 10 /\ "_" \notin Range(rest) -> 0 [] OTHER -> value]
  IN IF base = 10 /\ suffix = <<>> /\ exp = 0 /\ value # Nil /\ value <= MaxWord /\ "_" \notin Range(rest) THEN Nil ELSE meta

lexNumber(s, st) ==
  LET end == lexRawNumber(s, st.pos)
      meta == NumberMeta(Text(s, st.pos, end))
  IN Errors(WithMeta(Lexed(st, end, "number", Unknown), meta), IF meta # Nil /\ ~meta.valid THEN 1 ELSE 0)

\* NumberToken's Int.
IntOf(s, toks, t) == IF toks[t].meta = Nil THEN parseInt(LeafText(s, toks, t), 10, 0) ELSE toks[t].meta.word

-----------------------------------------------------------------------------
(* Strings *)

\* The characters of an escape after its letter: at most n, of the class.
Byte(n) == "byte " \o ToString(n % 256)
EscapeEnd(s, i, n, class) == LET end == takeWhile(s, i, class) IN IF end > i + n THEN i + n ELSE end

\* lexStringContent: where it ends, what it stands for, whether it is an escape and how many errors it has.
Content(end, value, escape, errors) == [end |-> end, value |-> value, escape |-> escape, errors |-> errors]
lexStringContent(s, i) ==
  LET c == At(s, i)
      r == At(s, i + 1)
      octal == EscapeEnd(s, i + 1, 3, {"0", "1", "7"})
      hex == EscapeEnd(s, i + 2, IF r = "x" THEN 2 ELSE 4, InBase(16))
      digits == hex - (i + 2)
  IN CASE c # "\\" -> Content(i + 1, c, FALSE, IF c \in {"nul", "nl"} THEN 1 ELSE 0)
       [] c = "\\" /\ r = "n" -> Content(i + 2, "nl", TRUE, 0)
       [] c = "\\" /\ r \in Quotes \cup {"\\"} -> Content(i + 2, r, TRUE, 0)
       [] c = "\\" /\ r \in {"a", "b", "f"} -> Content(i + 2, "bell", TRUE, 0)
       [] c = "\\" /\ r \in {"0", "1", "7"} -> Content(octal, Byte(parseInt(Text(s, i + 1, octal), 8, 0)), TRUE, 0)
       [] c = "\\" /\ r \in {"x", "u"} ->
            Content(hex, IF r = "x" THEN Byte(parseInt(Text(s, i + 2, hex), 16, 0)) ELSE "rune", TRUE, IF digits = 0 \/ (r = "u" /\ digits # 4) THEN 1 ELSE 0)
       [] OTHER -> Content(IF r = "eof" THEN i + 1 ELSE i + 2, "nul", TRUE, 1)

\* The loop of lexString; the buffer begins with what precedes the first escape, counted from `start`.
RECURSIVE StringBody(_, _, _, _)
StringBody(s, start, quote, b) ==
  LET sc == lexStringContent(s, b.end)
      escaped == b.buf # Nil \/ sc.escape
      spilled == IF b.buf = Nil THEN Text(s, start + 1, b.end) ELSE b.buf
  IN IF b.end >= Len(s) THEN b
     ELSE IF Text(s, b.end, b.end + Len(quote)) = quote THEN [b EXCEPT !.end = @ + Len(quote), !.terminated = TRUE]
     ELSE StringBody(s, start, quote, [b EXCEPT !.end = sc.end, !.errors = @ + sc.errors,
                                                !.buf = IF escaped THEN Append(spilled, sc.value) ELSE Nil])

lexString(s, st, sigil) ==
  LET open == st.pos + Len(sigil)
      single == <<At(s, open)>>
      quote == IF Text(s, open, open + 3) = single \o single \o single THEN single \o single \o single ELSE single
      b == StringBody(s, st.pos, quote, [end |-> open + Len(quote), buf |-> Nil, errors |-> 0, terminated |-> FALSE])
      meta == [text |-> b.buf, prefix |-> Len(sigil), quote |-> Len(quote), concatenated |-> FALSE]
  IN Errors(WithMeta(Lexed(st, b.end, "string", Unknown), IF b.buf = Nil /\ sigil = <<>> /\ Len(quote) = 1 THEN Nil ELSE meta),
            b.errors + (IF b.terminated THEN 0 ELSE 1))

\* StringToken's RawContent, from its Quotes, and Text.
RawContent(s, toks, t) ==
  LET at == offsets(toks, t)
      meta == toks[t].meta
      open == at[1] + (IF meta = Nil THEN 0 ELSE meta.prefix)
      quote == IF meta = Nil THEN 1 ELSE meta.quote
  IN CASE at[2] - open < quote -> <<>>
       [] at[2] - open < 2 * quote -> <<>>
       [] OTHER -> Text(s, open + quote, at[2] - quote)
TextOf(s, toks, t) ==
  LET meta == toks[t].meta IN IF meta # Nil /\ meta.text \notin {Nil, <<>>} THEN meta.text ELSE RawContent(s, toks, t)
PrefixOf(s, toks, t) == IF toks[t].meta = Nil THEN <<>> ELSE Text(s, offsets(toks, t)[1], offsets(toks, t)[1] + toks[t].meta.prefix)

-----------------------------------------------------------------------------
(* The loop *)

lexIdent(s, st) ==
  LET raw == takeWhile(s, st.pos, XIDContinue)
      printed == {i \in st.pos + 1..raw : s[i] \notin Unprintable}
      id == IF printed = {} THEN st.pos ELSE CHOOSE i \in printed : \A j \in printed : j <= i
      affix == Text(s, st.pos, raw)
  IN CASE printed = {} -> Errors(Lexed(st, raw, "unrecognized", Unknown), 1)
       [] printed # {} /\ (At(s, raw) = "\"" \/ (At(s, raw) = "'" /\ IsAffix(affix, "string", FALSE))) -> lexString(s, st, affix)
       [] OTHER -> Errors(Lexed(st, id, "ident", Unknown), IF {"accent", "ghost"} \cap {s[i] : i \in st.pos + 1..id} # {} THEN 1 ELSE 0)

lexComment(s, st, kw) ==
  LET after == st.pos + Len(kw)
      found == seekInclusive(s, after, IF OnKeyword(kw) = "line comment" THEN <<"nl">> ELSE Right(kw))
      commented == Lexed(st, IF found = Nil THEN Len(s) ELSE found, "comment", kw)
  IN CASE kw = Right(kw) -> Errors(Lexed(st, after, "unrecognized", Unknown), 1)
       [] OnKeyword(kw) = "line comment" ->
            IF found = Nil THEN commented ELSE Lexed(Lexed(st, found - 1, "comment", kw), found, "space", Unknown)
       [] OTHER -> Errors(commented, IF found = Nil THEN 1 ELSE 0)

\* What is at the cursor when no keyword is.
lexOther(s, st) ==
  LET c == At(s, st.pos)
  IN CASE c \in Quotes -> lexString(s, st, <<>>)
       [] c = "." \/ c \in Digits -> lexNumber(s, st)
       [] c \in XIDStart -> lexIdent(s, st)
       [] c = "eof" -> [st EXCEPT !.bad = @ - 1]
       [] OTHER -> [st EXCEPT !.bad = @ + 1, !.pos = @ + 1]

\* A keyword is one unless it begins a longer word or a number.
IsWhole(s, i, kw) ==
  LET next == At(s, i + Len(kw)) IN ~(kw = <<".">> /\ next \in Digits) /\ ~(kw \in ReservedWords /\ next \in XIDContinue)
lexKeyword(s, st, kw) ==
  LET pushed == Lexed(st, st.pos + Len(kw), IF kw \in ReservedWords THEN "ident" ELSE "keyword", kw)
  IN IF OnKeyword(kw) = "bracket" THEN [pushed EXCEPT !.braces = Append(@, Len(pushed.toks))] ELSE pushed

Iteration(s, st) ==
  LET kw == KeywordAt(s, st.pos)
  IN CASE kw # Unknown /\ OnKeyword(kw) \in {"line comment", "block comment"} -> lexComment(s, st, kw)
       [] kw # Unknown /\ OnKeyword(kw) \in {"soft", "bracket"} /\ IsWhole(s, st.pos, kw) -> lexKeyword(s, st, kw)
       [] OTHER -> lexOther(s, st)

-----------------------------------------------------------------------------
(* Fusion *)

\* One iteration of fuseBraces: t2 is the brace at hand, t1 and t0 the last open ones, t3 the next brace.
FuseBrace(st) ==
  LET Kw(t) == IF t = Zero THEN Unknown ELSE st.toks[t].kw
      Open(n) == IF Len(st.opens) >= n THEN st.opens[Len(st.opens) + 1 - n] ELSE Zero
      t2 == st.braces[st.next]
      t1 == Open(1)
      t0 == Open(2)
      t3 == IF st.next < Len(st.braces) THEN st.braces[st.next + 1] ELSE Zero
      open == Left(Kw(t2))
      leftMatch == Kw(t0) = open
      rightMatch == Kw(t3) # Left(Kw(t3)) /\ Kw(t1) = Left(Kw(t3))
      Step(errors, pop, used) == [st EXCEPT !.errors = @ + errors, !.opens = SubSeq(@, 1, Len(@) - pop), !.next = @ + used]
  IN CASE Kw(t2) = open -> [st EXCEPT !.opens = Append(@, t2), !.next = @ + 1]
       [] Kw(t2) # open /\ st.opens = <<>> -> Step(1, 0, 1)
       [] Kw(t2) # open /\ st.opens # <<>> /\ Kw(t1) = open -> [Step(0, 1, 1) EXCEPT !.toks = Fuse(@, t1, t2)]
       [] OTHER ->
            CASE leftMatch -> [Step(1, 2, IF rightMatch THEN 2 ELSE 1) EXCEPT !.toks = Fuse(@, t0, t2)]
              [] ~leftMatch /\ rightMatch -> [Step(1, 1, 2) EXCEPT !.toks = Fuse(@, t1, t3)]
              [] OTHER -> Step(1, 0, 1)

\* The end of fuseBraces: what is still open is fused with an empty token at the end, the innermost first.
RECURSIVE CloseBraces(_)
CloseBraces(st) ==
  IF st.opens = <<>> THEN st
  ELSE LET pushed == Push(st, 0, "unrecognized", Unknown)
       IN CloseBraces([pushed EXCEPT !.toks = Fuse(@, Last(st.opens), Len(@)), !.opens = Front(@), !.errors = @ + 1])

\* fuseStrings's concat: the first of several strings gets their text.
ConcatAs(toks, start, end, whole) ==
  LET meta == toks[start].meta
  IN IF start = Zero \/ start = end THEN toks
     ELSE Fuse([toks EXCEPT ![start].meta = [text |-> whole, prefix |-> IF meta = Nil THEN 0 ELSE meta.prefix,
                                             quote |-> IF meta = Nil THEN 1 ELSE meta.quote, concatenated |-> TRUE]], start, end)
\* Mutant: the text of the first string only.
ConcatFirst(s, toks, start, end) == ConcatAs(toks, start, end, TextOf(s, toks, start))
Concat(s, toks, start, end) ==
  LET strings == SelectSeq([i \in 1..end - start + 1 |-> start + i - 1], LAMBDA t : toks[t].kind = "string")
  IN ConcatAs(toks, start, end, FlattenSeq([i \in DOMAIN strings |-> TextOf(s, toks, strings[i])]))

RECURSIVE fuseStrings(_, _, _, _, _)
fuseStrings(s, st, t, start, end) ==
  LET kind == st.toks[t].kind
      odd == start # Zero /\ PrefixOf(s, st.toks, t) \notin {<<>>, PrefixOf(s, st.toks, start)}
      fused == [st EXCEPT !.toks = Concat(s, @, start, end)]
  IN CASE t > Len(st.toks) -> fused
       [] t <= Len(st.toks) /\ kind \in {"space", "comment"} -> fuseStrings(s, st, t + 1, start, end)
       [] t <= Len(st.toks) /\ kind = "string" ->
            fuseStrings(s, Errors(st, IF odd THEN 1 ELSE 0), t + 1, IF start = Zero THEN t ELSE start, t)
       [] OTHER -> fuseStrings(s, fused, t + 1, Zero, Zero)

-----------------------------------------------------------------------------
(* Cursors *)

\* A cursor at a place of the stream, in the tree that `parent` opens; `at` belongs to the model:
\* how many tokens of the tree are behind it.
CursorAt(idx, parent, at) == [idx |-> idx, back |-> FALSE, parent |-> parent, at |-> at]

PeekSkippable(toks, c) ==
  IF c.idx >= Len(toks) \/ (~c.back /\ IsClose(toks, c.idx + 1)) THEN Zero ELSE c.idx + 1

\* Mutant: backwards, a fused token is not passed over as one.
PeekPrevLeaf(toks, c) ==
  LET idx == c.idx - 1 IN IF idx < 0 \/ idx >= Len(toks) THEN Zero ELSE IF IsOpen(toks, idx + 1) THEN Zero ELSE idx + 1
PeekPrevSkippable(toks, c) ==
  LET idx == c.idx - 1 + (IF c.back /\ c.idx < Len(toks) /\ IsClose(toks, c.idx + 1) THEN toks[c.idx + 1].off ELSE 0)
  IN IF idx < 0 \/ idx >= Len(toks) THEN Zero ELSE IF IsOpen(toks, idx + 1) THEN Zero ELSE idx + 1

NextSkippable(toks, c) ==
  LET t == PeekSkippable(toks, c)
  IN IF t = Zero THEN c
     ELSE [c EXCEPT !.back = FALSE, !.idx = @ + 1 + (IF IsOpen(toks, t) THEN toks[t].off ELSE 0), !.at = @ + 1]
PrevSkippable(toks, c) ==
  LET t == PeekPrevSkippable(toks, c) IN IF t = Zero THEN c ELSE [c EXCEPT !.back = TRUE, !.idx = t - 1, !.at = @ - 1]

RECURSIVE Next_(_, _)
Next_(toks, c) ==
  LET t == PeekSkippable(toks, c)
  IN IF t # Zero /\ IsSkippable(toks[t].kind) THEN Next_(toks, NextSkippable(toks, c)) ELSE NextSkippable(toks, c)
RECURSIVE Prev_(_, _)
Prev_(toks, c) ==
  LET t == PeekPrevSkippable(toks, c)
  IN IF t # Zero /\ IsSkippable(toks[t].kind) THEN Prev_(toks, PrevSkippable(toks, c)) ELSE PrevSkippable(toks, c)

\* SeekToEnd, which returns the token after the last one.
RECURSIVE SeekToEnd(_, _)
SeekToEnd(toks, c) == IF PeekSkippable(toks, c) = Zero THEN c ELSE SeekToEnd(toks, NextSkippable(toks, c))

\* NewCursorAt a token, and Children of it.
SiblingsIn(toks, parent) ==
  {t \in DOMAIN toks :
     /\ ~IsClose(toks, t)
     /\ parent < t /\ (parent # Zero => t < parent + toks[parent].off)
     /\ ~\E o \in parent + 1..t - 1 : IsOpen(toks, o) /\ t < o + toks[o].off}
ParentOf(toks, t) ==
  LET around == {o \in 1..t - 1 : IsOpen(toks, o) /\ t < o + toks[o].off} IN IF around = {} THEN Zero ELSE CHOOSE o \in around : \A p \in around : p <= o

\* A cursor over all tokens, over the children of one, or at a token.
Cursors(toks) ==
  {CursorAt(0, Zero, 0)}
    \cup {CursorAt(t, t, 0) : t \in {o \in DOMAIN toks : IsOpen(toks, o)}}
    \cup {[CursorAt(t - 1, ParentOf(toks, StartEnd(toks, t)[1]), 0) EXCEPT
              !.back = IsClose(toks, t),
              !.at = Cardinality({o \in SiblingsIn(toks, ParentOf(toks, StartEnd(toks, t)[1])) : o < StartEnd(toks, t)[1]})]
            : t \in DOMAIN toks}

-----------------------------------------------------------------------------
(* The behaviour *)

NewLexer == [pos |-> 0, toks |-> <<>>, braces |-> <<>>, bad |-> 0, errors |-> 0, opens |-> <<>>, next |-> 1, phase |-> "lex"]

TokensInit == text = Nil /\ lex = NewLexer /\ cursor = Nil

\* A text that passes the prelude; a byte order mark becomes a token.  Of another one nothing is lexed.
Open(s) ==
  /\ text' = s
  /\ lex' = CASE ~lexPrelude(s) -> [NewLexer EXCEPT !.errors = 1, !.phase = "done"]
              [] lexPrelude(s) /\ At(s, 0) = "bom" -> Lexed(NewLexer, 1, "unrecognized", Unknown)
              [] OTHER -> NewLexer
  /\ UNCHANGED cursor

LexNext ==
  /\ text # Nil /\ lex.phase = "lex" /\ lex.pos < Len(text)
  /\ \E spaced \in {Spaces(text, lex, takeWhile(text, lex.pos, Whitespace))} : lex' = Iteration(text, spaced)
  /\ UNCHANGED <<text, cursor>>

FuseNext ==
  /\ text # Nil /\ lex.phase = "lex" /\ lex.pos >= Len(text)
  /\ lex' = IF lex.next <= Len(lex.braces) THEN FuseBrace(lex)
            ELSE [fuseStrings(text, CloseBraces(lex), 1, Zero, Zero) EXCEPT !.phase = "done"]
  /\ UNCHANGED <<text, cursor>>

NewCursor ==
  /\ lex.phase = "done" /\ cursor = Nil
  /\ cursor' \in Cursors(lex.toks)
  /\ UNCHANGED <<text, lex>>

MoveCursor ==
  /\ cursor # Nil
  /\ cursor' \in {NextSkippable(lex.toks, cursor), PrevSkippable(lex.toks, cursor), Next_(lex.toks, cursor),
                  Prev_(lex.toks, cursor), SeekToEnd(lex.toks, cursor)}
  /\ UNCHANGED <<text, lex>>

TokensNext == (text = Nil /\ \E s \in Texts : Open(s)) \/ LexNext \/ FuseNext \/ NewCursor \/ MoveCursor

TokensSpec == TokensInit /\ [][TokensNext]_tokenVars

-----------------------------------------------------------------------------
(* Properties *)

Lexable == lex.phase = "done" /\ cursor = Nil /\ lexPrelude(text)

\* What a token of a kind looks like.
WellFormed(t) ==
  LET toks == lex.toks
      s == LeafText(text, toks, t)
      kind == toks[t].kind
  IN CASE kind = "space" -> Range(s) = {" "} \/ s = <<"nl">>
       [] kind = "comment" -> \/ Text(s, 0, 2) = <<"/", "/">> /\ "nl" \notin Range(s)
                              \/ Text(s, 0, 2) = <<"/", "*">> /\ (lex.errors = 0 => seekInclusive(s, 2, <<"*", "/">>) = Len(s))
       [] kind = "ident" -> Head(s) \in XIDStart /\ Range(s) \subseteq XIDContinue
       [] kind = "number" -> Head(s) \in Digits \cup {"."} /\ (lex.errors = 0 => \E i \in DOMAIN s : s[i] \in Digits)
       [] kind = "string" -> \E i \in DOMAIN s : s[i] \in Quotes /\ (lex.errors = 0 => i < Len(s) /\ s[Len(s)] = s[i])
       [] kind = "keyword" -> s = toks[t].kw
       [] OTHER -> TRUE

\* The characters that the contents of a string stand for.
RECURSIVE Decoded(_)
Decoded(s) == IF s = <<>> THEN <<>> ELSE LET sc == lexStringContent(s, 0) IN <<sc.value>> \o Decoded(SubSeq(s, sc.end + 1, Len(s)))

IsPlain(t) == lex.toks[t].meta = Nil \/ (lex.toks[t].meta.prefix = 0 /\ lex.toks[t].meta.quote = 1)
RECURSIVE Strings(_, _)
Strings(t, end) ==
  IF t > end THEN <<>>
  ELSE (IF lex.toks[t].kind = "string" THEN Decoded(RawContent(text, lex.toks, t)) ELSE <<>>) \o Strings(t + 1, end)

\* The pairs of fused tokens (fuseBraces, fuseStrings) lead to each other, never overlap in part, and are brackets of one
\* kind, strings, or a bracket and an empty token at the end; a bracket that stays alone is an error.
TreesAreProper ==
  Lexable =>
    LET toks == lex.toks
    IN \A t \in DOMAIN toks :
         /\ ~IsLeaf(toks, t) => toks[t + toks[t].off].off = -toks[t].off
         /\ IsOpen(toks, t) =>
              LET close == t + toks[t].off
              IN /\ \A u \in t + 1..close - 1 : u + toks[u].off \in t + 1..close - 1
                 /\ \/ toks[close].kw = Right(toks[t].kw) /\ toks[t].kind = "keyword" /\ toks[close].kind = "keyword"
                    \/ toks[t].kind = "string" /\ toks[close].kind = "string"
                    \/ toks[t].kw \in Openers /\ toks[close].kind = "unrecognized" /\ lex.errors > 0
         /\ IsLeaf(toks, t) /\ toks[t].kw \in Openers \cup Closers => lex.errors > 0

\* The tokens of a text (lexer/loop.go) follow one another through all of it, but for what is not recognized at the very
\* end; each one looks like what it is, and none could have been longer; what is not recognized is an error; a string
\* without prefix stands for its contents, with those of the strings that follow it, and an integer without suffix has
\* the value of its digits.  The tokens that are fused make a tree, and Around finds those at an offset.
TokensAreExact ==
  Lexable =>
    LET toks == lex.toks
    IN /\ TreesAreProper
       /\ EndOf(toks) = Len(text) - (IF lex.bad > 0 THEN lex.bad ELSE 0)
       /\ lex.errors = 0 /\ EndOf(toks) = Len(text) =>
            \A o \in 1..Len(text) - 1 :
              LET a == Around(text, toks, o)
              IN offsets(toks, a[1])[1] < o /\ o <= toks[a[1]].end /\ offsets(toks, a[2])[1] <= o /\ o < toks[a[2]].end
       /\ \A t \in DOMAIN toks :
            LET from == offsets(toks, t)[1] IN
            /\ toks[t].end > from \/ (toks[t].kind = "unrecognized" /\ IsClose(toks, t) /\ from = Len(text))
            /\ WellFormed(t)
            /\ toks[t].kind \in {"ident", "number"} /\ lex.errors = 0 => At(text, toks[t].end) \notin XIDContinue
            /\ toks[t].kind = "unrecognized" /\ text[1] # "bom" => lex.errors > 0
            /\ (toks[t].kind = "string" /\ lex.errors = 0 /\ ~IsClose(toks, t)
                 /\ \A u \in t..t + toks[t].off : toks[u].kind = "string" => IsPlain(u)) => TextOf(text, toks, t) = Strings(t, t + toks[t].off)
            /\ toks[t].kind = "number" /\ lex.errors = 0 =>
                 LET digits == LeafText(text, toks, t)
                     plain == toks[t].meta = Nil \/ (toks[t].meta.suffix = 0 /\ toks[t].meta.word # Nil)
                 IN plain => IntOf(text, toks, t) = parseInt(SubSeq(digits, Radix(digits)[2] + 1, Len(digits)), Radix(digits)[1], 0)

\* A cursor (token/cursor.go) moves among the tokens of one tree, one at a time: before it and after it are the tokens
\* that are there, whichever way it came, and a fused token counts as one; without errors, the tokens that Next and Prev
\* skip are the same ones.
CursorsStayInTree ==
  cursor # Nil =>
    LET toks == lex.toks
        siblings == SelectSeq([t \in DOMAIN toks |-> t], LAMBDA t : t \in SiblingsIn(toks, cursor.parent))
        Is(t, n) == IF n \notin DOMAIN siblings THEN t = Zero ELSE t # Zero /\ StartEnd(toks, t)[1] = siblings[n]
        ends == SeekToEnd(toks, cursor)
    IN /\ cursor.at \in 0..Len(siblings)
       /\ Is(PeekSkippable(toks, cursor), cursor.at + 1)
       /\ Is(PeekPrevSkippable(toks, cursor), cursor.at)
       /\ ends.at = Len(siblings)
       /\ ends.idx = IF cursor.parent = Zero THEN Len(toks) ELSE cursor.parent + toks[cursor.parent].off - 1
       /\ lex.errors = 0 /\ Next_(toks, cursor).at > cursor.at =>
            LET there == Next_(toks, cursor) IN
            \A n \in cursor.at + 1..there.at - 1 : IsSkippable(toks[siblings[n]].kind)

=============================================================================
