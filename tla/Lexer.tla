------------------------------- MODULE Lexer --------------------------------
(***************************************************************************)
(* The lexer of the parser (parser/lexer.go), one call of Lex a step, with *)
(* the record it keeps of tokens, lines and comments (ast/file_info.go),   *)
(* and the streaming lexer that scans for imports (parser/fastscan).  A    *)
(* source is a sequence of characters, all of one byte; offsets count from *)
(* 0.  "nl" and "nul" are the newline and the null character.              *)
(***************************************************************************)
EXTENDS Integers, Tree, FiniteSets

CONSTANTS Sources,    \* <<source, collecting>>: a sequence of characters, and whether the handler collects errors
          ScanFiles,  \* the files that are scanned: sequences of statements
          MaxUint64   \* the largest unsigned integer

VARIABLES source,     \* the source, or Nil before it is opened
          lx,         \* protoLex and its FileInfo
          fast,       \* the streaming lexer
          scanned     \* the file that is scanned, its tokens to come and the result so far, or Nil

lexerVars == <<source, lx, fast, scanned>>

Letters == {"a", "e", "x", "u", "n"}
Digits == {"0", "1", "7", "8"}
Octals == {"0", "1", "7"}
HexDigits == Digits \cup {"a", "e"}
Whitespace == {"nl", " "}
Quotes == {"\"", "'"}
Punctuation == {";", ",", ".", ":", "=", "-", "+", "(", ")", "{", "}", "[", "]", "<", ">", "/"}
IdentStart == Letters \cup {"_"}

At(s, i) == IF i < Len(s) THEN s[i + 1] ELSE "eof"
Text(s, i, j) == SubSeq(s, i + 1, j)

-----------------------------------------------------------------------------
(* Go's strconv *)

DigitValue(c) == CASE c = "0" -> 0 [] c = "1" -> 1 [] c = "7" -> 7 [] c = "8" -> 8 [] c = "a" -> 10 [] c = "e" -> 14
DigitsOf(base) == CASE base = 8 -> Octals [] base = 10 -> Digits [] base = 16 -> HexDigits
Number(t, base) == FoldLeft(LAMBDA v, c : v * base + DigitValue(c), 0, t)
ParseUint(t, base) ==
  IF t = <<>> \/ ~(Range(t) \subseteq DigitsOf(base)) THEN "syntax"
  ELSE IF Number(t, base) > MaxUint64 THEN "range" ELSE "ok"
\* ParseInt allows a sign.
ParseInt(t, base) ==
  LET digits == IF t # <<>> /\ Head(t) = "+" THEN Tail(t) ELSE t
  IN IF digits = <<>> \/ ~(Range(digits) \subseteq DigitsOf(base)) THEN Nil ELSE Number(digits, base)
ParseFloat(t) ==
  LET e == SelectInSeq(t, LAMBDA c : c = "e")
      mantissa == IF e = 0 THEN t ELSE SubSeq(t, 1, e - 1)
      exponent == SubSeq(t, e + 1, Len(t))
      power == IF exponent # <<>> /\ Head(exponent) \in {"+", "-"} THEN Tail(exponent) ELSE exponent
  IN /\ Range(mantissa) \subseteq Digits \cup {"."}
     /\ Len(SelectSeq(mantissa, LAMBDA c : c = ".")) <= 1
     /\ \E c \in Range(mantissa) : c \in Digits
     /\ e # 0 => power # <<>> /\ Range(power) \subseteq Digits

-----------------------------------------------------------------------------
(* FileInfo *)

\* AddLine and AddToken panic when they are not called in order.
AddLine(st, offset) ==
  IF offset <= Last(st.lines) THEN [st EXCEPT !.panicked = TRUE]
  ELSE [st EXCEPT !.lines = Append(@, offset)]
AddToken(st, offset, length) ==
  LET last == Last(st.items)
  IN IF st.items # <<>> /\ offset <= last.offset + last.length - 1 THEN [st EXCEPT !.panicked = TRUE]
     ELSE [st EXCEPT !.items = Append(@, [offset |-> offset, length |-> length])]
\* AddComment: comments come in order, and so do the tokens they belong to.
AddComment(st, item, to) ==
  LET last == Last(st.attributed)
  IN IF st.attributed # <<>> /\ (item <= last.item \/ to < last.to) THEN [st EXCEPT !.panicked = TRUE]
     ELSE [st EXCEPT !.attributed = Append(@, [item |-> item, to |-> to])]

isComment(s, st, i) ==
  LET item == st.items[i] IN item.length >= 2 /\ At(s, item.offset) = "/" /\ At(s, item.offset + 1) \in {"/", "*"}

\* LeadingComments and TrailingComments of the token at item t: a run of comments, found by binary search.
LeadingComments(st, t) ==
  LET cs == st.attributed
      start == Search(1, Len(cs) + 1, {i \in DOMAIN cs : cs[i].to >= t})
      run == {j \in start..Len(cs) : \A i \in start..j : cs[i].to = t /\ cs[i].item < t}
  IN [i \in 1..Cardinality(run) |-> cs[start + i - 1].item]
TrailingComments(st, t) ==
  LET cs == st.attributed
      start == Search(1, Len(cs) + 1, {i \in DOMAIN cs : cs[i].to >= t /\ cs[i].item > t})
      run == {j \in start..Len(cs) : \A i \in start..j : cs[i].to = t}
  IN [i \in 1..Cardinality(run) |-> cs[start + i - 1].item]

\* SourcePos: the line is found by binary search.
SourceLine(st, offset) == Search(1, Len(st.lines) + 1, {n \in DOMAIN st.lines : st.lines[n] > offset}) - 1
\* The lines on which an item starts and ends.
FirstLine(st, i) == SourceLine(st, st.items[i].offset)
LastLine(st, i) == LET item == st.items[i] IN SourceLine(st, IF item.length > 0 THEN item.offset + item.length - 1 ELSE item.offset)

\* tokens.Previous and tokens.Next: the nearest item that is not a comment.
PreviousToken(s, st, i) == LET before == {j \in 1..i - 1 : ~isComment(s, st, j)} IN IF before = {} THEN Nil ELSE Max(before)
NextToken(s, st, i) == LET after == {j \in i + 1..Len(st.items) : ~isComment(s, st, j)} IN IF after = {} THEN Nil ELSE Min(after)

-----------------------------------------------------------------------------
(* protoLex *)

RECURSIVE readIdentifier(_, _)
readIdentifier(s, i) == IF At(s, i) \in IdentStart \cup Digits THEN readIdentifier(s, i + 1) ELSE i

\* A sign is part of the number right after an exponent's letter only.
RECURSIVE readNumber(_, _, _)
readNumber(s, i, allowExpSign) ==
  LET c == At(s, i)
  IN IF c \in IdentStart \cup Digits \cup {"."} \/ (c \in {"+", "-"} /\ allowExpSign)
     THEN readNumber(s, i + 1, c = "e") ELSE i

\* Up to n characters from i on, ending before a quote or a backslash; Nil at the end of the source.
RECURSIVE Escaped(_, _, _, _)
Escaped(s, q, i, n) ==
  IF n = 0 \/ At(s, i) \in {q, "\\"} THEN <<>>
  ELSE IF At(s, i) = "eof" THEN Nil
  ELSE LET more == Escaped(s, q, i + 1, n - 1) IN IF more = Nil THEN Nil ELSE <<At(s, i)>> \o more

\* The digits of an octal escape that starts at i: at most three.
OctalEscape(s, i) ==
  LET n == IF At(s, i + 1) \notin Octals THEN 1 ELSE IF At(s, i + 2) \notin Octals THEN 2 ELSE 3 IN Text(s, i, i + n)

\* The escape after the backslash at i - 1: where it ends, and the character it
\* stands for: Nil when it is invalid, "eof" when the source ends in it.
Escape(s, q, i) ==
  LET c == At(s, i)
      hex == IF At(s, i + 2) \in HexDigits THEN Text(s, i + 1, i + 3) ELSE Text(s, i + 1, i + 2)
      octal == OctalEscape(s, i)
      four == Escaped(s, q, i + 1, 4)
      byte(v) == IF v = Nil \/ v > 255 THEN Nil ELSE <<"byte", v>>
  IN CASE c = "x" ->
            IF At(s, i + 1) \in {q, "\\"} THEN [end |-> i + 1, char |-> Nil]
            ELSE IF "eof" \in {At(s, i + 1), At(s, i + 2)} THEN [end |-> Len(s), char |-> "eof"]
            ELSE [end |-> i + 1 + Len(hex), char |-> byte(ParseInt(hex, 16))]
       [] c \in Octals ->
            IF At(s, i + Len(octal)) = "eof" /\ Len(octal) < 3 THEN [end |-> Len(s), char |-> "eof"]
            ELSE [end |-> i + Len(octal), char |-> byte(ParseInt(octal, 8))]
       [] c = "u" ->
            IF four = Nil THEN [end |-> Len(s), char |-> "eof"]
            ELSE [end |-> i + 1 + Len(four),
                  char |-> IF Len(four) < 4 \/ ParseInt(four, 16) = Nil THEN Nil ELSE <<"rune", ParseInt(four, 16)>>]
       [] c \in {"a", "n", "\\", "?"} \cup Quotes -> [end |-> i + 1, char |-> <<"escaped", c>>]
       [] c = "eof" -> [end |-> i, char |-> "eof"]
       [] OTHER -> [end |-> i + 1, char |-> Nil]

\* From i on, with the value so far and the number of bad escapes: `whole` says
\* that the closing quote was found.
RECURSIVE readStringLiteral(_, _, _, _, _)
readStringLiteral(s, q, i, val, bad) ==
  LET c == At(s, i)
      escape == Escape(s, q, i + 1)
  IN CASE c = "eof" -> [end |-> i, whole |-> FALSE, val |-> val, bad |-> bad]
       [] c = "nl" -> [end |-> i + 1, whole |-> FALSE, val |-> val, bad |-> bad]
       [] c = q -> [end |-> i + 1, whole |-> TRUE, val |-> val, bad |-> bad]
       [] c = "nul" -> readStringLiteral(s, q, i + 1, val, bad + 1)
       [] c = "\\" ->
            IF escape.char = "eof" THEN [end |-> escape.end, whole |-> FALSE, val |-> val, bad |-> bad]
            ELSE IF escape.char = Nil THEN readStringLiteral(s, q, escape.end, val, bad + 1)
            ELSE readStringLiteral(s, q, escape.end, Append(val, escape.char), bad)
       [] OTHER -> readStringLiteral(s, q, i + 1, Append(val, c), bad)

\* The errors of a literal: each bad escape is reported when the next one is
\* met, the last one with the literal, unless the literal does not end.
LiteralErrors(literal) == IF literal.whole THEN literal.bad ELSE 1 + (IF literal.bad = 0 THEN 0 ELSE literal.bad - 1)

\* maybeNewLine, when the newline at offset i has been read.
maybeNewLine(st, i) ==
  [AddLine(st, i + 1) EXCEPT !.curLine = @ + 1,
     !.donate = IF st.comments # <<>> /\ st.comments[1].block /\ @ > 0 THEN @ + 1 ELSE @]

\* Mutant: the line on which the comment ends decides.
AddCommentByItsEnd(st, mark, end, block, startLine) ==
  LET added == AddToken(st, mark, end - mark)
  IN [added EXCEPT !.donate = IF st.comments = <<>> /\ st.curLine <= st.prevLine + 1 THEN @ + 1 ELSE @,
                   !.comments = Append(@, [item |-> Len(added.items), block |-> block])]

addComment(st, mark, end, block, startLine) ==
  LET added == AddToken(st, mark, end - mark)
  IN [added EXCEPT !.donate = IF st.comments = <<>> /\ startLine = st.prevLine THEN @ + 1 ELSE @,
                   !.comments = Append(@, [item |-> Len(added.items), block |-> block])]

\* May the first comment trail the token before it?  cur is the line of the token that comes next.
canDonate(st, cur) ==
  /\ st.prev # Nil /\ st.comments # <<>> /\ cur > st.prevLine /\ st.donate > 0
  /\ ~st.comments[1].block \/ Len(st.comments) > 1 \/ st.donate > 1

setPrevAndAddComments(st, n, kind) ==
  LET cur == IF kind = "eof" /\ st.curLine = st.prevLine THEN st.curLine + 1 ELSE st.curLine
      donated == canDonate(st, cur)
      given == IF donated THEN AddComment(st, st.comments[1].item, st.prev) ELSE st
      all == FoldLeft(LAMBDA t, c : AddComment(t, c.item, n), given, IF donated THEN Tail(st.comments) ELSE st.comments)
  IN [all EXCEPT !.comments = <<>>, !.donate = 0, !.prev = n, !.prevLine = st.curLine]

\* setIdent and its siblings: the token from mark to end.
SetToken(st, mark, end, kind, val) ==
  LET added == AddToken([st EXCEPT !.pos = end], mark, end - mark)
      n == Len(added.items)
      token == [kind |-> kind, val |-> val, item |-> n]
  IN setPrevAndAddComments([added EXCEPT !.tokens = Append(@, token), !.done = kind = "eof"], n, kind)

\* setError: a handler that stops takes the first error only.
SetError(st, end, count) ==
  [st EXCEPT !.pos = end, !.errors = IF st.collecting THEN @ + count ELSE 1]

NumberToken(s, st, mark, end) ==
  LET t == Text(s, mark, end)
      float == IF ParseFloat(t) THEN SetToken(st, mark, end, "float", t) ELSE SetError(st, end, 1)
      base == IF t[1] = "0" THEN 8 ELSE 10
  IN IF Len(t) > 1 /\ t[1] = "0" /\ t[2] = "x"
     THEN IF ParseUint(SubSeq(t, 3, Len(t)), 16) = "ok" THEN SetToken(st, mark, end, "int", t) ELSE SetError(st, end, 1)
     ELSE IF Range(t) \cap {".", "e"} # {} THEN float
     ELSE IF ParseUint(t, base) = "ok" THEN SetToken(st, mark, end, "int", t)
     ELSE IF base = 10 /\ ParseUint(t, base) = "range" THEN float
     ELSE SetError(st, end, 1)

StringToken(s, st, mark) ==
  LET Read(literal) ==
        IF literal.whole /\ literal.bad = 0 THEN SetToken(st, mark, literal.end, "string", literal.val)
        ELSE SetError(st, literal.end, LiteralErrors(literal))
  IN Read(readStringLiteral(s, At(s, mark), mark + 1, <<>>, 0))

RECURSIVE skipToEndOfLineComment(_, _)
skipToEndOfLineComment(s, i) ==
  IF At(s, i) \in {"eof", "nl", "nul"} THEN i ELSE skipToEndOfLineComment(s, i + 1)

\* With the newlines noted: the offset after the comment, or where it went wrong.
RECURSIVE skipToEndOfBlockComment(_, _, _)
skipToEndOfBlockComment(s, st, i) ==
  LET c == At(s, i)
      closed == c = "*" /\ At(s, i + 1) = "/"
  IN IF c \in {"eof", "nul"} THEN [st |-> st, end |-> IF c = "nul" THEN i + 1 ELSE i, ok |-> FALSE]
     ELSE IF closed THEN [st |-> st, end |-> i + 2, ok |-> TRUE]
     ELSE skipToEndOfBlockComment(s, IF c = "nl" THEN maybeNewLine(st, i) ELSE st, i + 1)

\* The loop of Lex, from offset mark on.
RECURSIVE LexFrom(_, _, _)
LexFrom(s, st, mark) ==
  LET c == At(s, mark)
      next == At(s, mark + 1)
      line == skipToEndOfLineComment(s, mark + 2)
      block == skipToEndOfBlockComment(s, st, mark + 2)
      ident == readIdentifier(s, mark + 1)
  IN CASE c = "eof" -> SetToken(st, mark, mark, "eof", <<>>)
       [] c \in Whitespace -> LexFrom(s, IF c = "nl" THEN maybeNewLine(st, mark) ELSE st, mark + 1)
       [] c = "." /\ next \in Digits -> NumberToken(s, st, mark, readNumber(s, mark + 2, FALSE))
       [] c \in IdentStart -> SetToken(st, mark, ident, "ident", Text(s, mark, ident))
       [] c \in Digits -> NumberToken(s, st, mark, readNumber(s, mark + 1, FALSE))
       [] c \in Quotes -> StringToken(s, st, mark)
       [] c = "/" /\ next = "/" ->
            IF At(s, line) = "nul" THEN SetError(st, line + 1, 1)
            ELSE LexFrom(s, addComment(st, mark, line, FALSE, st.curLine), line)
       [] c = "/" /\ next = "*" ->
            IF block.ok THEN LexFrom(s, addComment(block.st, mark, block.end, TRUE, st.curLine), block.end)
            ELSE SetError(block.st, block.end, 1)
       [] OTHER -> IF c \in Punctuation THEN SetToken(st, mark, mark + 1, c, <<>>) ELSE SetError(st, mark + 1, 1)

\* A new lexer, with a handler that collects errors or one that stops.
newLexer(collecting) ==
  [pos |-> 0, comments |-> <<>>, donate |-> 0, prev |-> Nil, prevLine |-> 0, curLine |-> 0,
   lines |-> <<0>>, items |-> <<>>, attributed |-> <<>>, tokens |-> <<>>,
   collecting |-> collecting, errors |-> 0, done |-> FALSE, panicked |-> FALSE]

\* Lex: nothing more once the handler has stopped.
Lexed(s, st) ==
  IF st.errors > 0 /\ ~st.collecting THEN [st EXCEPT !.done = TRUE]
  ELSE LexFrom(s, [st EXCEPT !.comments = <<>>], st.pos)

-----------------------------------------------------------------------------
(* The streaming lexer *)

\* The escape after the backslash at i - 1; one that is not valid stays as it is.
FastEscape(s, i) ==
  LET c == At(s, i)
      hex == IF At(s, i + 2) \in HexDigits THEN Text(s, i + 1, i + 3) ELSE Text(s, i + 1, i + 2)
      octal == OctalEscape(s, i)
      four == [k \in 1..4 |-> IF At(s, i + k) = "eof" THEN "nul" ELSE At(s, i + k)]
      cut == Min({i + 5, Len(s)})
      raw(end) == [end |-> end, chars |-> <<"\\">> \o Text(s, i, end)]
      one(end, char) == [end |-> end, chars |-> <<char>>]
  IN CASE c = "x" ->
            IF "eof" \in {At(s, i + 1), At(s, i + 2)} THEN raw(Len(s))
            ELSE IF ParseInt(hex, 16) = Nil THEN raw(i + 1 + Len(hex))
            ELSE one(i + 1 + Len(hex), <<"byte", ParseInt(hex, 16)>>)
       [] c \in Octals ->
            IF (Len(octal) < 3 /\ At(s, i + Len(octal)) = "eof") \/ ParseInt(octal, 8) > 255 THEN raw(i + Len(octal))
            ELSE one(i + Len(octal), <<"byte", ParseInt(octal, 8)>>)
       [] c = "u" ->
            IF ParseInt(four, 16) # Nil THEN one(i + 5, <<"rune", ParseInt(four, 16)>>)
            ELSE [end |-> cut, chars |-> (IF cut < i + 5 THEN <<"\\">> \o Text(s, i, cut) ELSE <<>>) \o <<"\\", "u">> \o four]
       [] c \in {"a", "n", "\\", "?"} \cup Quotes -> one(i + 1, <<"escaped", c>>)
       [] c = "eof" -> raw(i)
       [] OTHER -> raw(i + 1)

\* A string literal may span lines here; a newline in an escape is not counted.
RECURSIVE FastString(_, _, _, _, _)
FastString(s, q, i, val, line) ==
  LET c == At(s, i)
      escape == FastEscape(s, i + 1)
  IN CASE c \in {q, "eof"} -> [end |-> IF c = q THEN i + 1 ELSE i, val |-> val, line |-> line]
       [] c = "\\" /\ c # q -> FastString(s, q, escape.end, val \o escape.chars, line)
       [] OTHER -> FastString(s, q, i + 1, Append(val, c), IF c = "nl" THEN line + 1 ELSE line)

RECURSIVE FastLineComment(_, _)
FastLineComment(s, i) == IF At(s, i) \in {"eof", "nl"} THEN i ELSE FastLineComment(s, i + 1)
RECURSIVE FastBlockComment(_, _)
FastBlockComment(s, i) ==
  IF At(s, i) = "eof" THEN i ELSE IF At(s, i) = "*" /\ At(s, i + 1) = "/" THEN i + 2 ELSE FastBlockComment(s, i + 1)

Newlines(s, i, j) == Len(SelectSeq(Text(s, i, j), LAMBDA c : c = "nl"))

\* One token, from offset i on, where i is on the given line.
RECURSIVE FastToken(_, _, _, _)
FastToken(s, st, i, line) ==
  LET c == At(s, i)
      next == At(s, i + 1)
      token(kind, val, end, after) ==
        [st EXCEPT !.pos = end, !.line = after, !.tokens = Append(@, [kind |-> kind, val |-> val, line |-> line])]
      Read(kind, end) == token(kind, Text(s, i, end), end, line)
      Literal(literal) == token("string", literal.val, literal.end, literal.line)
      Block(end) == FastToken(s, st, end, line + Newlines(s, i, end))
  IN CASE c = "eof" -> [st EXCEPT !.pos = i, !.done = TRUE]
       [] c \in Whitespace -> FastToken(s, st, i + 1, IF c = "nl" THEN line + 1 ELSE line)
       [] c \in Digits \/ (c = "." /\ next \in Digits) -> Read("number", readNumber(s, i + 1, FALSE))
       [] c \in IdentStart -> Read("ident", readIdentifier(s, i + 1))
       [] c \in Quotes -> Literal(FastString(s, c, i + 1, <<>>, line))
       [] c = "/" /\ next = "/" -> FastToken(s, st, FastLineComment(s, i + 2), line)
       [] c = "/" /\ next = "*" -> Block(FastBlockComment(s, i + 2))
       [] OTHER -> token(c, <<>>, i + 1, line)

-----------------------------------------------------------------------------
(* Scan: the imports and the package, from the tokens of a file *)

\* An import statement that is being read ends at the first token that cannot be part of it.
ScanImport(sc, t) ==
  CASE sc.importing = Nil -> sc
    [] sc.importing # Nil /\ t.kind = "string" -> [sc EXCEPT !.importing = Append(@, t.val)]
    [] sc.importing = <<>> /\ t.kind = "ident" /\ t.val \in {"public", "weak", "option"} -> [sc EXCEPT !.modifier = t.val]
    [] OTHER -> [sc EXCEPT !.importing = Nil,
                           !.errors = IF sc.importing = <<>> \/ t.kind # ";" THEN @ + 1 ELSE @,
                           !.imports = IF sc.importing = <<>> THEN @
                                       ELSE Append(@, [path |-> sc.importing, modifier |-> sc.modifier])]

\* And so does a package statement.
ScanPackage(sc, t) ==
  LET names == sc.naming
      dotted == names # <<>> /\ Last(names) = "."
  IN CASE names = Nil -> sc
       [] names # Nil /\ t.kind = "ident" ->
            [sc EXCEPT !.naming = Append(@, t.val), !.errors = IF names = <<>> \/ dotted THEN @ ELSE @ + 1]
       [] names # Nil /\ t.kind = "." ->
            [sc EXCEPT !.naming = Append(@, "."), !.errors = IF names = <<>> \/ dotted THEN @ + 1 ELSE @]
       [] OTHER -> [sc EXCEPT !.naming = Nil,
                              !.errors = @ + (IF t.kind # ";" \/ names = <<>> THEN 1 ELSE 0) + (IF dotted THEN 1 ELSE 0),
                              !.package = IF names = <<>> THEN @ ELSE names]

closeSymbol == [c \in {"(", "{", "[", "<"} |-> CASE c = "(" -> ")" [] c = "{" -> "}" [] c = "[" -> "]" [] c = "<" -> ">"]

\* May a declaration of the file start at this token?
AtDeclaration(sc) == sc.start /\ sc.open = <<>>

ScannedToken(sc, t) ==
  LET read == ScanPackage(ScanImport(sc, t), t)
      declares(word) == t.kind = "ident" /\ t.val = word /\ AtDeclaration(sc)
      open == CASE t.kind \in DOMAIN closeSymbol -> Append(sc.open, closeSymbol[t.kind])
                [] sc.open # <<>> /\ t.kind = Last(sc.open) -> Front(sc.open)
                [] OTHER -> sc.open
  IN [read EXCEPT !.open = open, !.start = t.kind \in {"}", ";"},
                  !.importing = IF declares("import") THEN <<>> ELSE @,
                  !.modifier = IF declares("import") THEN Nil ELSE @,
                  !.naming = IF declares("package") THEN <<>> ELSE @]

NothingScanned ==
  [importing |-> Nil, modifier |-> Nil, naming |-> Nil, open |-> <<>>, start |-> TRUE, package |-> <<>>, imports |-> <<>>, errors |-> 0]

-----------------------------------------------------------------------------
(* The behaviours *)

LexerInit == source = Nil /\ lx = Nil /\ fast = Nil /\ scanned = Nil

Open ==
  /\ source = Nil /\ scanned = Nil
  /\ \E s \in Sources :
       /\ source' = s[1]
       /\ lx' = newLexer(s[2])
  /\ fast' = [pos |-> 0, line |-> 0, tokens |-> <<>>, done |-> FALSE]
  /\ UNCHANGED scanned

Lex ==
  /\ lx # Nil /\ ~lx.done
  /\ lx' = Lexed(source, lx)
  /\ UNCHANGED <<source, fast, scanned>>

\* The streaming lexer shares nothing with the other; it comes after it.
FastLex ==
  /\ lx # Nil /\ lx.done /\ ~fast.done
  /\ fast' = FastToken(source, fast, fast.pos, fast.line)
  /\ UNCHANGED <<source, lx, scanned>>

\* The tokens of a statement as the grammar has them.
Word(w) == [kind |-> "ident", val |-> w]
Mark(c) == [kind |-> c, val |-> Nil]
Tokens(statement) ==
  CASE statement.kind = "import" ->
         <<Word("import")>> \o (IF statement.modifier = Nil THEN <<>> ELSE <<Word(statement.modifier)>>)
           \o [i \in DOMAIN statement.path |-> [kind |-> "string", val |-> statement.path[i]]] \o <<Mark(";")>>
    [] statement.kind = "package" ->
         <<Word("package")>> \o [i \in DOMAIN statement.name |-> IF statement.name[i] = "." THEN Mark(".") ELSE Word(statement.name[i])]
           \o <<Mark(";")>>
    [] OTHER -> statement.tokens

Scan ==
  /\ source = Nil /\ scanned = Nil
  /\ \E file \in ScanFiles :
       scanned' = [file |-> file, tokens |-> FlattenSeq([i \in DOMAIN file |-> Tokens(file[i])]), result |-> NothingScanned]
  /\ UNCHANGED <<source, lx, fast>>

ScanToken ==
  /\ scanned # Nil /\ scanned.tokens # <<>>
  /\ scanned' = [scanned EXCEPT !.tokens = Tail(@), !.result = ScannedToken(@, Head(scanned.tokens))]
  /\ UNCHANGED <<source, lx, fast>>

LexerNext == Open \/ Lex \/ FastLex \/ Scan \/ ScanToken
LexerSpec == LexerInit /\ [][LexerNext]_lexerVars

-----------------------------------------------------------------------------
(* What a source is, character by character *)

InItem(o) == \E i \in DOMAIN lx.items : lx.items[i].offset <= o /\ o < lx.items[i].offset + lx.items[i].length
TokenItems == {lx.tokens[k].item : k \in DOMAIN lx.tokens}
CommentItems == DOMAIN lx.items \ TokenItems
LineOf(o) == 1 + Newlines(source, 0, o)
EndOf(i) == lx.items[i].offset + lx.items[i].length

\* The comments of token t on one side of it, as they were attributed.
Attributed(t, leading) ==
  [k \in DOMAIN SelectSeq(lx.attributed, LAMBDA c : c.to = t /\ (c.item < t) = leading) |->
     SelectSeq(lx.attributed, LAMBDA c : c.to = t /\ (c.item < t) = leading)[k].item]

\* A comment trails a token only when it starts on the token's last line and
\* the next token does not start on the line where the first token ended.
MayTrail(c, t) ==
  /\ LineOf(lx.items[c].offset) = LineOf(EndOf(t) - 1)
  /\ LET next == NextToken(source, lx, c)
     IN lx.items[next].length = 0 \/ LineOf(lx.items[next].offset) > LineOf(EndOf(t) - 1)

LexedExactly ==
  lx # Nil /\ lx.errors = 0 =>
    /\ \A o \in 0..lx.pos - 1 : InItem(o) \/ source[o + 1] \in Whitespace
    /\ lx.lines = <<0>> \o SelectSeq([o \in 1..lx.pos |-> o], LAMBDA o : source[o] = "nl")
    /\ \A i \in DOMAIN lx.items : SourceLine(lx, lx.items[i].offset) = LineOf(lx.items[i].offset)
    /\ \A i \in DOMAIN lx.items : (i \in CommentItems) = isComment(source, lx, i)
    /\ \A c \in CommentItems :
         Cardinality({k \in DOMAIN lx.attributed : lx.attributed[k].item = c}) = 1
    /\ \A k \in DOMAIN lx.attributed :
         LET c == lx.attributed[k]
         IN \/ c.to = NextToken(source, lx, c.item)
            \/ c.to = PreviousToken(source, lx, c.item) /\ MayTrail(c.item, c.to)
    /\ \A t \in TokenItems : LeadingComments(lx, t) = Attributed(t, TRUE) /\ TrailingComments(lx, t) = Attributed(t, FALSE)

\* The tokens of the parser's lexer as the streaming lexer gives them.
AsFast == [k \in 1..Len(lx.tokens) - 1 |->
             LET t == lx.tokens[k]
             IN [kind |-> IF t.kind \in {"int", "float"} THEN "number" ELSE t.kind, val |-> t.val,
                 line |-> FirstLine(lx, t.item) - 1]]
LexersAgree == lx # Nil /\ fast.done /\ lx.errors = 0 => fast.tokens = AsFast

\* Scan returns the imports and the package of a well-formed file and reports
\* no error, whatever the names in the bodies of its other declarations.
ScanIsExact ==
  scanned # Nil /\ scanned.tokens = <<>> =>
    LET of(kind) == SelectSeq(scanned.file, LAMBDA d : d.kind = kind)
    IN /\ scanned.result.errors = 0
       /\ scanned.result.imports = [i \in DOMAIN of("import") |-> [path |-> of("import")[i].path, modifier |-> of("import")[i].modifier]]
       /\ scanned.result.package = IF of("package") = <<>> THEN <<>> ELSE Last(of("package")).name

\* Lexing never calls AddLine, AddToken or AddComment out of order, which would
\* panic.  As long as no error was reported, tokens and comments cover all of
\* the source but its whitespace, lines are the lines of the source, every
\* comment belongs to one token next to it, trails a token only from the line
\* on which the token ends, and is found again by the token's LeadingComments
\* or TrailingComments; and the streaming lexer gives the same tokens, values
\* and lines; and what is scanned from them is right.
LexingIsExact == (lx # Nil => ~lx.panicked) /\ LexedExactly /\ LexersAgree /\ ScanIsExact
=============================================================================
