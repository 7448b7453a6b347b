----------------------------- MODULE MCFrontend -----------------------------
EXTENDS Lexer, SourceInfo

VARIABLE subject  \* what the behaviour is about
CONSTANT Subjects

SeqsUpTo(S, n) == UNION {[1..k -> S] : k \in 0..n}

\* Comments on every side of tokens: sequences of pieces.
Pieces == {<<"a">>, <<";">>, <<"/", "*", "*", "/">>, <<"/", "*", "nl", "*", "/">>, <<"/", "/", "a">>, <<"nl">>}
CommentSources == {FlattenSeq(p) : p \in SeqsUpTo(Pieces, 5)}
LiteralChars == {"\"", "\\", "x", "u", "a", "0", "7", "nl", "nul"}
LiteralSources == {<<"\"">> \o s : s \in SeqsUpTo(LiteralChars, 3)}
NumberSources == {<<d>> \o s : d \in {"0", "1", "."}, s \in SeqsUpTo({"0", "8", "x", "e", "+", "."}, 3)}
MCSources == ((CommentSources \cup NumberSources) \X {TRUE}) \cup (LiteralSources \X BOOLEAN)

Body(word) == <<Word("message"), Word("a"), Mark("{"), Word("x"), Mark(";"), Word(word), Word("a"), Mark(";"), Mark("}")>>
Literal == <<Word("option"), Mark("="), Mark("{"), Mark("<"), Mark(";"), Word("package"), Mark(">"), Mark("}"), Mark(";")>>
ScanStatements ==
  {[kind |-> "import", modifier |-> m, path |-> p] : m \in {Nil, "public", "weak", "option"}, p \in {<<"a">>, <<"a", "x">>}}
    \cup {[kind |-> "package", name |-> n] : n \in {<<"a">>, <<"a", ".", "x">>}}
    \cup {[kind |-> "other", tokens |-> t] : t \in {Body("import"), Body("package"), Literal, <<Mark(";")>>}}
SomeStatements ==
  {[kind |-> "import", modifier |-> "public", path |-> <<"a", "x">>], [kind |-> "package", name |-> <<"a", ".", "x">>]}
    \cup {[kind |-> "other", tokens |-> t] : t \in {Body("import"), Body("package"), Literal}}
MCScanFiles == SeqsUpTo(ScanStatements, 2) \cup SeqsUpTo(SomeStatements, 3)

-----------------------------------------------------------------------------
(* Files to parse *)

HeaderFile ==
  <<"syntax", "=", "'proto3'", ";", ";", "import", "'a.proto'", ";", "import", "public", "'b.proto'", "'s'", ";", ";",
    "package", "p", ".", "q", ";", "option", "a", ".", "(", ".", "x", ".", "y", ")", "=", "-", "inf", ";">>
FieldsFile ==
  <<"message", "M", "{", ";", "optional", "int32", "a", "=", "1", "[", "deprecated", "=", "true", ",", "(", "x", ")", ".", "y", "=",
    "-", "1.5", "]", ";", "optional", "p", ".", "N", "b", "=", "2", ";", ";", "map", "<", "string", ",", "N", ">", "m", "=", "3", ";",
    "oneof", "o", "{", "option", "a", "=", "1", ";", ".", "p", ".", "N", "c", "=", "4", ";", "group", "G", "=", "5", "{", "}", "}",
    "repeated", "group", "H", "=", "9", "[", "a", "=", "'s'", "]", "{", "string", "s", "=", "1", ";", "}", ";", "}">>
RangesFile ==
  <<"message", "M", "{", "extensions", "1", ",", "2", "to", "3", ";", "extensions", "9", "to", "max", "[", "a", "=", "1", "]", ";", ";",
    "reserved", "4", "to", "5", ";", "reserved", "'s'", ",", "'s'", "'s'", ";",
    "enum", "E", "{", "option", "a", "=", "b", ";", "A", "=", "0", ";", "B", "=", "-", "1", "[", "a", "=", "1", "]", ";", ";",
    "reserved", "-", "5", "to", "-", "2", ",", "2", "to", "max", ";", "reserved", "'s'", ";", "}", "}">>
ServiceFile ==
  <<"edition", "=", "'2023'", ";", "service", "S", "{", ";", "option", "a", "=", "-", "huge", ";",
    "rpc", "R", "(", "stream", ".", "M", ")", "returns", "(", "M", ".", "N", ")", ";", ";",
    "rpc", "Q", "(", "M", ")", "returns", "(", "stream", "M", ")", "{", ";", "option", "b", "=", "-", "1", ";", "}", "}",
    "extend", "M", "{", "int32", "a", "=", "1", ";", "}", ";">>
ExtendFile ==
  <<"extend", "M", "{", "optional", "int32", "a", "=", "1", ";", "optional", "group", "G", "=", "2", "{", "optional", "int32", "a", "=", "1", ";", "}", "}",
    "message", "M", "{", "extend", "p", ".", "M", "{", "repeated", "group", "H", "=", "3", "{", "oneof", "o", "{", "group", "G", "=", "1", "{", "}", "}", "}", "}", "}">>
LiteralsFile ==
  <<"option", "a", "=", "{", "x", ":", "1", ",", "y", "{", "z", ":", "'s'", ";", "}", "[", "p", ".", "e", "]", ":", "[", "1", ",", "-", "nan", "]",
    "[", "p", ".", "q", "/", "N", "]", "<", "w", ":", "[", "]", ">", "v", "[", "{", "}", ",", "<", ">", "]", "u", ":", "<", ">", "}", ";">>
OptionalFile ==
  <<"syntax", "=", "'proto3'", ";", "message", "M", "{", "optional", "N", "a", "=", "1", ";", "oneof", "_a", "{", "N", "c", "=", "2", ";", "}",
    "optional", "N", "_b", "=", "3", ";", "enum", "E", "{", "X_b", "=", "0", ";", "}", "optional", "N", "X_a", "=", "4", ";",
    "message", "N", "{", "optional", "N", "n", "=", "1", ";", "}", "}">>
VisibilityFile ==
  <<"edition", "=", "'2023'", ";", "message", "M", "{", "enum", "E", "{", "A", "=", "0", ";", "}", "message", "N", "{", "}",
    "export", "x", "=", "1", ";", "local", "y", "=", "2", "[", "a", "=", "b", "]", ";", "reserved", "a", ",", "b", ";", "export", ".", "p", "z", "=", "3", ";",
    "message", "option", "{", "}", "}">>

\* Declarations that the grammar tolerates.
NoSemicolons ==
  <<"import", "'a.proto'", "package", "p", "option", "a", ".", "=", "1", "message", "M", "{", "int32", "a", "=", "1", "map", "<", "string", ",", "N", ".", ">", "m",
    "oneof", "o", "{", "N", "c", "option", "a", "=", "-", "1", "}", "reserved", "a", "optional", "N", "d", "[", "]", "}">>
NoTags ==
  <<"message", "M", "{", "N", "a", ";", "optional", "N", "b", "[", "x", ",", "]", ";", "export", "message", ";", "local", "x", ";",
    "repeated", "group", "G", "{", "}", "export", "n", "[", "a", "=", "{", "b", ":", "-", "c", "}", "]", ";", "enum", "E", "{", "A", "=", "0", "reserved", "'s'", "}",
    "extend", "N", "{", "optional", "N", "n", "=", "1", "}", "}",
    "service", "S", "{", "rpc", "R", "(", "M", ".", ")", "returns", "(", "M", ")", "}">>

CommentsFile == <<"message", "M", "{", "repeated", "N", "a", "=", "1", ";", "}", ";">>
\* Messages with two of these declarations.
Snippets == <<
  <<"optional", "int32", "a", "=", "1", ";">>, <<"int32", "b", "=", "3", ";">>, <<"required", "N", "a", "=", "2", "[", "default", "=", "1", "]", ";">>,
  <<"reserved", "1", "to", "2", ",", "9", ";">>, <<"reserved", "'s'", ",", "'a'", ";">>, <<"reserved", "a", ",", "s", ";">>, <<"reserved", "'a.proto'", ";">>,
  <<"extensions", "2", "to", "5", ";">>, <<"extensions", "9", "to", "max", "[", "features", "=", "1", "]", ";">>, <<"extensions", "5", "to", "4", ";">>,
  <<"option", "message_set_wire_format", "=", "true", ";">>, <<"option", "map_entry", "=", "false", ";">>,
  <<"oneof", "o", "{", "N", "c", "=", "19500", ";", "}">>, <<"oneof", "o", "{", "N", "c", "=", "4", ";", "}">>, <<"repeated", "N", "p", "=", "5", "[", "packed", "=", "true", "]", ";">>,
  <<"enum", "E", "{", "A", "=", "0", ";", "B", "=", "1", ";", "reserved", "2", "to", "3", ",", "-", "1", ";", "}">>,
  <<"enum", "E", "{", "option", "allow_alias", "=", "true", ";", "A", "=", "1", ";", "B", "=", "1", ";", "}">>,
  <<"enum", "E", "{", "A", "=", "2", ";", "reserved", "0", "to", "2", ";", "}">>,
  <<"optional", "group", "G", "=", "3", "{", "export", "message", "X", "{", "}", "}">>, <<"message", "N", "{", "message", "X", "{", "}", "}">>,
  <<"extend", "M", "{", "required", "N", "e", "=", "9", ";", "}">>, <<"local", "enum", "E", "{", "A", "=", "0", ";", "}">> >>
Headers == {<<"syntax", "=", "'proto2'", ";">>, <<"syntax", "=", "'proto3'", ";">>, <<"edition", "=", "'2023'", ";">>}
Small == {h \o <<"message", "M", "{">> \o Snippets[i] \o Snippets[j] \o <<"}">> :
            h \in Headers, <<i, j>> \in {p \in (DOMAIN Snippets) \X (DOMAIN Snippets) : p[1] < p[2]}}

MCInputs == Small \cup {ExtendFile, CommentsFile, <<>>, HeaderFile, FieldsFile, RangesFile, ServiceFile, LiteralsFile, OptionalFile, VisibilityFile, NoSemicolons, NoTags}
MCLowerCase == [n \in {"G", "H"} |-> IF n = "G" THEN "g" ELSE "h"]
MCUpperCase == [n \in {"m"} |-> "M"]
MCOptionPaths == [n \in {"deprecated", "default", "packed", "allow_alias"} |->
  CASE n = "deprecated" -> <<3>> [] n = "default" -> <<-1, 7>> [] n = "packed" -> <<2>> [] n = "allow_alias" -> <<2>>]

\* Comments before a token, with their lines counted from the line of the token before, and the token's line.
NewComment(n, block, from, to) == [id |-> n, block |-> block, from |-> from, to |-> to]
Gaps == {
  [line |-> 1, comments |-> <<NewComment(1, FALSE, 0, 0)>>],
  [line |-> 2, comments |-> <<NewComment(1, FALSE, 1, 1)>>],
  [line |-> 4, comments |-> <<NewComment(1, FALSE, 2, 2)>>],
  [line |-> 2, comments |-> <<NewComment(1, FALSE, 0, 0), NewComment(2, FALSE, 1, 1)>>],
  [line |-> 0, comments |-> <<NewComment(1, TRUE, 0, 0)>>],
  [line |-> 2, comments |-> <<NewComment(1, TRUE, 0, 1)>>],
  [line |-> 5, comments |-> <<NewComment(1, FALSE, 1, 1), NewComment(2, FALSE, 3, 3), NewComment(3, TRUE, 4, 4)>>] }
Bare == [line |-> 0, comments |-> <<>>]
\* A file on one line but for one gap or two adjacent ones.
Filled(n, at, gap, next) ==
  LET gapAt(k) == IF k = at THEN gap ELSE IF k = at + 1 THEN next ELSE Bare
      before(k) == (IF k > at THEN gap.line ELSE 0) + (IF k > at + 1 THEN next.line ELSE 0)
  IN [k \in 1..n |-> [line |-> before(k) + gapAt(k).line,
                       comments |-> [c \in DOMAIN gapAt(k).comments |->
                         [gapAt(k).comments[c] EXCEPT !.id = @ + 3 * k, !.from = @ + before(k), !.to = @ + before(k)]]]]
MCLayouts(n) ==
  IF n \in {Len(CommentsFile) + 1} THEN {Filled(n, at, gap, next) : at \in 1..n, gap \in Gaps \cup {Bare}, next \in Gaps \cup {Bare}}
  ELSE {Filled(n, 0, Bare, Bare)}

-----------------------------------------------------------------------------

FrontendInit == subject \in Subjects /\ LexerInit /\ ParserInit /\ ResultInit /\ InfoInit
LexerSteps == subject = "lexer" /\ LexerNext /\ UNCHANGED <<subject, parserVars, result, info>>
ParserSteps == subject = "parser" /\ ParserNext /\ UNCHANGED <<subject, lexerVars, result, info>>
ResultSteps == subject = "parser" /\ ResultNext /\ UNCHANGED <<subject, lexerVars, info>>
InfoSteps == subject = "parser" /\ InfoNext /\ UNCHANGED <<subject, lexerVars>>
FrontendNext == LexerSteps \/ ParserSteps \/ ResultSteps \/ InfoSteps
FrontendSpec == FrontendInit /\ [][FrontendNext]_<<subject, lexerVars, parserVars, result, info>>
=============================================================================
