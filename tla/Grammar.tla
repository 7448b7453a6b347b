------------------------------ MODULE Grammar -------------------------------
(***************************************************************************)
(* The language that the experimental parser accepts, as a context-free    *)
(* grammar: the reference for modules ExpParser and Legalize.  A symbol is *)
(* <<word>>, or the name of a non-terminal with its attributes.  Where the *)
(* parser takes more than Protobuf does, a comment says so.                *)
(***************************************************************************)
EXTENDS Legalize

t(w) == <<w>>
n(name) == <<name, "">>
Id == <<"class", "ident">>
Num == <<"class", "number">>
Str == <<"class", "string">>

-----------------------------------------------------------------------------
(* Paths.  A path that is the last thing in its brackets may end in a separator, or be one: the parser takes it. *)

Sep == n("separator")
\* No separator follows: a path takes all it can.
NoSep == <<"class", "no separator">>
Idents(ws) == {w \in Range(ws) : KindOf(w) = "ident"}
TypePathFirst(ws) == Idents(ws) \ FieldTypeModifiers
PathProductions(ws, name, a, b) ==
  CASE name = "separator" -> {<<t(".")>>, <<t("/")>>}
    [] name = "dotted" -> {<<>>, <<t("."), Id, n("dotted")>>}
    [] name = "type path" -> {<<Id, n("dotted")>>, <<t("."), Id, n("dotted")>>}
    [] name = "inner path" -> {<<n("type path")>>, <<n("type path"), t(".")>>, <<t(".")>>}
    [] name = "option name" -> {<<n("option part")>>, <<n("option part"), t("."), n("option name")>>}
    [] name = "option part" -> {<<Id>>, <<t("("), n("inner path"), t(")")>>}
    \* The name of a package: a components and b bytes are left.
    [] name = "package path" ->
         IF a = 0 THEN {} ELSE {<<t(w), <<"package rest", a - 1, b - Len(w)>>>> : w \in {w \in Idents(ws) : Len(w) <= b}}
    [] name = "package rest" -> IF b = 0 THEN {<<>>} ELSE {<<>>, <<t("."), <<"package path", a, b - 1>>>>}
    \* Any path, where it is not looked at; a: whether it is the last thing in its brackets.
    [] name = "any path" ->
         LET all == <<n("any part"), n("any rest")>> IN {all \o <<NoSep>>, <<Sep>> \o all \o <<NoSep>>} \cup (IF a THEN {all \o <<Sep>>, <<Sep>> \o all \o <<Sep>>, <<Sep>>} ELSE {})
    [] name = "any part" -> {<<Id>>, <<t("("), <<"any path", TRUE>>, t(")")>>}
    [] name = "any rest" -> {<<>>, <<Sep, n("any part"), n("any rest")>>}
    \* The name of an Any: one slash, which may be the first thing in it.
    [] name = "url" -> {<<Id, n("url rest")>>, <<Id, n("url rest"), Sep>>, <<t("/"), Id, n("dotted")>>, <<t("/"), Id, n("dotted"), Sep>>, <<t("/")>>}
    [] name = "url rest" -> {<<n("dotted")>>, <<n("dotted"), t("/"), Id, n("dotted")>>}
    [] OTHER -> {}

-----------------------------------------------------------------------------
(* Values.  `open`: it is the last thing in its brackets, and a "<" in it need not be closed.  `raw`: it is not looked at. *)

LegalLiterals(ws) == {<<t(w)>> : w \in {w \in Range(ws) : KindOf(w) \in {"number", "string"} /\ w \notin {"b\"s\"", "0b1", "0o1", "1_0"}}}
ValueProductions(ws, name, open, raw) ==
  CASE name = "simple" -> LegalLiterals(ws) \cup {<<<<"any path", open>>>>, <<t("-"), <<"prefix", open, TRUE>>>>, <<<<"dict", FALSE, FALSE>>>>}
    [] name = "option value" -> {<<<<"simple", open, FALSE>>>>} \cup (IF open THEN {<<t("<"), <<"fields", TRUE, FALSE>>>>} ELSE {})
    [] name = "tag value" -> {<<<<"simple", FALSE, FALSE>>>>, <<<<"array", FALSE, FALSE>>>>}
    [] name = "field value" -> {<<<<"simple", open, FALSE>>>>, <<<<"array", FALSE, FALSE>>>>, <<<<"angles", open, FALSE>>>>}
    \* Expressions that are not looked at.
    [] name = "solo" -> {<<Num>>, <<Str>>, <<<<"any path", open>>>>}
    [] name = "bracketed" -> {<<<<"array", FALSE, TRUE>>>>, <<<<"dict", FALSE, TRUE>>>>, <<<<"angles", open, TRUE>>>>}
    [] name = "prefix" -> {<<<<"solo", open, TRUE>>>>, <<<<"bracketed", open, TRUE>>>>, <<t("-"), <<"prefix", open, TRUE>>>>}
    [] name = "infix" -> {<<<<"prefix", open, TRUE>>>>, <<<<"prefix", FALSE, TRUE>>, <<"to", open, TRUE>>>>}
    [] name = "to" -> {<<t("to"), <<"operand", open, TRUE>>>>, <<t("to"), <<"operand", FALSE, TRUE>>, <<"to", open, TRUE>>>>}
    [] name = "operand" -> {<<<<"solo", open, TRUE>>>>, <<t("-"), <<"prefix", open, TRUE>>>>}
    \* Lists.
    [] name = "array" -> {<<t("["), t("]")>>, <<t("["), <<"elements", open, raw>>, t("]")>>}
    [] name = "elements" -> {<<<<"element", TRUE, raw>>>>, <<<<"element", FALSE, raw>>, t(","), <<"elements", open, raw>>>>}
    [] name = "element" -> IF raw THEN {<<<<"infix", open, TRUE>>>>, <<<<"prefix", FALSE, TRUE>>, t(":"), <<"infix", open, TRUE>>>>}
                           ELSE {<<<<"simple", open, FALSE>>>>, <<<<"angles", open, FALSE>>>>}
    [] name = "dicts" -> {<<<<"message", TRUE, FALSE>>>>, <<<<"message", FALSE, FALSE>>, t(","), <<"dicts", open, FALSE>>>>}
    [] name = "message" -> {<<<<"dict", FALSE, FALSE>>>>, <<<<"angles", open, FALSE>>>>}
    [] name = "dict" -> {<<t("{"), <<"fields", TRUE, raw>>, t("}")>>}
    [] name = "angles" -> {<<t("<"), <<"fields", FALSE, raw>>, t(">")>>} \cup (IF open THEN {<<t("<"), <<"fields", TRUE, raw>>>>} ELSE {})
    [] name = "fields" -> {<<>>, <<<<"field", open, raw>>>>, <<<<"field", FALSE, raw>>, n("delimiter"), <<"fields", open, raw>>>>}
    [] name = "delimiter" -> {<<>>, <<t(",")>>, <<t(";")>>}
    [] name = "field" -> IF raw THEN {<<<<"prefix", FALSE, TRUE>>, t(":"), <<"infix", open, TRUE>>>>, <<<<"prefix", FALSE, TRUE>>, <<"bracketed", open, TRUE>>>>,
                                      <<<<"prefix", FALSE, TRUE>>, <<"bracketed", FALSE, TRUE>>, <<"to", open, TRUE>>>>}
                         ELSE {<<n("key"), t(":"), <<"field value", open, FALSE>>>>, <<n("key"), <<"message", open, FALSE>>>>,
                               <<n("key"), t("["), t("]")>>, <<n("key"), t("["), <<"dicts", FALSE, FALSE>>, t("]")>>}
    [] name = "key" -> LegalLiterals(ws) \cup {<<Id, n("any rest")>>, <<Sep, Id, n("any rest")>>, <<t("["), n("url"), t("]")>>, <<t("["), Num, t("]")>>, <<t("["), Str, t("]")>>}
    [] OTHER -> {}

-----------------------------------------------------------------------------
(* Declarations *)

Options == <<t("["), <<"options", FALSE>>, t("]")>>
Maybe(seq) == {<<>>, seq}
Labels(syn) == CASE syn = "proto2" -> {"optional", "required", "repeated"} [] syn = "proto3" -> {"optional", "repeated"} [] OTHER -> {"repeated"}
Body(kind) == <<t("{"), <<"body", kind>>, t("}")>>
Labelled(syn, in, seq) == IF in = "oneof" THEN {seq} ELSE {<<t(l)>> \o seq : l \in Labels(syn)} \cup (IF syn = "proto2" THEN {} ELSE {seq})

\* A modifier before a dot is still a modifier; `option` begins an option.
FieldTypes(ws, labelled) ==
  {<<t(w)>> : w \in {w \in Idents(ws) : labelled \/ w # "option"}} \cup {<<t("."), Id, n("dotted")>>}
    \cup {<<t(w), t("."), Id, n("dotted")>> : w \in TypePathFirst(ws)}
FieldEnds == {<<Id, t("="), <<"tag value", FALSE, FALSE>>>> \o o \o <<t(";")>> : o \in Maybe(Options)}

Elements(syn, in) ==
  LET types == {<<n("message")>>, <<n("enum")>>, <<n("extend")>>}
  IN {<<t(";")>>} \cup
     CASE in \in {"message", "group"} -> types \cup {<<<<"field decl", in>>>>, <<<<"group decl", in>>>>, <<n("option")>>, <<n("oneof")>>}
                                           \cup (IF in = "message" THEN {<<n("reserved")>>, <<n("extensions")>>} ELSE {})
       [] in = "extend" -> {<<<<"field decl", in>>>>, <<<<"group decl", in>>>>}
       [] in = "oneof" -> {<<<<"field decl", in>>>>, <<<<"group decl", in>>>>, <<n("option")>>}
       [] in = "enum" -> {<<n("option")>>, <<n("value")>>, <<n("reserved")>>}
       [] in = "service" -> {<<n("option")>>, <<n("rpc")>>}
       [] in = "method" -> {<<n("option")>>}

DeclProductions(ws, syn, name, a) ==
  CASE name = "body" -> {j \o e \o <<<<"body", a>>>> : j \in Maybe(<<n("junk")>>), e \in Elements(syn, a)} \cup Maybe(<<n("junk")>>)
    \* A modifier before a dot is still a modifier: it cannot begin the name of an option.
    [] name = "option" -> {<<t("option")>> \o p \o <<t("="), <<"option value", FALSE, FALSE>>, t(";")>> :
                             p \in {<<Id>>, <<t("("), n("inner path"), t(")")>>, <<t("("), n("inner path"), t(")"), t("."), n("option name")>>}
                                     \cup {<<t(w), t("."), n("option name")>> : w \in TypePathFirst(ws)}}
    [] name = "options" -> {<<n("option name"), t("="), <<"option value", TRUE, FALSE>>>>,
                            <<n("option name"), t("="), <<"option value", FALSE, FALSE>>, t(","), <<"options", FALSE>>>>}
    [] name = "modifiers" -> {<<>>} \cup (IF syn = "2024" THEN {<<t(m), n("modifiers")>> : m \in TypeModifiers} ELSE {})
    [] name \in {"message", "enum"} -> {<<n("modifiers"), t(name), Id>> \o Body(name)}
    [] name \in {"oneof", "service"} -> {<<t(name), Id>> \o Body(name)}
    [] name = "extend" -> {<<t("extend"), n("type path")>> \o Body("extend")}
    [] name = "field decl" ->
         {ty \o end : ty \in UNION {Labelled(syn, a, f) : f \in FieldTypes(ws, TRUE)} \cap
                              ({<<t(l)>> \o f : l \in FieldTypeModifiers, f \in FieldTypes(ws, TRUE)} \cup FieldTypes(ws, FALSE)), end \in FieldEnds}
           \cup (IF a = "oneof" THEN {} ELSE {<<t("map"), t("<"), n("type path"), t(","), n("type path"), t(">")>> \o end : end \in FieldEnds})
    [] name = "group decl" ->
         IF syn # "proto2" THEN {}
         ELSE Labelled(syn, a, <<t("group"), t("Group"), t("="), <<"tag value", FALSE, FALSE>>>> \o Body("group"))
                \cup Labelled(syn, a, <<t("group"), t("Group"), t("="), <<"tag value", FALSE, FALSE>>>> \o Options \o Body("group"))
    [] name = "value" -> FieldEnds
    [] name = "rpc" -> {<<t("rpc"), Id, t("("), n("param"), t(")"), t("returns"), t("("), n("param"), t(")")>> \o end : end \in {<<t(";")>>, Body("method")}}
    \* What follows `stream` is not looked at; a second one before a dot is still a modifier.
    [] name = "param" -> {<<n("type path")>>, <<n("type path"), Sep>>, <<t(".")>>, <<t("stream"), Sep>>}
                           \cup {<<t("stream")>> \o p \o e : e \in Maybe(<<Sep>>),
                                   p \in {<<t(w), n("any rest")>> : w \in Idents(ws) \ {"stream"}}
                                           \cup {<<t("stream")>>, <<t("("), <<"any path", TRUE>>, t(")"), n("any rest")>>, <<Sep, n("any part"), n("any rest")>>}}
    \* Ranges may be missing, names may be any path, and extensions may have names.
    [] name = "reserved" -> {<<t("reserved"), t(";")>>, <<t("reserved"), NoSep, n("tags"), t(";")>>, <<t("reserved"), NoSep, n("names"), t(";")>>}
    [] name = "extensions" -> {<<t("extensions"), NoSep>> \o r \o o \o <<t(";")>> : r \in Maybe(<<n("extension tags")>>), o \in Maybe(Options)}
    [] name = "tag" -> {<<Num>>, <<t("-"), <<"prefix", FALSE, TRUE>>>>, <<<<"prefix", FALSE, TRUE>>, <<"to", FALSE, TRUE>>>>}
    [] name = "tags" -> {<<n("tag")>>, <<n("tag"), t(","), n("tags")>>}
    [] name = "names" -> LET item == IF syn \in Editions THEN <<"any path", FALSE>> ELSE n("reserved name")
                         IN {<<item>>, <<item, t(","), n("names")>>}
    [] name = "reserved name" -> {<<t(w)>> : w \in StringWords \ {"\"%\""}}
    [] name = "extension tags" -> UNION {{<<item>>, <<item, t(","), n("extension tags")>>} : item \in {n("tag"), <<"any path", FALSE>>}}
    \* Three tokens or more that begin no declaration are passed over.
    [] name = "junk" -> {<<n("stray"), n("stray"), n("stray"), n("strays")>>}
    [] name = "strays" -> {<<>>, <<n("stray"), n("strays")>>}
    [] name = "stray" -> {<<Num>>, <<Str>>, <<t("["), n("balanced"), t("]")>>} \cup {<<t(w)>> : w \in {"=", ":", ",", "-", "<", ">"}}
    [] name = "balanced" -> {<<>>, <<n("stray"), n("balanced")>>, <<Id, n("balanced")>>, <<t(";"), n("balanced")>>, <<Sep, n("balanced")>>,
                             <<t("{"), n("balanced"), t("}"), n("balanced")>>, <<t("("), n("balanced"), t(")"), n("balanced")>>}
    [] OTHER -> {}

-----------------------------------------------------------------------------
(* Files *)

\* a: whether a package may still follow; b: whether an `import option` came before.
TopProductions(ws, syn, name, a, b) ==
  LET decls == {<<t(";")>>, <<n("option")>>, <<n("message")>>, <<n("enum")>>, <<n("extend")>>, <<n("service")>>}
      modified == {<<n("import with"), t(m), Str, t(";")>> : m \in {"public"} \cup (IF syn = "2024" THEN {} ELSE {"weak"})}
      imports == IF b THEN {} ELSE {<<t("import"), Str, t(";")>>} \cup modified
      \* A package that is not at the top is not looked at, and there may be more than one.
      late == IF a THEN {<<n("late package")>>} ELSE {}
      Tops(E, a2, b2) == {j \o e \o <<<<"top", a2, b2>>>> : j \in Maybe(<<n("junk")>>), e \in E}
      optioned == IF syn = "2024" THEN Tops({<<n("import with"), t("option"), Str, t(";")>>}, a, TRUE) ELSE {}
  IN CASE name = "file" -> {<<n("header"), n("first")>>} \cup (IF syn = "proto2" THEN {<<n("first")>>} ELSE {})
       \* Modifiers before a keyword that a path follows are passed over, and so is the path of a syntax.
       [] name = "passed" -> {<<>>} \cup {<<t(m), n("passed")>> : m \in SomeModifiers \cup FieldTypeModifiers}
       [] name = "import with" -> {<<n("passed"), t("import")>>}
       [] name = "header" -> LET kw == t(IF syn \in Editions THEN "edition" ELSE "syntax")
                             IN {j \o k \o <<t("="), t("\"" \o syn \o "\""), t(";")>> :
                                   j \in Maybe(<<n("junk")>>), k \in {<<kw>>, <<n("passed"), kw, n("any part"), n("any rest")>>}}
       [] name = "first" -> Tops({<<n("passed"), t("package"), <<"package path", MaxPathComponents, MaxPathBytes>>, t(";")>>}, FALSE, FALSE)
                              \cup {<<<<"opening", TRUE, FALSE>>>>}
       [] name = "opening" -> Tops(decls \cup imports, a, b) \cup optioned \cup Maybe(<<n("junk")>>)
       [] name = "top" -> Tops(decls \cup imports \cup late, a, b) \cup optioned \cup Maybe(<<n("junk")>>)
       [] name = "late package" -> {p \o o \o <<t(";")>> :
                                      p \in {<<t("package")>>, <<t("package"), <<"any path", FALSE>>>>, <<n("passed"), t("package"), n("any part"), n("any rest")>>},
                                      o \in {<<>>, <<t("["), t("]")>>, <<t("["), n("any options"), t("]")>>}}
       [] name = "any options" -> {<<<<"any path", FALSE>>, t("="), <<"infix", TRUE, TRUE>>>>,
                                   <<<<"any path", FALSE>>, t("="), <<"infix", FALSE, TRUE>>, t(","), n("any options")>>}
       [] OTHER -> {}

Productions(ws, syn, s) ==
  LET a == s[2]
      b == IF Len(s) = 3 THEN s[3] ELSE ""
  IN CASE s[1] \in {"file", "header", "first", "opening", "top", "late package", "any options", "passed", "import with"} -> TopProductions(ws, syn, s[1], a, b)
       [] s[1] \in {"separator", "dotted", "type path", "inner path", "option name", "option part", "package path", "package rest", "any path", "any part",
                    "any rest", "url", "url rest"} -> PathProductions(ws, s[1], a, b)
       [] s[1] \in {"simple", "option value", "tag value", "field value", "solo", "bracketed", "prefix", "infix", "to", "operand", "array", "elements",
                    "element", "dicts", "dict", "angles", "fields", "delimiter", "field", "key"} \/ (s[1] = "message" /\ Len(s) = 3) -> ValueProductions(ws, s[1], a, b)
       [] OTHER -> DeclProductions(ws, syn, s[1], a)

\* Where a symbol, and a sequence of them, that begins at the word i may end.
RECURSIVE Ends(_, _, _, _)
RECURSIVE EndsOf(_, _, _, _)
Ends(ws, syn, s, i) ==
  CASE Len(s) = 1 -> IF i <= Len(ws) /\ ws[i] = s[1] THEN {i + 1} ELSE {}
    [] s = NoSep -> IF i <= Len(ws) /\ ws[i] \in Separators THEN {} ELSE {i}
    [] s[1] = "class" /\ s # NoSep -> IF i <= Len(ws) /\ KindOf(ws[i]) = s[2] THEN {i + 1} ELSE {}
    [] OTHER -> UNION {EndsOf(ws, syn, p, i) : p \in Productions(ws, syn, s)}
EndsOf(ws, syn, p, i) == IF p = <<>> THEN {i} ELSE UNION {EndsOf(ws, syn, Tail(p), j) : j \in Ends(ws, syn, Head(p), i)}

Derivable ==
  \E ws \in {SelectSeq(file, LAMBDA w : w # "nl")}, syn \in {"proto2", "proto3", "2023", "2024"} : Len(ws) + 1 \in Ends(ws, syn, n("file"), 1)

\* The parser and the legalizer (legalize_*.go) have no error for a file if and only if the grammar derives it.
AcceptsTheGrammar == ParseReturns => (Accepted <=> Derivable)
=============================================================================
