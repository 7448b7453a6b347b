------------------------------ MODULE Legalize ------------------------------
(***************************************************************************)
(* Legalization (experimental/parser/legalize*.go): after a file is        *)
(* parsed, what is in it is checked against what Protobuf allows, in two   *)
(* passes over its declarations.  A legalize operator returns the number   *)
(* of errors; the warnings are not modelled.                               *)
(***************************************************************************)
EXTENDS ExpParser

CONSTANTS MaxPathBytes, MaxPathComponents  \* the limits of a package's name

VARIABLES legal  \* the legalizer: where it is, and what it has found

legalVars == <<parserVars, legal>>

RECURSIVE SumOf(_)
SumOf(counts) == IF counts = <<>> THEN 0 ELSE Head(counts) + SumOf(Tail(counts))
If(cond) == IF cond THEN 1 ELSE 0
KindIs(n, kinds) == n # Nil /\ n.kind \in kinds

-----------------------------------------------------------------------------
(* Classification of definitions *)

PrefixWords(toks, def) ==
  LET RECURSIVE From(_)
      From(ty) == IF KindIs(ty, {"prefixed"}) THEN <<Kw(toks, ty.prefix)>> \o From(ty.of) ELSE <<>>
  IN From(def.type)
Signature(def) == def.inputs # Zero \/ def.returns # Zero \/ def.outputs # Zero \/ def.outs # <<>>

KeywordToken(toks, def) ==
  LET ty == RemovePrefixes(def.type)
      word == IF KindIs(ty, {"path"}) THEN Kw(toks, IdentOf(toks, ty)) ELSE ""
      isKw == \/ word = "option" /\ PrefixWords(toks, def) = <<>>
              \/ word = "rpc" /\ Signature(def)
              \/ word \in {"message", "enum", "service", "extend", "oneof", "group"} /\ def.body # Nil
  IN IF isKw THEN word ELSE ""

Classify(toks, def) ==
  LET kw == KeywordToken(toks, def)
  IN CASE kw = "rpc" -> "method" [] kw \notin {"", "rpc"} -> kw
       [] OTHER -> IF def.type = Nil THEN "enum value" ELSE "field"

MessageLike == {"message", "group"}
validDefParents ==
  [kind \in {"message", "enum", "extend"} |-> {"top"} \cup MessageLike] @@ [kind \in {"field", "group"} |-> MessageLike \cup {"extend", "oneof"}]
    @@ ("service" :> {"top"}) @@ ("oneof" :> MessageLike) @@ ("enum value" :> {"enum"}) @@ ("method" :> {"service"})
    @@ ("option" :> MessageLike \cup {"top", "enum", "service", "oneof", "method"})

-----------------------------------------------------------------------------
(* Paths *)

PathOptions(abs, slash, exts) == [AllowAbsolute |-> abs, AllowSlash |-> slash, AllowExts |-> exts]
RECURSIVE legalizePath(_, _, _)
RECURSIVE LegalComponents(_, _, _, _, _)
\* The loop over components: an error of an extension replaces what was found before it.
LegalComponents(toks, pcs, i, opts, st) ==
  LET pc == pcs[i]
      sep == WordOf(toks, pc.separator)
      ext == AsExtension(toks, pc)
      inner == legalizePath(toks, ext, PathOptions(TRUE, FALSE, FALSE))
      bad == [st EXCEPT !.ok = FALSE, !.errors = @ + 1]
      slashed == [st EXCEPT !.slash = @ \/ sep = "/"]
      Next(s) == LegalComponents(toks, pcs, i + 1, opts, s)
  IN CASE i > Len(pcs) -> st
       [] OTHER -> IF (i = 1 /\ ~opts.AllowAbsolute /\ sep = ".") \/ (sep = "/" /\ (~opts.AllowSlash \/ st.slash)) THEN Next(bad)
                   ELSE IF ext = Nil THEN Next(slashed)
                   ELSE IF opts.AllowExts THEN Next([slashed EXCEPT !.ok = inner.ok, !.errors = @ + inner.errors])
                   ELSE Next([bad EXCEPT !.slash = slashed.slash])
legalizePath(toks, path, opts) == LegalComponents(toks, Components(toks, path), 1, opts, [ok |-> TRUE, slash |-> FALSE, errors |-> 0])
PathErrors(toks, path, opts) == legalizePath(toks, path, opts).errors

\* The limits, for a package: checked when nothing else is wrong.
PathBytes(toks, path) ==
  LET pcs == Components(toks, path)
  IN SumOf([i \in DOMAIN pcs |-> Len(WordOf(toks, pcs[i].separator)) + Len(WordOf(toks, pcs[i].name))])
PackagePathErrors(toks, path) ==
  LET found == legalizePath(toks, path, PathOptions(FALSE, FALSE, FALSE))
  IN IF ~found.ok THEN found.errors
     ELSE If(PathBytes(toks, path) > MaxPathBytes \/ Len(Components(toks, path)) > MaxPathComponents)

-----------------------------------------------------------------------------
(* Values *)

\* What is known of a number: Suffix answers only for a number with a prefix.
Numbers ==
  [w \in {"1", "2", "1u", "2023"} |-> [base |-> 10, prefix |-> "", suffix |-> "", sep |-> FALSE]]
    @@ ("1_0" :> [base |-> 10, prefix |-> "", suffix |-> "", sep |-> TRUE]) @@ ("0b1" :> [base |-> 2, prefix |-> "0b", suffix |-> "", sep |-> FALSE])
    @@ ("01" :> [base |-> 8, prefix |-> "0", suffix |-> "", sep |-> FALSE]) @@ ("0o1" :> [base |-> 8, prefix |-> "0o", suffix |-> "", sep |-> FALSE])
    @@ ("0x1" :> [base |-> 16, prefix |-> "0x", suffix |-> "", sep |-> FALSE])
legalizeLiteral(toks, t) ==
  LET word == toks[t].kw[1]
      n == Numbers[word]
      validBase == n.base \in {10, 16} \/ (n.base = 8 /\ n.prefix = "0")
  IN IF toks[t].kind = "string" THEN If(word = "b\"s\"") ELSE If(~validBase \/ n.suffix # "" \/ n.sep)

RECURSIVE legalizeValue(_, _, _, _)
\* A key of a dictionary.
KeyErrors(toks, key) ==
  LET elem == IF Len(key.items) = 1 THEN key.items[1].v ELSE Nil
      slash == \E i \in DOMAIN Components(toks, elem) : WordOf(toks, Components(toks, elem)[i].separator) = "/"
  IN CASE key = Nil -> 0
       [] key # Nil /\ key.kind = "literal" -> legalizeLiteral(toks, key.token)
       [] key # Nil /\ key.kind = "path" -> If(AsExtension(toks, Components(toks, key)[1]) # Nil)
       [] key # Nil /\ key.kind = "array" ->
            IF KindIs(elem, {"path"}) THEN PathErrors(toks, elem, PathOptions(FALSE, slash, FALSE)) ELSE If(~KindIs(elem, {"literal"}))
       [] OTHER -> 1
\* A field of a dictionary: without a colon, an array has dictionaries in it.
FieldErrors(toks, kv, where) ==
  KeyErrors(toks, kv.key)
    + If(kv.colon = Zero /\ KindIs(kv.value, {"array"}) /\ \E i \in DOMAIN kv.value.items : kv.value.items[i].v.kind # "dict")
    + legalizeValue(toks, "field", kv.value, where)
legalizeValue(toks, parent, value, where) ==
  CASE value = Nil -> 0
    [] value # Nil /\ value.kind = "literal" -> legalizeLiteral(toks, value.token)
    [] value # Nil /\ value.kind \in {"path", "prefixed"} -> 0
    [] value # Nil /\ value.kind = "array" ->
         IF (parent = Nil /\ where = "option") \/ parent = "array" THEN 1
         ELSE SumOf([i \in DOMAIN value.items |-> legalizeValue(toks, "array", value.items[i].v, where)])
    [] value # Nil /\ value.kind = "dict" ->
         If(parent = Nil /\ Kw(toks, value.brackets) = "<>")
           + SumOf([i \in DOMAIN value.items |-> FieldErrors(toks, value.items[i].v, where)])
    [] OTHER -> 1

legalizeOptionEntry(toks, path, value) ==
  IF path = Nil THEN 1
  ELSE PathErrors(toks, path, PathOptions(FALSE, FALSE, TRUE)) + (IF value = Nil THEN 1 ELSE legalizeValue(toks, Nil, value, "option"))
legalizeCompactOptions(toks, opts) ==
  IF opts.items = <<>> THEN 1
  ELSE SumOf([i \in DOMAIN opts.items |-> LET o == opts.items[i].v IN legalizeOptionEntry(toks, o.path, o.value)])

-----------------------------------------------------------------------------
(* Types *)

TypePath == PathOptions(TRUE, FALSE, FALSE)

\* The modifiers before the type of a parameter; the path below them is not looked at.
ParamModifiers(words) == IF \E i \in DOMAIN words : words[i] \in MethodTypeModifiers THEN Len(words) - 1 ELSE Len(words)
legalizeMethodParams(toks, items) ==
  LET ty == items[1].v
  IN CASE Len(items) # 1 -> 1
       [] Len(items) = 1 /\ ty.kind = "path" -> PathErrors(toks, ty, TypePath)
       [] Len(items) = 1 /\ ty.kind = "prefixed" -> ParamModifiers(PrefixWords(toks, [type |-> ty])) + If(RemovePrefixes(ty).kind # "path")
       [] OTHER -> 1

RECURSIVE legalizeFieldType(_, _, _, _, _, _)
\* Mutant: a oneof is not looked for.
ModifierAnywhere(toks, syn, word, inOneof) ==
  CASE word = "required" -> If(syn # "proto2") [] word = "optional" -> If(syn \notin {"proto2", "proto3"}) [] word = "repeated" -> 0 [] OTHER -> 1
ModifierErrors(toks, syn, word, inOneof) ==
  IF inOneof THEN 1
  ELSE CASE word = "required" -> If(syn # "proto2") [] word = "optional" -> If(syn \notin {"proto2", "proto3"}) [] word = "repeated" -> 0 [] OTHER -> 1
legalizeFieldType(toks, syn, ty, topLevel, modified, inOneof) ==
  LET Arg(i) == LET a == ty.args[i].v IN IF a.kind = "path" THEN legalizeFieldType(toks, syn, a, FALSE, FALSE, inOneof) ELSE 1
  IN CASE ty = Nil -> 0
       [] ty # Nil /\ ty.kind = "path" -> If(topLevel /\ syn = "proto2" /\ ~inOneof) + PathErrors(toks, ty, TypePath)
       [] ty # Nil /\ ty.kind = "prefixed" ->
            (IF modified THEN 1 ELSE ModifierErrors(toks, syn, Kw(toks, ty.prefix), inOneof))
              + (IF KindIs(ty.of, {"path", "prefixed"}) THEN legalizeFieldType(toks, syn, ty.of, FALSE, TRUE, inOneof) ELSE 1)
       [] ty # Nil /\ ty.kind = "generic" ->
            IF Kw(toks, IdentOf(toks, ty.path)) # "map" \/ inOneof \/ Len(ty.args) # 2 THEN 1 ELSE Arg(1) + Arg(2)

-----------------------------------------------------------------------------
(* Definitions *)

IsType(toks, def) == Classify(toks, def) \in {"message", "enum"}
legalizeTypeDefLike(toks, syn, def) ==
  LET words == PrefixWords(toks, def)
      name == CASE def.name = Nil -> 1
                [] def.name # Nil /\ Classify(toks, def) = "extend" -> PathErrors(toks, def.name, TypePath)
                [] OTHER -> If(IdentOf(toks, def.name) = Zero)
      allowed == IF IsType(toks, def) /\ syn = "2024" THEN TypeModifiers ELSE {}
  IN name + Len(SelectSeq(words, LAMBDA w : w \notin allowed)) + If(def.equals # Zero \/ def.value # Nil) + If(Signature(def))
       + If(def.options # Nil)

\* The name of a field, a group, an enum value or a method.
NameErrors(toks, def) == If(IdentOf(toks, def.name) = Zero)

Capitalized == {"Group"}
legalizeFieldLike(toks, syn, def, parent) ==
  LET what == Classify(toks, def)
      group == what = "group"
  IN NameErrors(toks, def) + (IF def.value = Nil THEN 1 ELSE legalizeValue(toks, Nil, def.value, "tag")) + If(Signature(def))
       + If(~group /\ def.body # Nil)
       + (IF ~group THEN 0 ELSE If(WordOf(toks, IdentOf(toks, def.name)) \notin Capitalized) + If(syn # "proto2"))
       + (IF def.options = Nil THEN 0 ELSE legalizeCompactOptions(toks, def.options))
       + (IF what = "enum value" THEN 0 ELSE legalizeFieldType(toks, syn, def.type, TRUE, FALSE, parent = "oneof"))

legalizeOption(toks, def) ==
  If(Signature(def)) + If(def.body # Nil) + If(def.options # Nil) + legalizeOptionEntry(toks, def.name, def.value)

legalizeMethod(toks, def) ==
  NameErrors(toks, def) + If(def.equals # Zero \/ def.value # Nil)
    + (IF def.inputs = Zero THEN 1 ELSE legalizeMethodParams(toks, def.ins))
    + (IF def.outputs = Zero /\ def.outs = <<>> THEN 1 ELSE legalizeMethodParams(toks, def.outs))
    + Len(PrefixWords(toks, def)) + If(def.options # Nil)

legalizeDef(toks, syn, def, parent) ==
  LET kind == Classify(toks, def)
  IN If(parent \notin validDefParents[kind])
       + CASE kind \in {"message", "enum", "service", "oneof", "extend"} -> legalizeTypeDefLike(toks, syn, def)
           [] kind \in {"field", "enum value", "group"} -> legalizeFieldLike(toks, syn, def, parent)
           [] kind = "option" -> legalizeOption(toks, def)
           [] kind = "method" -> legalizeMethod(toks, def)

-----------------------------------------------------------------------------
(* Declarations *)

Editions == {"2023", "2024"}

\* An element of reserved or extensions: what it is, and whether it is wrong.
RangeElem(toks, syn, e, reserved) ==
  LET string == e.kind = "literal" /\ toks[e.token].kind = "string"
      What(w, errors) == [what |-> w, errors |-> errors]
  IN CASE e.kind = "path" -> IF reserved THEN What("name", If(syn \notin Editions)) ELSE What("ignored", 0)
       [] string -> IF reserved THEN What("name", If(syn \in Editions \/ toks[e.token].kw = <<"\"%\"">>)) ELSE What("ignored", 1)
       [] e.kind \in {"prefixed", "interval"} \/ (e.kind = "literal" /\ ~string) -> What("tag", 0)
       [] OTHER -> What("ignored", 1)
RangeErrors(toks, syn, decl, reserved, elems) ==
  (IF decl.options = Nil THEN 0 ELSE IF reserved THEN 1 ELSE legalizeCompactOptions(toks, decl.options))
    + SumOf([i \in DOMAIN elems |-> elems[i].errors])
    + If({"name", "tag"} \subseteq {elems[i].what : i \in DOMAIN elems})
legalizeRange(toks, syn, decl, parent) ==
  LET reserved == WordOf(toks, decl.keyword) = "reserved"
  IN IF parent \notin (IF reserved THEN {"message", "enum"} ELSE {"message"}) THEN 1
     ELSE RangeErrors(toks, syn, decl, reserved, [i \in DOMAIN decl.items |-> RangeElem(toks, syn, decl.items[i].v, reserved)])

\* legalizeDecl, for what is not a file's own syntax, package or import.  In stray braces at the top level, an error already,
\* an import is not one more.
RECURSIVE legalizeDecl(_, _, _, _)
legalizeDecl(toks, syn, parent, decl) ==
  LET All(decls, in) == SumOf([i \in DOMAIN decls |-> legalizeDecl(toks, syn, in, decls[i])])
  IN CASE decl.kind = "empty" -> 0
       [] decl.kind \in {"syntax", "package", "import"} -> If(decl.kind # "import" \/ parent # "top")
       [] decl.kind = "range" -> legalizeRange(toks, syn, decl, parent)
       [] decl.kind = "body" -> 1 + All(decl.decls, parent)
       [] decl.kind = "def" -> legalizeDef(toks, syn, decl, parent) + (IF decl.body = Nil THEN 0 ELSE All(decl.body.decls, Classify(toks, decl)))

-----------------------------------------------------------------------------
(* Files *)

\* The name that the value of a syntax declaration gives, and the errors of the value.
SyntaxNames == [w \in {"\"proto2\"", "proto2"} |-> "proto2"] @@ [w \in {"\"proto3\"", "proto3"} |-> "proto3"]
                 @@ [w \in {"\"2023\"", "2023"} |-> "2023"] @@ [w \in {"\"2024\"", "2024"} |-> "2024"]
legalizeSyntax(toks, l, decl, idx) ==
  LET edition == WordOf(toks, decl.keyword) = "edition"
      word == CASE KindIs(decl.value, {"literal"}) -> toks[decl.value.token].kw[1]
                [] KindIs(decl.value, {"path"}) -> WordOf(toks, IdentOf(toks, decl.value))
                [] OTHER -> ""
      known == word \in DOMAIN SyntaxNames
      name == SyntaxNames[word]
      string == KindIs(decl.value, {"literal"}) /\ toks[decl.value.token].kind = "string"
      found == If(decl.options # Nil)
                 + (IF decl.value = Nil THEN 0 ELSE IF ~known THEN 1 ELSE If((name \in Editions) # edition) + If(~string))
  IN IF l.first # Zero THEN [l EXCEPT !.errors = @ + 1]
     ELSE IF idx > 1 THEN [l EXCEPT !.errors = @ + 1, !.first = decl.keyword]
     ELSE [l EXCEPT !.errors = @ + found, !.first = decl.keyword, !.syntax = IF @ = Nil /\ known THEN name ELSE @]

\* A package that is too far down is only warned about, and does not count as the first.
legalizePackage(toks, l, decl, idx, decls) ==
  IF l.pkg # Zero THEN [l EXCEPT !.errors = @ + 1]
  ELSE IF idx > 2 \/ (idx = 2 /\ decls[1].kind # "syntax") THEN l
  ELSE [l EXCEPT !.pkg = decl.keyword, !.errors = @ + If(decl.options # Nil) + If(decl.path = Nil) + PackagePathErrors(toks, decl.path)]

\* The first modifier of an import; the others are errors.
ImportMod(syn, word) == CASE word = "public" -> 0 [] word = "weak" -> If(syn = "2024") [] word = "option" -> If(syn # "2024") [] OTHER -> 1
legalizeImport(toks, l, decl) ==
  LET string == KindIs(decl.path, {"literal"}) /\ toks[decl.path.token].kind = "string"
      words == [i \in DOMAIN decl.mods |-> WordOf(toks, decl.mods[i])]
      isOption == words # <<>> /\ words[1] = "option"
      mods == IF words = <<>> THEN 0 ELSE ImportMod(l.syntax, words[1]) + Len(words) - 1
      opened == [l EXCEPT !.errors = @ + If(decl.options # Nil)]
  IN IF decl.path = Nil THEN [opened EXCEPT !.errors = @ + If(decl.semi # Zero)]
     ELSE IF ~string THEN [opened EXCEPT !.errors = @ + 1]
     ELSE [opened EXCEPT !.importOption = @ \/ isOption, !.errors = @ + mods + If(~isOption /\ l.importOption)]

NewLegal == [pass |-> "syntax", idx |-> 0, syntax |-> Nil, first |-> Zero, pkg |-> Zero, importOption |-> FALSE, errors |-> 0]

LegalInit == ParserInit /\ legal = NewLegal

LegalizeSyntax ==
  /\ ParsedAll /\ ~parser.panic /\ legal.pass = "syntax" /\ legal.idx < Len(parser.decls)
  /\ \E decl \in {parser.decls[legal.idx + 1]} :
       legal' = [(IF decl.kind = "syntax" THEN legalizeSyntax(parser.toks, legal, decl, legal.idx + 1) ELSE legal) EXCEPT !.idx = legal.idx + 1]
  /\ UNCHANGED parserVars

LegalizeRest ==
  /\ ParsedAll /\ ~parser.panic /\ legal.pass = "syntax" /\ legal.idx = Len(parser.decls)
  /\ legal' = [legal EXCEPT !.pass = "decls", !.idx = 0, !.syntax = IF @ = Nil THEN "proto2" ELSE @]
  /\ UNCHANGED parserVars

Legalized(decl, idx) ==
  CASE decl.kind = "syntax" -> legal
    [] decl.kind = "package" -> legalizePackage(parser.toks, legal, decl, idx, parser.decls)
    [] decl.kind = "import" -> legalizeImport(parser.toks, legal, decl)
    [] OTHER -> [legal EXCEPT !.errors = @ + legalizeDecl(parser.toks, legal.syntax, "top", decl)]
LegalizeDecl ==
  /\ legal.pass = "decls" /\ legal.idx < Len(parser.decls)
  /\ legal' = [Legalized(parser.decls[legal.idx + 1], legal.idx + 1) EXCEPT !.idx = legal.idx + 1]
  /\ UNCHANGED parserVars

LegalNext == (ParserNext /\ UNCHANGED legal) \/ LegalizeSyntax \/ LegalizeRest \/ LegalizeDecl
LegalSpec == LegalInit /\ [][LegalNext]_legalVars

ParseReturns == legal.pass = "decls" /\ legal.idx = Len(parser.decls)
Accepted == ParseReturns /\ parser.errors = 0 /\ legal.errors = 0
=============================================================================
