----------------------------- MODULE ExpParser ------------------------------
(***************************************************************************)
(* The experimental parser (experimental/parser/parse*.go) over the tokens *)
(* of module Tokens, and the syntax tree it builds (experimental/ast).     *)
(* A file is a sequence of words, each of which becomes a token; "nl" is a *)
(* newline.  A node is a record of the tokens and nodes it is made of, in  *)
(* their order, and Nil is the zero node.  Each operation returns the      *)
(* parser, the cursor and what it parsed; errors are counted.              *)
(***************************************************************************)
EXTENDS Tokens

CONSTANTS Files  \* the files that are parsed

VARIABLES file,    \* the words of the file, or Nil before it is given
          parser   \* the parser: its tokens, errors, cursor and declarations

parserVars == <<file, parser>>

-----------------------------------------------------------------------------
(* Tokens of a file *)

FieldTypeModifiers == {"optional", "required", "repeated"}
TypeModifiers == {"export", "local"}
ImportModifiers == {"public", "weak", "option"}
MethodTypeModifiers == {"stream"}
SomeModifiers == MethodTypeModifiers \cup TypeModifiers \cup ImportModifiers
StringWords == {"\"s\"", "\"%\"", "b\"s\"", "\"proto2\"", "\"proto3\"", "\"2023\"", "\"2024\""}
NumberWords == {"1", "2", "1u", "0b1", "01", "0o1", "0x1", "1_0", "2023"}
Symbols == {"(", ")", "[", "]", "{", "}", "<", ">", ",", ";", ":", "=", "-", ".", "/"}

KindOf(word) ==
  CASE word = "nl" -> "space" [] word \in Symbols -> "keyword" [] word \in StringWords -> "string"
    [] word \in NumberWords -> "number" [] OTHER -> "ident"

\* What the lexer leaves of a file, its brackets not yet fused.
LexWords(words) ==
  [NewLexer EXCEPT !.toks = [i \in DOMAIN words |-> [end |-> i, kind |-> KindOf(words[i]), kw |-> <<words[i]>>, off |-> 0, meta |-> Nil]],
                   !.braces = SelectSeq([i \in DOMAIN words |-> i], LAMBDA i : <<words[i]>> \in Openers \cup Closers)]
RECURSIVE FuseBraces(_)
FuseBraces(st) == IF st.next > Len(st.braces) THEN CloseBraces(st) ELSE FuseBraces(FuseBrace(st))

\* Keyword: the word of a token, and that of a pair of brackets with both its ends.
Fused == ("(" :> "()") @@ ("[" :> "[]") @@ ("{" :> "{}") @@ ("<" :> "<>")
WordOf(toks, t) == IF t = Zero \/ toks[t].kw = Unknown THEN "" ELSE toks[t].kw[1]
Kw(toks, t) ==
  CASE t = Zero \/ toks[t].kind \notin {"ident", "keyword"} -> ""
    [] t # Zero /\ IsOpen(toks, t) -> Fused[WordOf(toks, t)]
    [] OTHER -> WordOf(toks, t)
Kind(toks, t) == IF t = Zero THEN "unrecognized" ELSE toks[t].kind

\* The line on which a token ends, or begins.
LineAt(toks, t) == Cardinality({u \in 1..t - 1 : WordOf(toks, u) = "nl"})

\* A cursor's Peek, Done and Next.
RECURSIVE Peek(_, _)
Peek(toks, c) ==
  LET t == PeekSkippable(toks, c)
  IN IF t # Zero /\ IsSkippable(toks[t].kind) THEN Peek(toks, NextSkippable(toks, c)) ELSE t
Done(toks, c) == Peek(toks, c) = Zero
After(p, c) == Next_(p.toks, c)
Children(t) == CursorAt(t, t, 0)

-----------------------------------------------------------------------------
(* Paths *)

Separators == {".", "/"}
PathOf(start, end) == [kind |-> "path", start |-> start, end |-> end]

\* Components: each has a separator, a name, or both.
RECURSIVE ComponentsFrom(_, _, _, _)
ComponentsFrom(toks, c, end, sep) ==
  LET t == Peek(toks, c)
      rest == Next_(toks, c)
      Yield(name) == <<[separator |-> sep, name |-> name]>>
  IN CASE t = Zero \/ t > end -> IF sep # Zero THEN Yield(Zero) ELSE <<>>
       [] t # Zero /\ t <= end /\ WordOf(toks, t) \in Separators ->
            (IF sep # Zero THEN Yield(Zero) ELSE <<>>) \o ComponentsFrom(toks, rest, end, t)
       [] OTHER -> Yield(t) \o ComponentsFrom(toks, rest, end, Zero)
Components(toks, path) == IF path = Nil THEN <<>> ELSE ComponentsFrom(toks, CursorAt(path.start - 1, Zero, 0), path.end, Zero)

Absolute(toks, path) == LET pcs == Components(toks, path) IN pcs # <<>> /\ pcs[1].separator # Zero
IdentOf(toks, path) ==
  IF path = Nil \/ path.start # path.end \/ Kind(toks, path.start) # "ident" THEN Zero ELSE path.start
ComponentIdent(toks, pc) == IF Kind(toks, pc.name) = "ident" THEN pc.name ELSE Zero

\* AsExtension: from the first to the last token inside the parentheses.
RECURSIVE LastIn(_, _, _)
LastIn(toks, c, last) == IF Done(toks, c) THEN last ELSE LastIn(toks, Next_(toks, c), Peek(toks, c))
AsExtension(toks, pc) ==
  IF pc.name = Zero \/ IsLeaf(toks, pc.name) \/ Done(toks, Children(pc.name)) THEN Nil
  ELSE PathOf(Peek(toks, Children(pc.name)), LastIn(toks, Children(pc.name), Zero))

\* Split after n components, for n > 0.
Split(pcs, path, n) ==
  LET prev == pcs[n]
      pc == pcs[n + 1]
  IN IF Len(pcs) <= n THEN <<path, Nil>>
     ELSE <<PathOf(path.start, IF prev.name # Zero THEN prev.name ELSE prev.separator),
            PathOf(IF pc.separator # Zero THEN pc.separator ELSE pc.name, path.end)>>

-----------------------------------------------------------------------------
(* Parsing *)

Parsed(p, c, v) == [p |-> p, c |-> c, v |-> v]
Error(p) == [p EXCEPT !.errors = @ + 1]
ErrorIf(cond, p) == IF cond THEN Error(p) ELSE p
\* Tokens that end up in no node; `dropped` is a history variable, the parser has no such field.
Tok(t) == IF t = Zero THEN <<>> ELSE <<t>>
Drop(p, ts) == [p EXCEPT !.dropped = @ \cup Range(ts)]
\* The functions that call each other are the rules of one operator.
RECURSIVE Parse(_, _, _, _)
parsePath(p, c) == Parse("path", p, c, Nil)
parseTypeImpl(p, c, where, pathAfter) == Parse("type", p, c, <<where, pathAfter>>)
parseType(p, c, where) == LET r == parseTypeImpl(p, c, where, FALSE) IN Parsed(r.p, r.c, r.v.type)
parseExprInfix(p, c, where, prec) == Parse("infix", p, c, <<where, prec>>)
parseExpr(p, c, where) == parseExprInfix(p, c, where, 0)
ParseList(p, list, c) == Parse("list", p, c, list)
parseDecl(p, c, in) == Parse("decl", p, c, in)

\* ensureProgress.
Stuck(p) == [p EXCEPT !.panic = TRUE]

canStartPath(toks, t) == Kind(toks, t) = "ident" \/ Kw(toks, t) \in {".", "/", "()"}
canStartDecl(toks, t) == canStartPath(toks, t) \/ Kw(toks, t) \in {";", "{}"}
canStartExpr(toks, t) == canStartPath(toks, t) \/ Kind(toks, t) \in {"number", "string"} \/ Kw(toks, t) \in {"-", "{}", "[]", "<"}
canStartOptions(toks, t) == Kw(toks, t) = "[]"
canStartBody(toks, t) == Kw(toks, t) = "{}"

\* punctParser's parse: the token if it is the wanted one, else none.  The caller decides whether that is an error.
Punct(p, c, want) == IF Kw(p.toks, Peek(p.toks, c)) = want THEN Parsed(p, After(p, c), Peek(p.toks, c)) ELSE Parsed(p, c, Zero)

RECURSIVE Separations(_, _, _)
Separations(p, c, sep) ==
  IF Kw(p.toks, Peek(p.toks, c)) \in Separators THEN Separations(p, After(p, c), Peek(p.toks, c)) ELSE <<c, sep>>

RECURSIVE PathLoop(_, _, _, _, _)
PathLoop(p, c, start, end, sep) ==
  LET next == Peek(p.toks, c)
      stop == Parsed(p, c, PathOf(start, end))
      name == next = start \/ sep # Zero
  IN CASE next = Zero -> Parsed(Drop(p, Tok(sep)), c, stop.v)
       [] next # Zero /\ Kw(p.toks, next) \in Separators ->
            IF sep = Zero THEN PathLoop(p, After(p, c), start, end, next)
            ELSE LET all == Separations(p, c, sep) IN PathLoop(Error(p), all[1], start, end, all[2])
       [] next # Zero /\ Kind(p.toks, next) = "ident" -> IF ~name THEN stop ELSE PathLoop(p, After(p, c), start, next, Zero)
       [] next # Zero /\ Kw(p.toks, next) = "()" ->
            IF ~name THEN stop
            ELSE LET inner == parsePath(p, Children(next))
                 IN PathLoop(ErrorIf(~Done(p.toks, inner.c), inner.p), After(p, c), start, next, Zero)
       [] OTHER -> IF sep = Zero THEN stop ELSE Parsed(Error(p), c, PathOf(start, sep))
PathRule(p, c) ==
  LET start == Peek(p.toks, c)
      separated == Kw(p.toks, start) \in Separators
  IN IF ~canStartPath(p.toks, start) THEN Parsed(Error(p), c, Nil)
     ELSE PathLoop(p, IF separated THEN After(p, c) ELSE c, start, start, IF separated THEN start ELSE Zero)

-----------------------------------------------------------------------------
(* Lists: what is in them, and between which words they are. *)

\* The fields of a `delimited`, by the list that is parsed.
Delims(list) == IF list \in {"dict", "angles"} THEN {",", ";"} ELSE {","}
Required(list) == list \notin {"dict", "angles"}
Exhaust(list) == list \notin {"type params", "range", "angles"}
Trailing(list) == list \in {"dict", "angles"}
StartsElem(toks, list, t) ==
  IF list \in {"type params", "method ins", "method outs", "options"} THEN canStartPath(toks, t) ELSE canStartExpr(toks, t)
StopsList(toks, list, t, last) ==
  CASE list = "type params" -> Kw(toks, t) \in {">", "="}
    [] list = "angles" -> Kw(toks, t) = ">"
    [] list = "range" -> \/ Kw(toks, t) \in {";", "[]"}
                         \/ last # Zero /\ Kind(toks, t) = "ident" /\ LineAt(toks, StartEnd(toks, last)[2]) # LineAt(toks, t)
    [] OTHER -> FALSE

RECURSIVE SkipTo(_, _, _, _)
SkipTo(toks, list, c, last) ==
  LET t == Peek(toks, c)
  IN IF t = Zero \/ StartsElem(toks, list, t) \/ StopsList(toks, list, t, last) THEN c ELSE SkipTo(toks, list, Next_(toks, c), last)

RECURSIVE PopDelims(_, _, _, _)
PopDelims(p, list, c, delim) ==
  LET t == Peek(p.toks, c)
  IN IF Kw(p.toks, t) \notin Delims(list) THEN Parsed(p, c, delim)
     ELSE PopDelims(ErrorIf(delim # Zero, p), list, After(p, c), IF delim = Zero THEN t ELSE delim)

NewDeclEmpty(semi) == [kind |-> "empty", semi |-> semi]
NewDeclSyntax(kw, equals, value, options, semi) == [kind |-> "syntax", keyword |-> kw, equals |-> equals, value |-> value, options |-> options, semi |-> semi]
NewDeclPackage(kw, path, options, semi) == [kind |-> "package", keyword |-> kw, path |-> path, options |-> options, semi |-> semi]
NewDeclImport(kw, mods, path, options, semi) == [kind |-> "import", keyword |-> kw, mods |-> mods, path |-> path, options |-> options, semi |-> semi]
NewDeclRange(kw, items, options, semi) == [kind |-> "range", keyword |-> kw, items |-> items, options |-> options, semi |-> semi]
NewDeclBody(braces, decls) == [kind |-> "body", braces |-> braces, decls |-> decls]
Option(path, equals, value) == [kind |-> "option", path |-> path, equals |-> equals, value |-> value]
\* An entry of compact options; a colon is a mistake that is understood.
OptionElem(p, c) ==
  LET path == parsePath(p, c)
      eq == Peek(path.p.toks, path.c)
      assigned == Kw(path.p.toks, eq) \in {":", "="}
      value == parseExpr(ErrorIf(Kw(path.p.toks, eq) # "=", path.p), IF assigned THEN After(path.p, path.c) ELSE path.c, "options")
  IN IF path.v = Nil THEN path
     ELSE Parsed(value.p, value.c, IF value.v = Nil THEN Nil ELSE Option(path.v, IF assigned THEN eq ELSE Zero, value.v))

ParseElem(p, list, c) ==
  CASE list \in {"type params", "method ins", "method outs"} -> parseType(p, c, list)
    [] list = "options" -> OptionElem(p, c)
    [] OTHER -> parseExpr(p, c, list)

\* The loop of iter: the items so far, the last delimiter, what was last peeked at, whether the last item failed.
NewList == [items |-> <<>>, delim |-> Zero, need |-> FALSE, last |-> Zero, bad |-> FALSE, mark |-> -1]
Iterate(p, list, c, l) == Parse("iterate", p, c, <<list, l>>)
ListEnd(p, list, c, l) ==
  Parsed(ErrorIf(IF Exhaust(list) /\ ~Done(p.toks, c) THEN TRUE ELSE ~Trailing(list) /\ l.delim # Zero, p), c, l)
ListItem(p, list, c, l, prefixed) ==
  LET last == IF list = "range" THEN Peek(p.toks, c) ELSE Zero
      elem == ParseElem(p, list, c)
      missing == ~prefixed /\ l.need /\ l.delim = Zero
      popped == PopDelims(ErrorIf(missing, elem.p), list, elem.c, Zero)
      grown == [items |-> Append(l.items, [v |-> elem.v, delim |-> popped.v]), delim |-> popped.v, need |-> Required(list),
                last |-> last, bad |-> FALSE, mark |-> c.idx]
  IN IF elem.v = Nil THEN ListEnd(elem.p, list, elem.c, [l EXCEPT !.last = last, !.bad = TRUE])
     ELSE IF popped.v = Zero /\ Required(list) /\ ~Exhaust(list) /\ StopsList(popped.p.toks, list, Peek(popped.p.toks, popped.c), last)
          THEN ListEnd(popped.p, list, popped.c, grown)
     ELSE Iterate(popped.p, list, popped.c, grown)
IterateRule(p, c, list, l) ==
  LET t == Peek(p.toks, c)
  IN CASE t = Zero -> ListEnd(p, list, c, l)
       [] t # Zero /\ l.mark = c.idx -> Parsed(Stuck(p), c, l)
       [] t # Zero /\ l.mark # c.idx /\ StartsElem(p.toks, list, t) -> ListItem(p, list, c, l, FALSE)
       [] OTHER -> IF StopsList(p.toks, list, t, l.last) THEN ListEnd(p, list, c, l)
                   ELSE ListItem(Error(p), list, SkipTo(p.toks, list, After(p, c), l.last), l, TRUE)
\* iter: a leading delimiter is an error.
ListRule(p, c, list) ==
  IF Kw(p.toks, Peek(p.toks, c)) \in Delims(list) THEN Iterate(Error(p), list, After(p, c), NewList) ELSE Iterate(p, list, c, NewList)

-----------------------------------------------------------------------------
(* Types *)

TypeGeneric(path, angles, args) == [kind |-> "generic", path |-> path, angles |-> angles, args |-> args]
TypePrefixed(prefix, type) == [kind |-> "prefixed", prefix |-> prefix, of |-> type]

RECURSIVE ApplyMods(_, _)
ApplyMods(mods, ty) == IF mods = <<>> THEN ty ELSE ApplyMods(Front(mods), TypePrefixed(Last(mods), ty))
RECURSIVE PrefixToks(_)
PrefixToks(ty) == IF ty # Nil /\ ty.kind = "prefixed" THEN <<ty.prefix>> \o PrefixToks(ty.of) ELSE <<>>
PathToks(path) == IF path = Nil THEN <<>> ELSE [i \in 1..path.end - path.start + 1 |-> path.start + i - 1]
RECURSIVE RemovePrefixes(_)
RemovePrefixes(ty) == IF ty # Nil /\ ty.kind = "prefixed" THEN RemovePrefixes(ty.of) ELSE ty

\* A path, and the modifiers before it; `split` is the path that follows a keyword it was glued to.
IsMod(toks, ident, rest, where) ==
  LET k == Kw(toks, ident)
      isInMethod == where \in {"method ins", "method outs", "returns"}
  IN CASE k \in FieldTypeModifiers -> ~(isInMethod \/ where = "type params") \/ rest = Nil
       [] k \in TypeModifiers \cup ImportModifiers -> rest = Nil
       [] k \in MethodTypeModifiers -> isInMethod \/ rest = Nil
       [] OTHER -> FALSE
ModOf(p, c, where, mods, path, pcs) ==
  LET ident == ComponentIdent(p.toks, pcs[1])
      parts == Split(pcs, path.v, 1)
      isList == where \in {"method ins", "method outs", "returns", "type params"}
      Out(v, split) == Parsed(path.p, path.c, [mods |-> mods, path |-> v, split |-> split])
      mod == IsMod(p.toks, ident, parts[2], where)
  IN IF ~canStartPath(p.toks, Peek(p.toks, c)) THEN Parsed(p, c, [mods |-> mods, path |-> Nil, split |-> Nil])
     ELSE IF Absolute(p.toks, path.v) \/ ident = Zero THEN Out(path.v, Nil)
     ELSE IF ~isList /\ mods = <<>> /\ Kw(p.toks, ident) \in {"package", "extend", "option"}
             /\ ~canStartPath(path.p.toks, Peek(path.p.toks, path.c)) /\ parts[2] # Nil THEN Out(parts[1], parts[2])
     ELSE IF ~mod THEN Out(path.v, Nil)
     ELSE IF parts[2] = Nil THEN Parse("mods", path.p, path.c, <<where, Append(mods, ident)>>)
     ELSE Parsed(path.p, path.c, [mods |-> Append(mods, ident), path |-> parts[2], split |-> Nil])
ModsRule(p, c, where, mods) == LET path == parsePath(p, c) IN ModOf(p, c, where, mods, path, Components(p.toks, path.v))

TypeOf(m, where, pathAfter) ==
  LET isList == where \in {"method ins", "method outs", "returns", "type params"}
      bare == m.v.path = Nil
      tyPath == IF bare THEN PathOf(Last(m.v.mods), Last(m.v.mods)) ELSE m.v.path
      mods == IF bare THEN Front(m.v.mods) ELSE m.v.mods
      angles == Peek(m.p.toks, m.c)
      generic == Kw(m.p.toks, angles) = "<"
      args == ParseList(m.p, "type params", After(m.p, m.c))
      close == Punct(args.p, args.c, ">")
      typed == IF ~generic THEN Parsed(m.p, m.c, tyPath)
               ELSE Parsed(IF close.v = Zero THEN close.p ELSE [close.p EXCEPT !.toks = Fuse(@, angles, close.v)], close.c,
                           TypeGeneric(tyPath, angles, args.v.items))
      next == Peek(typed.p.toks, typed.c)
      path == parsePath(typed.p, typed.c)
      Result(q, cur, ty, name) == Parsed(q, cur, [type |-> ty, name |-> name])
  IN CASE m.v.split # Nil -> Result(m.p, m.c, m.v.path, m.v.split)
       [] m.v.split = Nil /\ bare /\ m.v.mods = <<>> -> Result(m.p, m.c, Nil, Nil)
       [] OTHER -> IF ~pathAfter THEN Result(typed.p, typed.c, ApplyMods(mods, typed.v), Nil)
                   ELSE IF canStartPath(typed.p.toks, next) THEN Result(path.p, path.c, ApplyMods(mods, typed.v), path.v)
                   ELSE IF ~isList /\ ~generic /\ mods # <<>>
                        THEN Result(typed.p, typed.c, ApplyMods(Front(mods), PathOf(Last(mods), Last(mods))), tyPath)
                   ELSE Result(typed.p, typed.c, ApplyMods(mods, typed.v), Nil)
TypeRule(p, c, where, pathAfter) == TypeOf(Parse("mods", p, c, <<where, <<>>>>), where, pathAfter)

-----------------------------------------------------------------------------
(* Expressions *)

ExprLiteral(t) == [kind |-> "literal", token |-> t]
ExprPrefixed(prefix, expr) == [kind |-> "prefixed", prefix |-> prefix, of |-> expr]
ExprRange(start, to, end) == [kind |-> "interval", start |-> start, to |-> to, end |-> end]
ExprField(key, colon, value) == [kind |-> "field", key |-> key, colon |-> colon, value |-> value]
ExprList(kind, brackets, items) == [kind |-> kind, brackets |-> brackets, items |-> items]

\* A literal, a path, or a list in brackets; the pair of angle brackets is fused here.
parseExprSolo(p, c) ==
  LET next == Peek(p.toks, c)
      kw == Kw(p.toks, next)
      list == CASE kw = "[]" -> "array" [] kw = "<" -> "angles" [] OTHER -> "dict"
      elems == ParseList(p, list, IF kw = "<" THEN After(p, c) ELSE Children(next))
      close == Punct(elems.p, elems.c, ">")
      strays == Len(SelectSeq(elems.v.items, LAMBDA i : i.v.kind # "field"))
      fields == [i \in DOMAIN elems.v.items |->
                   LET e == elems.v.items[i] IN [e EXCEPT !.v = IF e.v.kind = "field" THEN e.v ELSE ExprField(Nil, Zero, e.v)]]
      Strays(q) == [q EXCEPT !.errors = @ + strays]
  IN CASE Kind(p.toks, next) \in {"string", "number"} -> Parsed(p, After(p, c), ExprLiteral(next))
       [] canStartPath(p.toks, next) -> parsePath(p, c)
       [] kw = "[]" -> Parsed(elems.p, After(p, c), ExprList("array", next, elems.v.items))
       [] kw = "{}" -> Parsed(Strays(elems.p), After(p, c), ExprList("dict", next, fields))
       [] kw = "<" -> Parsed(IF close.v = Zero THEN Strays(close.p) ELSE [Strays(close.p) EXCEPT !.toks = Fuse(@, next, close.v)],
                             close.c, ExprList("dict", next, fields))
       [] OTHER -> Parsed(Error(p), c, Nil)
RECURSIVE parseExprPrefix(_, _)
parseExprPrefix(p, c) ==
  LET next == Peek(p.toks, c)
      inner == parseExprPrefix(p, After(p, c))
  IN CASE next = Zero -> Parsed(Error(p), c, Nil)
       [] next # Zero /\ Kw(p.toks, next) = "-" -> Parsed(inner.p, inner.c, ExprPrefixed(next, inner.v))
       [] OTHER -> parseExprSolo(p, c)

InfixRest(p, c, where, lhs, prec) ==
  LET next == Peek(p.toks, c)
      kw == Kw(p.toks, next)
      starts == {"=", ":", "{}", "<", "[]"}
      Value(cur, q) == parseExprInfix(q, cur, where, 1)
      Field(r, colon) == Parsed(r.p, r.c, ExprField(lhs, colon, r.v))
      Range_(r) == Parsed(r.p, r.c, ExprRange(lhs, next, r.v))
  IN CASE next = Zero -> Parsed(Error(p), c, lhs)
       [] next # Zero /\ Kind(p.toks, next) = "ident" /\ Kw(p.toks, Peek(p.toks, After(p, c))) \in starts -> Parsed(p, c, lhs)
       [] OTHER ->
            IF prec = 0 /\ where \in {"array", "dict", "angles"} /\ kw \in {"=", ":"}
            THEN Field(Value(After(p, c), ErrorIf(kw = "=", p)), next)
            ELSE IF prec = 0 /\ where \in {"dict", "angles"} /\ kw \in {"{}", "<", "[]"} /\ lhs.kind # "field" THEN Field(Value(c, p), Zero)
            ELSE IF prec <= 1 /\ kw = "to" THEN Range_(Value(After(p, c), p))
            ELSE Parsed(p, c, lhs)
InfixRule(p, c, where, prec) ==
  LET first == parseExprPrefix(p, c)
  IN IF first.v = Nil \/ Done(first.p.toks, first.c) THEN first ELSE InfixRest(first.p, first.c, where, first.v, prec)

-----------------------------------------------------------------------------
(* Options, ranges and the elements of lists *)

CompactOptions(brackets, items) == [kind |-> "options", brackets |-> brackets, items |-> items]

tryParseOptions(p, c) ==
  LET brackets == Peek(p.toks, c)
      entries == ParseList(p, "options", Children(brackets))
  IN IF ~canStartOptions(p.toks, brackets) THEN Parsed(p, c, Nil)
     ELSE Parsed(entries.p, After(p, c), CompactOptions(brackets, entries.v.items))

parseRange(p, c) ==
  LET kw == Peek(p.toks, c)
      at == After(p, c)
      list == IF canStartOptions(p.toks, Peek(p.toks, at)) THEN Parsed(p, at, NewList) ELSE ParseList(p, "range", at)
      options == tryParseOptions(list.p, list.c)
      semi == Punct(options.p, options.c, ";")
  IN Parsed(ErrorIf(semi.v = Zero /\ (options.v # Nil \/ ~list.v.bad), semi.p), semi.c,
            NewDeclRange(kw, list.v.items, options.v, semi.v))

-----------------------------------------------------------------------------
(* Declarations *)

\* parseBody: the declarations of the children of a pair of braces.
BodyRule(p, c, in, decls) ==
  LET d == parseDecl(p, c, in)
  IN IF Done(p.toks, c) THEN Parsed(p, c, decls)
     ELSE Parse("body", d.p, d.c, <<in, IF d.v = Nil THEN decls ELSE Append(decls, d.v)>>)
parseBody(p, braces, in) ==
  LET body == Parse("body", p, Children(braces), <<in, <<>>>>) IN Parsed(body.p, body.c, NewDeclBody(braces, body.v))

\* The followers of a definition, in the order they should have.
Followers == <<"inputs", "outputs", "value", "options", "body">>
Follower(p, c, d) ==
  LET next == Peek(p.toks, c)
      kw == Kw(p.toks, next)
  IN CASE kw = "()" -> 1
       [] kw = "returns" -> 2
       [] kw = "=" -> 3
       [] kw = "[]" -> 4
       [] kw = "{}" -> 5
       [] OTHER -> IF ~canStartPath(p.toks, next) /\ canStartExpr(p.toks, next) /\ d.value = Nil /\ d.options = Nil /\ d.braces = Zero
                   THEN 3 ELSE 0

\* One follower: the definition with it, and whether it was parsed; of several of a kind the first one counts.
Follow(p, c, d, which) ==
  LET next == Peek(p.toks, c)
      at == After(p, c)
      list == Punct(p, at, "()")
      bare == parseType(p, at, "returns")
      fresh == d.outputs = Zero /\ d.outputTy = Nil
      returned == [d EXCEPT !.returns = IF @ = Zero THEN next ELSE @]
      equals == Punct(p, c, "=")
      value == parseExpr(ErrorIf(equals.v = Zero, p), equals.c, "def")
      options == tryParseOptions(p, c)
      Out(q, cur, def, ok) == Parsed(q, cur, [def |-> def, ok |-> ok])
  IN CASE which = 1 -> Out(p, at, [d EXCEPT !.inputs = IF @ = Zero THEN next ELSE @], TRUE)
       [] which = 2 /\ list.v # Zero -> Out(p, list.c, [returned EXCEPT !.outputs = IF fresh THEN list.v ELSE @], TRUE)
       [] which = 2 /\ list.v = Zero ->
            IF canStartPath(p.toks, Peek(p.toks, at)) THEN Out(bare.p, bare.c, [returned EXCEPT !.outputTy = IF fresh THEN bare.v ELSE @], TRUE)
            ELSE Out(Error(p), at, returned, FALSE)
       [] which = 3 -> Out(value.p, value.c, IF d.value = Nil /\ value.v # Nil THEN [d EXCEPT !.equals = equals.v, !.value = value.v] ELSE d,
                           value.v # Nil)
       [] which = 4 -> IF d.options = Nil THEN Out(options.p, options.c, [d EXCEPT !.options = options.v], TRUE) ELSE Out(p, at, d, TRUE)
       [] which = 5 -> Out(p, at, [d EXCEPT !.braces = IF @ = Zero THEN next ELSE @], TRUE)

FollowRule(p, c, d, last, mark) ==
  LET which == Follower(p, c, d)
      f == Follow(p, c, d, which)
      ended == f.v.ok /\ (IF which > last THEN which ELSE last) = Len(Followers)
      q == ErrorIf(f.v.ok /\ which <= last, f.p)
  IN IF Done(p.toks, c) THEN Parsed(p, c, d)
     ELSE IF mark = c.idx THEN Parsed(Stuck(p), c, d)
     ELSE IF which = 0 THEN Parsed(p, c, d)
     ELSE IF ended THEN Parsed(q, f.c, f.v.def)
     ELSE Parse("follow", q, f.c, <<f.v.def, IF f.v.ok /\ which > last THEN which ELSE last, c.idx>>)

\* In which a body is, by the keyword of its definition.
BodyOf(kw) == CASE kw \in {"message", "enum", "service", "extend", "oneof"} -> kw [] kw = "group" -> "field" [] kw = "rpc" -> "method" [] OTHER -> "def"

parseDef(p, c, in, kw, type, name) ==
  LET new == [kind |-> "def", type |-> type, name |-> name, inputs |-> Zero, returns |-> Zero, outputs |-> Zero, outputTy |-> Nil,
              equals |-> Zero, value |-> Nil, options |-> Nil, braces |-> Zero]
      f == Parse("follow", p, c, <<new, 0, -1>>)
      d == f.v
      semi == Punct(f.p, f.c, ";")
      ended == d.braces # Zero
      q == IF ended THEN f.p ELSE ErrorIf(semi.v = Zero, semi.p)
      isValue == in = "enum" /\ d.type # Nil /\ d.type.kind = "path" /\ d.name = Nil /\ ~ended
      ins == IF d.inputs = Zero THEN Parsed(q, c, NewList) ELSE ParseList(q, "method ins", Children(d.inputs))
      outs == IF d.outputs = Zero THEN Parsed(ErrorIf(d.outputTy # Nil, ins.p), c, NewList) ELSE ParseList(ins.p, "method outs", Children(d.outputs))
      body == IF ended THEN parseBody(outs.p, d.braces, BodyOf(Kw(p.toks, kw))) ELSE Parsed(outs.p, c, Nil)
  IN Parsed(body.p, IF ended THEN f.c ELSE semi.c,
            [kind |-> "def", type |-> IF isValue THEN Nil ELSE d.type, name |-> IF isValue THEN d.type ELSE d.name,
             inputs |-> d.inputs, ins |-> ins.v.items, returns |-> d.returns, outputs |-> d.outputs,
             outs |-> IF d.outputs = Zero /\ d.outputTy # Nil THEN <<[v |-> d.outputTy, delim |-> Zero]>> ELSE outs.v.items,
             equals |-> d.equals, value |-> d.value, options |-> d.options, body |-> body.v, semi |-> IF ended THEN Zero ELSE semi.v])

\* syntax or edition, after its keyword.
ParseSyntax(p, c, kw) ==
  LET equals == Punct(p, c, "=")
      q == ErrorIf(equals.v = Zero, p)
      hasValue == equals.v # Zero \/ canStartExpr(p.toks, Peek(p.toks, equals.c))
      value == IF hasValue THEN parseExpr(q, equals.c, "syntax") ELSE Parsed(q, equals.c, Nil)
      options == tryParseOptions(value.p, value.c)
      semi == Punct(options.p, options.c, ";")
      Node(eq, v, opts, s) == NewDeclSyntax(kw, eq, v, opts, s)
  IN IF Done(p.toks, c) THEN Parsed(Error(p), c, Node(Zero, Nil, Nil, Zero))
     ELSE Parsed(ErrorIf(semi.v = Zero /\ value.v # Nil, semi.p), semi.c, Node(equals.v, value.v, options.v, semi.v))

ParsePackage(p, c, kw, path) ==
  LET options == tryParseOptions(p, c)
      semi == Punct(options.p, options.c, ";")
  IN IF Done(p.toks, c) /\ path = Nil THEN Parsed(Error(p), c, NewDeclPackage(kw, path, Nil, Zero))
     ELSE Parsed(ErrorIf(semi.v = Zero, semi.p), semi.c, NewDeclPackage(kw, path, options.v, semi.v))

\* import: modifiers are paths before the path; whether there is a path is decided by what followed the first one.
\* Mutant: a modifier replaces the one before it.
RECURSIVE LastModifier(_, _, _, _)
LastModifier(p, c, path, mods) ==
  LET ident == IdentOf(p.toks, path)
      more == parsePath(p, c)
  IN IF Kw(p.toks, ident) \notin SomeModifiers THEN Parsed(p, c, [mods |-> mods, path |-> path])
     ELSE IF canStartPath(p.toks, Peek(p.toks, c)) THEN LastModifier(more.p, more.c, more.v, <<ident>>)
     ELSE Parsed(p, c, [mods |-> <<ident>>, path |-> Nil])
RECURSIVE ImportMods(_, _, _, _)
ImportMods(p, c, path, mods) ==
  LET ident == IdentOf(p.toks, path)
      more == parsePath(p, c)
  IN IF Kw(p.toks, ident) \notin SomeModifiers THEN Parsed(p, c, [mods |-> mods, path |-> path])
     ELSE IF canStartPath(p.toks, Peek(p.toks, c)) THEN ImportMods(more.p, more.c, more.v, Append(mods, ident))
     ELSE Parsed(p, c, [mods |-> Append(mods, ident), path |-> Nil])
ParseImport(p, c, kw, path) ==
  LET m == ImportMods(p, c, path, <<>>)
      value == IF m.v.path = Nil /\ canStartExpr(p.toks, Peek(p.toks, c)) THEN parseExpr(m.p, m.c, "import") ELSE Parsed(m.p, m.c, m.v.path)
      options == tryParseOptions(value.p, value.c)
      ended == value.v = Nil /\ Done(options.p.toks, options.c)
      semi == Punct(options.p, options.c, ";")
      Node(s) == NewDeclImport(kw, m.v.mods, value.v, options.v, s)
  IN IF ended THEN Parsed(Error(options.p), options.c, Node(Zero)) ELSE Parsed(ErrorIf(semi.v = Zero, semi.p), semi.c, Node(semi.v))

\* The tokens that begin no declaration: one or two are reported.
RECURSIVE Unexpected(_, _, _)
Unexpected(p, c, ts) ==
  LET t == Peek(p.toks, c) IN IF t = Zero \/ canStartDecl(p.toks, t) THEN <<c, ts>> ELSE Unexpected(p, After(p, c), Append(ts, t))

DeclAfter(cur, in, tp, kw) ==
  LET word == Kw(tp.p.toks, kw)
      next == Peek(tp.p.toks, tp.c)
      assign == Kw(tp.p.toks, next) = "="
      isField == (in # "top" /\ IdentOf(tp.p.toks, tp.v.name) # Zero /\ Kind(tp.p.toks, next) # "string") \/ assign
      \* Only the keyword and the path are kept of the type and the path that were parsed, and no path of a syntax.
      unprefixed == Drop(tp.p, PrefixToks(tp.v.type))
  IN CASE word \in {"syntax", "edition"} /\ in = "top" -> ParseSyntax(Drop(unprefixed, PathToks(tp.v.name)), tp.c, kw)
       [] word = "package" /\ in = "top" -> ParsePackage(unprefixed, tp.c, kw, tp.v.name)
       [] word = "import" /\ ~isField -> ParseImport(unprefixed, tp.c, kw, tp.v.name)
       [] word \in {"reserved", "extensions"} /\ ~assign -> parseRange(tp.p, cur)
       [] OTHER -> parseDef(tp.p, tp.c, in, kw, tp.v.type, tp.v.name)
DeclAt(q, cur, in, first, tp) ==
  LET body == parseBody(q, first, in)
      bare == RemovePrefixes(tp.v.type)
      kw == IF bare # Nil /\ bare.kind = "path" THEN IdentOf(q.toks, bare) ELSE Zero
  IN CASE first = Zero -> Parsed(q, cur, Nil)
       [] Kw(q.toks, first) = ";" -> Parsed(q, After(q, cur), NewDeclEmpty(first))
       [] canStartBody(q.toks, first) -> Parsed(body.p, After(q, cur), body.v)
       [] OTHER -> DeclAfter(cur, in, tp, kw)
DeclWithout(p, in, skipped) ==
  LET q == ErrorIf(Len(skipped[2]) \in {1, 2}, Drop(p, skipped[2]))
      cur == skipped[1]
  IN DeclAt(q, cur, in, Peek(q.toks, cur), parseTypeImpl(q, cur, in, TRUE))
DeclRule(p, c, in) == DeclWithout(p, in, Unexpected(p, c, <<>>))

Parse(rule, p, c, arg) ==
  CASE rule = "path" -> PathRule(p, c)
    [] rule = "type" -> TypeRule(p, c, arg[1], arg[2])
    [] rule = "mods" -> ModsRule(p, c, arg[1], arg[2])
    [] rule = "infix" -> InfixRule(p, c, arg[1], arg[2])
    [] rule = "list" -> ListRule(p, c, arg)
    [] rule = "iterate" -> IterateRule(p, c, arg[1], arg[2])
    [] rule = "follow" -> FollowRule(p, c, arg[1], arg[2], arg[3])
    [] rule = "body" -> BodyRule(p, c, arg[1], arg[2])
    [] rule = "decl" -> DeclRule(p, c, arg)

-----------------------------------------------------------------------------
(* The behaviour *)

NewParser == [toks |-> <<>>, errors |-> 0, panic |-> FALSE, dropped |-> {}, c |-> CursorAt(0, Zero, 0), mark |-> -1, decls |-> <<>>]

ParserInit == file = Nil /\ parser = NewParser

OpenFile(words) ==
  /\ file' = words
  /\ \E st \in {FuseBraces(LexWords(words))} : parser' = [NewParser EXCEPT !.toks = st.toks, !.errors = st.errors]

\* An iteration of the loop of parse.
ParseDecl ==
  /\ file # Nil /\ ~parser.panic /\ ~Done(parser.toks, parser.c)
  /\ IF parser.mark = parser.c.idx THEN parser' = Stuck(parser)
     ELSE \E d \in {parseDecl(parser, parser.c, "top")} :
            parser' = [d.p EXCEPT !.c = d.c, !.mark = parser.c.idx, !.decls = IF d.v = Nil THEN @ ELSE Append(@, d.v)]
  /\ UNCHANGED file

ParserNext == (file = Nil /\ \E words \in Files : OpenFile(words)) \/ ParseDecl
ParserSpec == ParserInit /\ [][ParserNext]_parserVars

ParsedAll == file # Nil /\ Done(parser.toks, parser.c)

-----------------------------------------------------------------------------
(* Properties *)

\* The tokens of a node, in order.
RECURSIVE Toks(_)
ItemToks(items) == FlattenSeq([i \in DOMAIN items |-> Toks(items[i].v) \o Tok(items[i].delim)])
PathSpan(n) ==
  SelectSeq([i \in 1..StartEnd(parser.toks, n.end)[2] - n.start + 1 |-> n.start + i - 1],
            LAMBDA t : ~IsSkippable(parser.toks[t].kind) /\ ~IsClose(parser.toks, t))
GenericToks(n) == Toks(n.path) \o Tok(n.angles) \o ItemToks(n.args)
PrefixedToks(n) == Tok(n.prefix) \o Toks(n.of)
IntervalToks(n) == Toks(n.start) \o Tok(n.to) \o Toks(n.end)
FieldToks(n) == Toks(n.key) \o Tok(n.colon) \o Toks(n.value)
ListToks(n) == Tok(n.brackets) \o ItemToks(n.items)
OptionToks(n) == Toks(n.path) \o Tok(n.equals) \o Toks(n.value)
SyntaxToks(n) == Tok(n.keyword) \o Tok(n.equals) \o Toks(n.value) \o Toks(n.options) \o Tok(n.semi)
PackageToks(n) == Tok(n.keyword) \o Toks(n.path) \o Toks(n.options) \o Tok(n.semi)
ImportToks(n) == Tok(n.keyword) \o n.mods \o Toks(n.path) \o Toks(n.options) \o Tok(n.semi)
RangeToks(n) == Tok(n.keyword) \o ItemToks(n.items) \o Toks(n.options) \o Tok(n.semi)
BodyToks(n) == Tok(n.braces) \o FlattenSeq([i \in DOMAIN n.decls |-> Toks(n.decls[i])])
SignatureToks(n) == Tok(n.inputs) \o ItemToks(n.ins) \o Tok(n.returns) \o Tok(n.outputs) \o ItemToks(n.outs)
DefToks(n) == Toks(n.type) \o Toks(n.name) \o SignatureToks(n) \o Tok(n.equals) \o Toks(n.value) \o Toks(n.options) \o Toks(n.body) \o Tok(n.semi)
Toks(n) ==
  CASE n = Nil -> <<>>
    [] n # Nil /\ n.kind = "path" -> PathSpan(n)
    [] n # Nil /\ n.kind = "generic" -> GenericToks(n)
    [] n # Nil /\ n.kind = "prefixed" -> PrefixedToks(n)
    [] n # Nil /\ n.kind = "literal" -> Tok(n.token)
    [] n # Nil /\ n.kind = "interval" -> IntervalToks(n)
    [] n # Nil /\ n.kind = "field" -> FieldToks(n)
    [] n # Nil /\ n.kind \in {"array", "dict", "options"} -> ListToks(n)
    [] n # Nil /\ n.kind = "option" -> OptionToks(n)
    [] n # Nil /\ n.kind = "empty" -> Tok(n.semi)
    [] n # Nil /\ n.kind = "syntax" -> SyntaxToks(n)
    [] n # Nil /\ n.kind = "package" -> PackageToks(n)
    [] n # Nil /\ n.kind = "import" -> ImportToks(n)
    [] n # Nil /\ n.kind = "range" -> RangeToks(n)
    [] n # Nil /\ n.kind = "body" -> BodyToks(n)
    [] n # Nil /\ n.kind = "def" -> DefToks(n)

FileToks == FlattenSeq([i \in DOMAIN parser.decls |-> Toks(parser.decls[i])])
RealToks == SelectSeq([t \in DOMAIN parser.toks |-> t], LAMBDA t : ~IsSkippable(parser.toks[t].kind) /\ ~IsClose(parser.toks, t))

IsDropped(t) == \E u \in parser.dropped : t \in u..StartEnd(parser.toks, u)[2]
\* The parser (parse_decl.go, parse_def.go) always moves on, and a file that it parses without an error has its tokens in
\* the syntax tree, each once and in the order of the file, but for those it is known to drop: three or more that begin no
\* declaration, the separator at the end of a path at the end of brackets, the modifiers before a package or an import, and
\* the path after `syntax`.
NothingIsLost ==
  /\ ~parser.panic
  /\ ParsedAll /\ parser.errors = 0 =>
       /\ FileToks = SelectSeq(RealToks, LAMBDA t : t \in Range(FileToks))
       /\ \A i \in DOMAIN RealToks : RealToks[i] \in Range(FileToks) \/ IsDropped(RealToks[i])
=============================================================================
