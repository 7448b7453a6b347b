------------------------------ MODULE Resolve -------------------------------
(***************************************************************************)
(* Linking one file: every reference in it is looked up in the scopes that *)
(* enclose it, in the files it can see, and replaced by the full name of   *)
(* what it denotes (linker/resolve.go).  A world is a file `main` to link, *)
(* as a tree of elements, and the linked files it may import.              *)
(***************************************************************************)
EXTENDS Integers, Tree, FiniteSets

CONSTANTS Worlds,            \* [main, imports, files, syntax]
          NoRef,             \* an empty type name or extendee
          AllowedExtendees   \* the options messages, which proto3 may extend

VARIABLES world, link        \* the world linked, and the outcome

resolveVars == <<world, link>>

-----------------------------------------------------------------------------
(* Files and what they declare *)

RECURSIVE Declared(_, _)
Declared(n, prefix) ==
  UNION {{[name |-> FQN(n.kids[i], Scope(n, prefix)), kind |-> n.kids[i].kind,
           ranges |-> n.kids[i].ranges, entry |-> n.kids[i].entry]}
           \cup Declared(n.kids[i], Scope(n, prefix)) : i \in DOMAIN n.kids}

Path == "main"
PackageOf(w, f) == IF f = Path THEN w.main.pkg ELSE w.files[f].pkg
ImportsOf(w, f) == IF f = Path THEN w.imports ELSE w.files[f].imports
DeclsOf(w, f) == IF f = Path THEN Declared(w.main, <<>>) ELSE w.files[f].decls

sentinel(name) == [name |-> name, kind |-> "sentinel", ranges |-> {}, entry |-> FALSE]

\* matchesPkgNamespace: the name is the package or one that encloses it.
matchesPkgNamespace(name, pkg) == pkg # <<>> /\ IsPrefix(name, pkg)

resolveElementInFile(w, name, f) ==
  LET here == {d \in DeclsOf(w, f) : d.name = name}
  IN IF here # {} THEN CHOOSE d \in here : TRUE
     ELSE IF matchesPkgNamespace(name, PackageOf(w, f)) THEN sentinel(name)
     ELSE Nil

\* resolveInFile: f itself, then its imports in order, of which only the public
\* ones are followed further.  `via` is the import that markUsed is called with.
NotFound == [d |-> Nil, via |-> {}]

RECURSIVE resolveInFile(_, _, _, _, _)
resolveInFile(w, name, f, publicImportsOnly, checked) ==
  LET Imported(imports, there) ==
        LET hits == {i \in DOMAIN imports : (publicImportsOnly => imports[i].public) /\ there[i].d # Nil}
        IN IF hits = {} THEN NotFound
           ELSE LET first == CHOOSE i \in hits : \A j \in hits : i <= j
                IN [d |-> there[first].d, via |-> IF imports[first].public THEN {} ELSE {imports[first].path}]
      Found(own, imports) ==
        IF own # Nil THEN [d |-> own, via |-> {}]
        ELSE Imported(imports, [i \in DOMAIN imports |-> resolveInFile(w, name, imports[i].path, TRUE, checked \cup {f})])
  IN IF f \in checked THEN NotFound ELSE Found(resolveElementInFile(w, name, f), ImportsOf(w, f))

resolveElement(w, name) == resolveInFile(w, name, Path, FALSE, {})

-----------------------------------------------------------------------------
(* Scopes *)

isAggregateDescriptor(d) == d.kind \in {"sentinel", "message", "enum", "service"}
isType(d) == d.kind \in {"message", "enum"}

\* resolveElementRelative: the first part of the name decides; Query gives [d, via].
resolveElementRelative(first, full, Query(_)) ==
  LET Whole(head, whole) == [d |-> IF whole.d = Nil THEN sentinel(full) ELSE whole.d, via |-> head.via \cup whole.via]
      From(head) == IF head.d = Nil \/ first = full THEN head
                    ELSE IF ~isAggregateDescriptor(head.d) THEN [head EXCEPT !.d = Nil]
                    ELSE Whole(head, Query(full))
  IN From(Query(first))

messageScope(w, msg, ref) ==
  resolveElementRelative(Append(msg, ref.name[1]), msg \o ref.name,
                         LAMBDA n : [d |-> resolveElementInFile(w, n, Path), via |-> {}])

\* internal.CreatePrefixList: the package, the packages around it, and none.
CreatePrefixList(pkg) == [i \in 1..Len(pkg) + 1 |-> SubSeq(pkg, 1, Len(pkg) + 1 - i)]

\* fileScope: the attempts, one per prefix.
fileScope(w, ref) ==
  [i \in DOMAIN CreatePrefixList(w.main.pkg) |->
    LET prefix == CreatePrefixList(w.main.pkg)[i]
    IN resolveElementRelative(IF prefix = <<>> THEN ref.name ELSE Append(prefix, ref.name[1]),
                              prefix \o ref.name, LAMBDA n : resolveElement(w, n))]

\* resolve: from the innermost scope outwards; a match of the wrong kind is
\* passed over, and kept as a guess, when the name is a single identifier.
Least(S) == CHOOSE i \in S : \A j \in S : i <= j
Outermost(tries, inner, hits, good) ==
  LET Upto(end) == [d |-> IF hits = {} THEN Nil ELSE IF end \in good THEN tries[end].d ELSE tries[Least(hits)].d,
                    via |-> UNION {tries[i].via : i \in 1..end}]
      Stop(stops) == Upto(IF stops = {} THEN Len(tries) ELSE Least(stops))
  IN Stop((good \cap 1..inner) \cup {i \in hits : i > inner})

resolve(w, ref, onlyTypes, scopes) ==
  LET Among(tries) ==
        LET hits == {i \in DOMAIN tries : tries[i].d # Nil}
        IN Outermost(tries, Len(scopes), hits,
                     {i \in hits : ~onlyTypes \/ isType(tries[i].d) \/ Len(ref.name) > 1})
  IN IF ref.abs THEN resolveElement(w, ref.name)
     ELSE Among([i \in DOMAIN scopes |-> messageScope(w, scopes[Len(scopes) + 1 - i], ref)] \o fileScope(w, ref))

-----------------------------------------------------------------------------
(* The walk over the elements.  L is what linking has done so far: `refs`     *)
(* maps a reference, <<element, role>>, to what it was replaced by; `tags` is *)
(* the extension numbers taken; `reported` the extend blocks already          *)
(* complained about.                                                          *)

Fail(L, what) == [L EXCEPT !.errors = Append(@, what), !.aborted = L.stopAtFirst]
Uses(L, r) == [L EXCEPT !.used = @ \cup r.via]
Denotes(L, at, d) == [L EXCEPT !.refs = @ \cup {<<at, d.name, d.kind>>}]

isValidMap(fld, parent, entryName) ==
  fld.kind = "field" /\ fld.repeated /\ entryName = Append(parent, fld.entryName)

\* The part of resolveFieldTypes about the extendee; `skip` ends the function.
resolveExtendee(w, L, fqn, fld, scopes) ==
  LET Complain(U) == IF fld.block # Nil /\ fld.block \in L.reported THEN U ELSE Fail(U, <<fqn, "extendee">>)
      UnlessAborted(F) == [L |-> F, skip |-> F.aborted]
      Linked(U, d) ==
        IF fld.tag \notin d.ranges THEN UnlessAborted(Fail(U, <<fqn, "tag">>))
        ELSE IF <<d.name, fld.tag>> \in L.tags THEN UnlessAborted(Fail(U, <<fqn, "duplicate tag">>))
        ELSE [L |-> [U EXCEPT !.tags = @ \cup {<<d.name, fld.tag>>}], skip |-> FALSE]
      With(U, d) == IF d = Nil \/ d.kind # "message" THEN [L |-> Complain(U), skip |-> TRUE]
                    ELSE Linked(Denotes(U, <<fqn, "extendee">>, d), d)
      Resolved(r) == With([Uses(L, r) EXCEPT !.reported = @ \cup {fld.block}], r.d)
  IN Resolved(resolve(w, fld.extendee, FALSE, scopes))

\* The part about the type.  `siblings` are the fields before this one.
resolveType(w, L, fqn, fld, parent, siblings, scopes) ==
  LET validEntry(d) == \/ fld.node = "map"
                       \/ /\ fld.node = "none" /\ isValidMap(fld, parent, d.name)
                          /\ ~\E s \in siblings : isValidMap(s, parent, d.name)
      wrongProto(d) == \/ d.kind = "message" /\ fld.ptype \notin {"unset", "message", "group"}
                       \/ d.kind = "enum" /\ fld.ptype \notin {"unset", "enum"}
      With(U, d) == IF d = Nil \/ ~isType(d) THEN Fail(U, <<fqn, "type">>)
                    ELSE IF d.entry /\ ~validEntry(d) THEN Fail(U, <<fqn, "map entry">>)
                    ELSE IF wrongProto(d) THEN Fail(U, <<fqn, "descriptor">>)
                    ELSE Denotes(U, <<fqn, "type">>, d)
      Resolved(r) == With(Uses(L, r), r.d)
  IN IF fld.type = NoRef THEN L ELSE Resolved(resolve(w, fld.type, TRUE, scopes))

resolveFieldTypes(w, L, fqn, fld, parent, siblings, scopes) ==
  LET After(e) == IF L.aborted \/ e.skip THEN e.L ELSE resolveType(w, e.L, fqn, fld, parent, siblings, scopes)
  IN After(IF fld.kind = "extension" THEN resolveExtendee(w, L, fqn, fld, scopes) ELSE [L |-> L, skip |-> FALSE])

resolveMethodTypeAny(w, L, fqn, role, ref, scopes) ==
  LET Resolved(r) == IF r.d = Nil THEN Fail(Uses(L, r), <<fqn, role>>)
                     ELSE Denotes(Uses(L, r), <<fqn, role>>, r.d)
  IN IF L.aborted THEN L ELSE Resolved(resolve(w, ref, FALSE, scopes))

resolveMethodType(w, L, fqn, role, ref, scopes) ==
  LET Resolved(r) == IF r.d = Nil \/ r.d.kind # "message" THEN Fail(Uses(L, r), <<fqn, role>>)
                     ELSE Denotes(Uses(L, r), <<fqn, role>>, r.d)
  IN IF L.aborted THEN L ELSE Resolved(resolve(w, ref, FALSE, scopes))

resolveMethodTypes(w, L, fqn, mtd, scopes) ==
  resolveMethodType(w, resolveMethodType(w, L, fqn, "input", mtd.input, scopes), fqn, "output", mtd.output, scopes)

\* An extension named in an option.
resolveExtensionName(w, L, at, ref, scopes) ==
  LET Resolved(r) == IF r.d # Nil /\ r.d.kind = "extension" THEN [L |-> Denotes(Uses(L, r), at, r.d), ok |-> TRUE]
                     ELSE [L |-> Fail(Uses(L, r), at), ok |-> FALSE]
  IN Resolved(resolve(w, ref, FALSE, scopes))

\* resolveOptionValue: the extensions named in a message literal are looked up
\* in the file's scope alone; a value is a sequence of [ext, ref, val].
RECURSIVE resolveOptionValue(_, _, _, _)
resolveOptionValue(w, L, at, fields) ==
  LET Inside(named, i) == IF named.aborted THEN named ELSE resolveOptionValue(w, named, at \o <<i>>, fields[i].val)
      Field(M, i) ==
        IF M.aborted THEN M
        ELSE Inside(IF fields[i].ext THEN resolveExtensionName(w, M, at \o <<i>>, fields[i].ref, <<>>).L ELSE M, i)
  IN FoldLeft(Field, L, [i \in DOMAIN fields |-> i])

\* resolveOptions: after a name that is not found, the rest of that option is skipped.
resolveOptions(w, L, fqn, opts, scopes) ==
  LET part(S, k, p) ==
        IF ~S.ok \/ ~opts[k].parts[p].ext THEN S
        ELSE resolveExtensionName(w, S.L, <<fqn, "option", k, p>>, opts[k].parts[p].ref, scopes)
      value(S, k) == IF ~S.ok THEN S.L ELSE resolveOptionValue(w, S.L, <<fqn, "value", k>>, opts[k].value)
      one(M, k) ==
        IF M.aborted THEN M
        ELSE value(FoldLeft(LAMBDA T, p : part(T, k, p), [L |-> M, ok |-> TRUE], [p \in DOMAIN opts[k].parts |-> p]), k)
  IN FoldLeft(one, L, [k \in DOMAIN opts |-> k])

\* The callback for an element: its options are resolved in the scope around it,
\* and its own scope is pushed after that.
RECURSIVE EnterAll(_, _, _, _, _)

\* isProto3 and the extendee: proto3 may extend the options messages alone.
AllowedExtension(w, F, fqn, ext) ==
  LET named == {x \in F.refs : x[1] = <<fqn, "extendee">>}
  IN \/ w.syntax # "proto3"
     \/ \E x \in named : x[2] \in AllowedExtendees
     \/ named = {} /\ ext.extendee.abs /\ ext.extendee.name \in AllowedExtendees

resolveElementTypes(w, A, fqn, n, prefix, siblings, scopes) ==
  LET Proto3(F) == IF F.aborted \/ AllowedExtension(w, F, fqn, n) THEN F ELSE Fail(F, <<fqn, "proto3">>)
      Field(F) == IF n.kind = "extension" THEN Proto3(F) ELSE F
  IN CASE n.kind = "message" -> resolveOptions(w, A, Append(fqn, "range"), n.rangeOpts, Append(scopes, fqn))
       [] n.kind \in {"field", "extension"} -> Field(resolveFieldTypes(w, A, fqn, n, prefix, siblings, scopes))
       [] n.kind = "method" -> resolveMethodTypes(w, A, fqn, n, scopes)
       [] OTHER -> A

Enter(w, L, n, prefix, siblings, scopes) ==
  LET fqn == FQN(n, prefix)
      Inner(B) == IF B.aborted THEN B
                  ELSE EnterAll(w, B, n, prefix, IF n.kind \in {"message", "service"} THEN Append(scopes, fqn) ELSE scopes)
      Own(A) == IF A.aborted THEN A ELSE Inner(resolveElementTypes(w, A, fqn, n, prefix, siblings, scopes))
  IN IF L.aborted THEN L ELSE Own(resolveOptions(w, L, fqn, n.opts, scopes))

EnterAll(w, L, n, prefix, scopes) ==
  LET lists == DescriptorLists(n)
      flat == FlattenSeq([l \in DOMAIN lists |-> [i \in DOMAIN Kids(n, lists[l]) |-> <<lists[l], i>>]])
      before(k) == {Kids(n, k[1])[j] : j \in 1..k[2] - 1}
  IN FoldLeft(LAMBDA M, k : Enter(w, M, Kids(n, k[1])[k[2]], Scope(n, prefix), before(k), scopes), L, flat)

resolveReferences(w, stopAtFirst) ==
  LET none == [errors |-> <<>>, aborted |-> FALSE, stopAtFirst |-> stopAtFirst, used |-> {},
               refs |-> {}, tags |-> {}, reported |-> {}]
      Elements(L) == IF L.aborted THEN L ELSE EnterAll(w, L, w.main, <<>>, <<>>)
  IN Elements(resolveOptions(w, none, <<Path>>, w.main.opts, <<>>))

\* CheckForUnusedImports: public imports are never complained about.
UnusedImports(w, used) ==
  {w.imports[i].path : i \in {j \in DOMAIN w.imports : ~w.imports[j].public /\ w.imports[j].path \notin used}}

ResolveInit == world = <<>> /\ link = <<>>

Link(w, stopAtFirst) ==
  /\ world = <<>>
  /\ world' = w /\ link' = resolveReferences(w, stopAtFirst)

ResolveNext == world = <<>> /\ \E w \in Worlds, stopAtFirst \in BOOLEAN : Link(w, stopAtFirst)

-----------------------------------------------------------------------------
\* The files whose elements are available to `f`: linker.go:98-107.
RECURSIVE PubliclyFrom(_, _, _)
PubliclyFrom(w, f, seen) ==
  IF f \in seen THEN {}
  ELSE {f} \cup UNION {PubliclyFrom(w, ImportsOf(w, f)[i].path, seen \cup {f}) :
                         i \in {j \in DOMAIN ImportsOf(w, f) : ImportsOf(w, f)[j].public}}
Available(w) == {Path} \cup UNION {PubliclyFrom(w, w.imports[i].path, {}) : i \in DOMAIN w.imports}

\* The references of the elements inside of n, with the kinds each may denote.
RECURSIVE References(_, _)
References(n, prefix) ==
  UNION {LET k == n.kids[i]
             fqn == FQN(k, Scope(n, prefix))
         IN (IF k.kind = "extension" THEN {<<<<fqn, "extendee">>, {"message"}>>} ELSE {})
            \cup (IF k.kind \in {"field", "extension"} /\ k.type # NoRef
                  THEN {<<<<fqn, "type">>, {"message", "enum"}>>} ELSE {})
            \cup (IF k.kind = "method"
                  THEN {<<<<fqn, "input">>, {"message"}>>, <<<<fqn, "output">>, {"message"}>>} ELSE {})
            \cup {<<<<fqn, "option", o, p>>, {"extension"}>> :
                    o \in DOMAIN k.opts, p \in {1}}
            \cup References(k, Scope(n, prefix)) : i \in DOMAIN n.kids}

\* A file that links without an error has every reference replaced by one full
\* name, of an available element of the right kind: also the extensions whose
\* error was not reported because their extend block already had one.  No two
\* extensions of a message have one number.
SuccessMeansLinked ==
  link # <<>> /\ link.errors = <<>> =>
    \A r \in References(world.main, <<>>) :
      /\ Cardinality({x \in link.refs : x[1] = r[1]}) = 1
      /\ \A x \in link.refs : x[1] = r[1] =>
           /\ x[3] \in r[2]
           /\ \E f \in Available(world) : \E d \in DeclsOf(world, f) : d.name = x[2] /\ d.kind = x[3]
      /\ Cardinality(link.tags) = Cardinality({x \in link.refs : x[1][2] = "extendee"})

\* An import reported as unused can be deleted: every reference still denotes
\* what it did.
Without(w, path) == [w EXCEPT !.imports = SelectSeq(@, LAMBDA i : i.path # path)]
UnusedImportsCanGo ==
  link # <<>> /\ link.errors = <<>> =>
    \A path \in UnusedImports(world, link.used) :
      LET L == resolveReferences(Without(world, path), FALSE)
      IN L.refs = link.refs /\ L.errors = <<>>


\* Together: a file links exactly with what it declares to need.
LinkingIsSound == SuccessMeansLinked /\ UnusedImportsCanGo
=============================================================================
