---------------------------- MODULE LinkValidate ----------------------------
(***************************************************************************)
(* The checks of linked files after their options are interpreted          *)
(* (linker/validate.go).  The files of a batch are validated in the order  *)
(* of their imports, share the table of extension declarations, and report *)
(* to a handler that stops at the first error or collects all.  What an    *)
(* error says and where is left out; an error is its code here.            *)
(***************************************************************************)
EXTENDS Features

CONSTANTS Batches,   \* the sequences of files, dependencies first
          MaxTag     \* tags.FieldMax

VARIABLES batch, collecting, \* the files, and whether the handler goes on after an error
          verdicts,  \* the errors and warnings of the files validated so far
          declared   \* Symbols.extDecls: extension -> <<extendee, tag>>

validateVars == <<batch, collecting, verdicts, declared>>

-----------------------------------------------------------------------------
(* What a batch declares *)

FileOf(b, path) == CHOOSE f \in Range(b) : f.path = path
MessagesOf(b) == UNION {{<<f, m>> : m \in Range(f.messages)} : f \in Range(b)}
EnumsOf(b) == UNION {{<<f, n>> : n \in Range(f.enums)} : f \in Range(b)}
ExtensionsOf(b) == UNION {{<<f, x>> : x \in Range(f.extensions)} : f \in Range(b)}
MessageOf(b, name) == CHOOSE p \in MessagesOf(b) : p[2].name = name
EnumOf(b, name) == CHOOSE p \in EnumsOf(b) : p[2].name = name

FieldChain(f, m, fd) == <<fd.features, m.features, f.features>>
ExtensionChain(f, fd) == <<fd.features, f.features>>
EnumClosed(b, name) == LET p == EnumOf(b, name) IN IsClosed(p[1].edition, <<p[2].features, p[1].features>>)

When(condition, code) == IF condition THEN <<code>> ELSE <<>>

-----------------------------------------------------------------------------
(* Files and fields *)

validateFile(b, f) ==
  FlattenSeq([i \in DOMAIN f.imports |-> When(~f.lite /\ FileOf(b, f.imports[i]).lite, "imports lite")])
    \o When(IsEditions(f.edition) /\ "presence" \in DOMAIN f.features /\ f.features["presence"] = "LEGACY_REQUIRED", "required by default")
    \o When(IsEditions(f.edition) /\ f.javaUtf8, "java_string_check_utf8")

validatePacked(f, fd) ==
  When(fd.packed # Nil /\ IsEditions(f.edition), "packed in editions")
    \o When(fd.packed = TRUE /\ fd.label # "repeated", "packed singular")
    \o When(fd.packed = TRUE /\ fd.type \in {"string", "bytes", "message", "group"}, "packed type")

validateFieldFeatures(f, chain, fd) ==
  LET set == DOMAIN fd.features
      kind == FieldKind(f.edition, chain, fd)
      cardinality == Cardinal(f.edition, chain, fd)
      presence == CASE fd.oneof -> <<"presence in oneof">>
                    [] ~fd.oneof /\ cardinality = "repeated" -> <<"presence of repeated">>
                    [] ~fd.oneof /\ cardinality # "repeated" /\ IsExtension(fd) -> <<"presence of extension">>
                    [] OTHER -> When(fd.type \in {"message", "group"} /\ fd.features["presence"] = "IMPLICIT", "implicit message")
      repeated == IF cardinality # "repeated" THEN <<"encoding of singular">>
                  ELSE When(~CanPack(kind) /\ fd.features["repeated"] = "PACKED", "packed encoding")
      utf8 == IF IsMap(fd) THEN fd.strings ELSE kind = "string"
  IN IF fd.inEntry THEN <<>>
     ELSE (IF "presence" \in set THEN presence ELSE <<>>)
            \o (IF "repeated" \in set THEN repeated ELSE <<>>)
            \o When("utf8" \in set /\ ~utf8, "utf8")
            \o When("message" \in set /\ (fd.type \notin {"message", "group"} \/ IsMap(fd)), "message encoding")

\* getTypeName: scalars by their kind, others by the full name.
getTypeName(f, fd) == IF fd.type \in {"message", "group", "enum"} THEN <<"ref", fd.ref>> ELSE <<"builtin", fd.type>>

\* An extension against one range of its extendee that holds its number: the
\* first declaration of the number decides.
DeclarationErrors(f, fd, range) ==
  LET matching == SelectSeq(range.decls, LAMBDA d : d.number = fd.number)
      d == matching[1]
      repeated == Cardinal(f.edition, ExtensionChain(f, fd), fd) = "repeated"
  IN IF range.decls = <<>> /\ range.verification # "DECLARATION" THEN <<>>
     ELSE IF matching = <<>> THEN <<"not declared">>
     ELSE IF d.reserved THEN <<"declared reserved">>
     ELSE When(d.full # <<TRUE, fd.name>>, "declared name") \o When(d.type # getTypeName(f, fd), "declared type")
            \o When(d.repeated # repeated, "declared cardinality")

validateExtension(b, f, fd) ==
  LET p == MessageOf(b, fd.extendee)
      m == p[2]
      chain == ExtensionChain(f, fd)
      ranges == SelectSeq(m.ranges, LAMBDA r : r.from <= fd.number /\ fd.number < r.to)
  IN (IF m.messageSet
      THEN When(FieldKind(f.edition, chain, fd) # "message", "scalar in message set")
             \o When(Cardinal(f.edition, chain, fd) = "repeated", "repeated in message set")
      ELSE When(fd.number > MaxTag, "tag too high"))
       \o When(f.lite /\ ~p[1].lite, "lite extends full")
       \o FlattenSeq([i \in DOMAIN ranges |-> DeclarationErrors(f, fd, ranges[i])])

requiresOpenImplicit(f, chain, fd) == f.edition = "proto3" /\ ~IsList(fd)

\* The condition under which an enum field needs an open enum.
requiresOpen(f, chain, fd) == ~IsList(fd) /\ ~HasPresence(f.edition, chain, fd)

validateField(b, f, chain, fd) ==
  LET kind == FieldKind(f.edition, chain, fd)
  IN validatePacked(f, fd)
       \o When(kind = "enum" /\ requiresOpen(f, chain, fd) /\ EnumClosed(b, fd.ref), "closed enum")
       \o When(fd.default /\ ~HasPresence(f.edition, chain, fd), "implicit default")
       \o When(fd.ctype /\ f.edition = "2024", "ctype")
       \o When(fd.lazy /\ kind # "message", "lazy")
       \o When(fd.jstype /\ kind # "int64", "jstype")
       \o (IF IsEditions(f.edition) THEN validateFieldFeatures(f, chain, fd) ELSE <<>>)
       \o (IF IsExtension(fd) THEN validateExtension(b, f, fd) ELSE <<>>)

-----------------------------------------------------------------------------
(* JSON names.  A field's name is <<base, style>>: JSONName keeps the base.  *)

JSONName(name) == name[1]

\* A conflict of two default names is reported by the first pass only.
Reported(useCustom, custom, existing) == ~useCustom \/ custom \/ existing

\* validateFieldJSONNames: one pass over the fields, with the names seen first.
JsonPass(compliant, fields, useCustom) ==
  LET named(fd) == [name |-> IF useCustom /\ fd.json # Nil THEN fd.json ELSE JSONName(fd.name),
                    custom |-> useCustom /\ fd.json # Nil]
      Step(st, fd) ==
        LET n == named(fd)
            existing == st.seen[n.name]
            report == Reported(useCustom, n.custom, existing)
            warn == ~compliant /\ ~n.custom /\ ~existing
        IN IF n.name \notin DOMAIN st.seen
           THEN [st EXCEPT !.seen = [x \in DOMAIN @ \cup {n.name} |-> IF x = n.name THEN n.custom ELSE @[x]]]
           ELSE [st EXCEPT !.errs = @ \o When(report /\ ~warn, "json name"),
                           !.warnings = @ + IF report /\ warn THEN 1 ELSE 0]
  IN FoldLeft(Step, [seen |-> <<>>, errs |-> <<>>, warnings |-> 0], fields)

validateJSONNamesInMessage(f, m) ==
  LET compliant == isJSONCompliant(f.edition, <<m.features, f.features>>)
      defaults == JsonPass(compliant, m.fields, FALSE)
      customs == JsonPass(compliant, m.fields, TRUE)
  IN [errs |-> defaults.errs \o customs.errs, warnings |-> defaults.warnings + customs.warnings]

\* canonicalEnumValueName: a value's name is <<base, prefixed>>.
canonicalEnumValueName(name) == name[1]

validateJSONNamesInEnum(f, n) ==
  LET compliant == isJSONCompliant(f.edition, <<n.features, f.features>>)
      Step(st, v) ==
        LET name == canonicalEnumValueName(v.name)
        IN IF name \in DOMAIN st.seen /\ st.seen[name] # v.number
           THEN IF compliant THEN [st EXCEPT !.errs = Append(@, "enum json name")]
                ELSE [st EXCEPT !.warnings = @ + 1]
           ELSE [st EXCEPT !.seen = [x \in DOMAIN @ \cup {name} |-> IF x = name THEN v.number ELSE @[x]]]
  IN FoldLeft(Step, [seen |-> <<>>, errs |-> <<>>, warnings |-> 0], n.values)

validateEnum(f, n) ==
  LET json == validateJSONNamesInEnum(f, n)
  IN [json EXCEPT !.errs = When(~IsClosed(f.edition, <<n.features, f.features>>) /\ n.values[1].number # 0,
                                "first value") \o @]

-----------------------------------------------------------------------------
(* Extension declarations *)

\* AddExtensionDeclaration: a name is declared once, or again for the same extendee and tag.
DeclareErrors(table, ext, entry) == When(ext \in DOMAIN table /\ table[ext] # entry, "declared elsewhere")
AddExtensionDeclaration(table, ext, entry) ==
  IF ext \in DOMAIN table THEN table ELSE [x \in DOMAIN table \cup {ext} |-> IF x = ext THEN entry ELSE table[x]]

\* The checks of one declaration; `tags` are the numbers declared before it in its range.
DeclErrors(table, m, range, d, tags) ==
  LET number == IF d.number = Nil THEN 0 ELSE d.number
      outside == d.number # Nil /\ (d.number < range.from \/ d.number >= range.to)
  IN When(d.number = Nil, "no number") \o When(outside, "outside of range")
       \o When(d.number # Nil /\ ~outside /\ d.number \in tags, "number declared twice")
       \o (IF d.full = Nil THEN When(~d.reserved, "no full name")
           ELSE When(~d.full[1], "no leading dot") \o DeclareErrors(table, d.full[2], <<m.name, number>>))
       \o (IF d.type = Nil THEN When(~d.reserved, "no type") ELSE When(d.type = <<"junk">>, "bad type"))
       \o When(d.reserved /\ ((d.full = Nil) # (d.type = Nil)), "reserved half")

\* An error stops a handler that does not collect.
Stopped(st) == st.errs # <<>> /\ ~collecting

validateRange(m, st, range) ==
  LET Step(s, d) ==
        IF Stopped(s) THEN s
        ELSE LET errs == DeclErrors(s.table, m, range, d, s.tags)
                 number == IF d.number = Nil THEN 0 ELSE d.number
                 before == SelectInSeq(errs, LAMBDA x : x \in {"no number", "outside of range", "number declared twice", "no full name", "no leading dot", "declared elsewhere"})
                 kept == d.full = Nil \/ (before # 0 /\ ~collecting)
             IN [s EXCEPT !.errs = @ \o errs, !.tags = @ \cup {number},
                          !.table = IF kept THEN @ ELSE AddExtensionDeclaration(@, d.full[2], <<m.name, number>>)]
      verified == [st EXCEPT !.errs = @ \o When(range.verification \notin {Nil, "DECLARATION"}, "verification")]
  IN IF range.decls = <<>> \/ Stopped(st) THEN st
     ELSE FoldLeft(Step, [tags |-> {}] @@ verified, range.decls)

validateExtensionDeclarations(m, st) == FoldLeft(LAMBDA s, range : validateRange(m, s, range), st, m.ranges)

-----------------------------------------------------------------------------
(* ValidateOptions *)

\* One element after the other, until the handler stops.
Adding(st, r) == IF Stopped(st) THEN st ELSE [st EXCEPT !.errs = @ \o r.errs, !.warnings = @ + r.warnings]
Only(errs) == [errs |-> errs, warnings |-> 0]

validateMessage(b, f, st, m) ==
  LET Declaring(named) == IF Stopped(named) THEN named ELSE validateExtensionDeclarations(m, named)
  IN FoldLeft(LAMBDA s, fd : Adding(s, Only(validateField(b, f, FieldChain(f, m, fd), fd))),
              Declaring(Adding(st, validateJSONNamesInMessage(f, m))), m.fields)

ValidateAll(b, f, table) ==
  LET start == [errs |-> <<>>, warnings |-> 0, table |-> table]
      files == Adding(start, Only(validateFile(b, f)))
      messages == FoldLeft(LAMBDA s, m : IF Stopped(s) THEN s ELSE validateMessage(b, f, s, m), files, f.messages)
      enums == FoldLeft(LAMBDA s, n : Adding(s, validateEnum(f, n)), messages, f.enums)
  IN FoldLeft(LAMBDA s, x : Adding(s, Only(validateField(b, f, ExtensionChain(f, x), x))), enums, f.extensions)

ValidateInit ==
  /\ batch \in Batches /\ collecting \in BOOLEAN
  /\ verdicts = <<>> /\ declared = <<>>

ValidateOptions ==
  /\ Len(verdicts) < Len(batch)
  /\ \E result \in {ValidateAll(batch, batch[Len(verdicts) + 1], declared)} :
        /\ verdicts' = Append(verdicts, [errs |-> IF collecting \/ result.errs = <<>> THEN result.errs ELSE <<result.errs[1]>>,
                                         warnings |-> result.warnings])
        /\ declared' = result.table
  /\ UNCHANGED <<batch, collecting>>

ValidateNext == ValidateOptions

-----------------------------------------------------------------------------
\* Every file of the batch was validated without an error.
Accepted == Len(verdicts) = Len(batch) /\ \A i \in DOMAIN verdicts : verdicts[i].errs = <<>>

\* A field with implicit presence is unset when it holds the zero value, so an
\* enum that it has must have a zero for its first value: the check of the
\* field, in one file, and of the enum, in another, make sure of it together,
\* whatever features either inherits.
ImplicitEnumsStartAtZero ==
  Accepted =>
    \A p \in MessagesOf(batch) : \A fd \in Range(p[2].fields) :
      (/\ fd.type = "enum" /\ fd.label # "repeated"
       /\ ~HasPresence(p[1].edition, FieldChain(p[1], p[2], fd), fd))
        => EnumOf(batch, fd.ref)[2].values[1].number = 0

\* The name a field has in JSON.
EffectiveName(fd) == IF fd.json # Nil THEN fd.json ELSE JSONName(fd.name)

\* The two passes over the fields of a message report an error exactly when two
\* fields could not be told apart in JSON (and one has a custom name, or the
\* message promises to be compliant) or have the same default name in a message
\* that promises to be compliant.
JsonErrorsAreConflicts ==
  \A i \in DOMAIN verdicts : collecting =>
    (SelectInSeq(verdicts[i].errs, LAMBDA e : e = "json name") # 0
       <=> \E m \in Range(batch[i].messages) : \E j, k \in DOMAIN m.fields :
             LET f == m.fields[j]
                 g == m.fields[k]
                 compliant == isJSONCompliant(batch[i].edition, <<m.features, batch[i].features>>)
             IN /\ j < k
                /\ \/ /\ EffectiveName(f) = EffectiveName(g)
                      /\ (compliant \/ f.json # Nil \/ g.json # Nil)
                   \/ JSONName(f.name) = JSONName(g.name) /\ compliant)

\* In an accepted batch, an extension whose number is in a range with
\* declarations has one there, which agrees with it and is not reserved; and no
\* extension is declared twice, also by different files.
DeclarationsHold ==
  Accepted =>
    /\ \A x \in ExtensionsOf(batch) :
         LET f == x[1]
             fd == x[2]
             m == MessageOf(batch, fd.extendee)[2]
         IN \A r \in Range(m.ranges) :
              (r.from <= fd.number /\ fd.number < r.to /\ (r.decls # <<>> \/ r.verification = "DECLARATION")) =>
                \E i \in DOMAIN r.decls :
                  /\ r.decls[i].number = fd.number /\ ~r.decls[i].reserved
                  /\ r.decls[i].full = <<TRUE, fd.name>> /\ r.decls[i].type = getTypeName(f, fd)
                  /\ r.decls[i].repeated <=> fd.label = "repeated"
                  /\ \A j \in DOMAIN r.decls : r.decls[j].number = fd.number => j = i
    /\ \A p, q \in MessagesOf(batch) : \A r \in Range(p[2].ranges), s \in Range(q[2].ranges) :
         \A d \in Range(r.decls), e \in Range(s.decls) :
           d.full # Nil /\ d.full = e.full => p[2].name = q[2].name /\ d.number = e.number

\* Together: the files that are accepted follow the rules of their editions, and
\* an error always has a reason that its user can find.
AcceptedIsValid == ImplicitEnumsStartAtZero /\ JsonErrorsAreConflicts /\ DeclarationsHold
=============================================================================
