----------------------------- MODULE MCLinking ------------------------------
(***************************************************************************)
(* The passes of the linker over one file or a few, each on inputs of its  *)
(* own: `subject` says which pass a behaviour is about.                    *)
(***************************************************************************)
EXTENDS Descriptors, Retention, Resolve, LinkValidate, Options, TLC

CONSTANT Subjects

VARIABLE subject

-----------------------------------------------------------------------------
(* Files for Descriptors *)

Leaf(k, n) == [kind |-> k, name |-> n, kids |-> <<>>]
InOneof(n, o) == [kind |-> "field", name |-> n, kids |-> <<>>, oneof |-> o]
Node(k, n, ks) == [kind |-> k, name |-> n, kids |-> ks]
AnEnum(n, v) == Node("enum", n, <<Leaf("value", v), Leaf("value", "w" \o v)>>)
Firsts == {Node("message", "C", <<InOneof("x", 1), InOneof("y", 0), Leaf("oneof", "o"), InOneof("z", 1)>>),
           AnEnum("E", "v"), Leaf("extension", "e"), InOneof("f", 0)}
Seconds == {Node("message", "D", <<InOneof("x", 1), Leaf("oneof", "o"), Node("message", "I", <<InOneof("u", 0)>>)>>),
            AnEnum("F", "u"), InOneof("g", 0)}
SomeProtos ==
  {[kind |-> "file", name |-> "", pkg |-> pkg,
    kids |-> <<Leaf("extension", "e"), Node("message", "A", <<Node("message", "B", <<a, b>>), AnEnum("E", "v")>>),
               Node("service", "S", <<Leaf("method", "m")>>), AnEnum("E", "v")>>]
   : a \in Firsts, b \in Seconds, pkg \in {<<>>, <<"p">>}}

-----------------------------------------------------------------------------
(* Files for Retention *)

Opted(k, o, ks) == [kind |-> k, opts |-> o, unknown |-> TRUE, kids |-> ks]
FewOptions == {NoOptions, [nums |-> {1}, unknown |-> TRUE], [nums |-> {2, 3}, unknown |-> FALSE]}
SomeOptions == FewOptions \cup {[nums |-> s, unknown |-> TRUE] : s \in {{}, {2}}}
OptedMessage(o, p, q) ==
  Opted("message", o, <<Opted("field", p, <<>>), Opted("range", NoOptions, <<>>),
                        Opted("enum", p, <<Opted("value", q, <<>>)>>), Opted("field", q, <<>>)>>)
SomeFiles ==
  {Opted("file", o, <<OptedMessage(p, q, o), Opted("service", q, <<Opted("method", p, <<>>)>>),
                      Opted("message", NoOptions, <<OptedMessage(r, NoOptions, p)>>)>>)
   : o \in SomeOptions, p \in SomeOptions, q \in FewOptions, r \in {NoOptions, [nums |-> {1}, unknown |-> TRUE]}}

-----------------------------------------------------------------------------
(* Worlds for Resolve *)

Plain == [kids |-> <<>>, opts |-> <<>>, rangeOpts |-> <<>>, ranges |-> {}, entry |-> FALSE]
Elem(k, n, more) == more @@ [kind |-> k, name |-> n] @@ Plain
Rel(n) == [abs |-> FALSE, name |-> n]
Abs(n) == [abs |-> TRUE, name |-> n]
OfType(t) == [type |-> t, ptype |-> "unset", node |-> "source", repeated |-> FALSE, entryName |-> ""]
Extends(n, e, t, tag) == Elem("extension", n, [extendee |-> e, block |-> "block", tag |-> tag] @@ OfType(t))
WithOption(r) == <<[parts |-> <<[ext |-> TRUE, ref |-> r]>>, value |-> <<[ext |-> TRUE, ref |-> r, val |-> <<>>]>>]>>
Decl(k, n) == [name |-> n, kind |-> k, ranges |-> {1, 2}, entry |-> FALSE]
SomeRefs == {Rel(<<"M">>), Rel(<<"b">>), Rel(<<"b", "M">>), Abs(<<"a", "b", "M">>)}
MainFile(pkg, r, s) ==
  [kind |-> "file", name |-> "", pkg |-> pkg, opts |-> <<>>, ranges |-> {}, entry |-> FALSE,
   kids |-> <<Elem("message", "m", [kids |-> <<Elem("field", "b", OfType(r)),
                                               Elem("message", "n", [kids |-> <<Elem("field", "M", OfType(s))>>])>>,
                                    opts |-> WithOption(Rel(<<"a", "x">>))]),
              Extends("e", r, s, 1), Extends("g", r, NoRef, 2),
              Elem("service", "s", [kids |-> <<Elem("method", "c", [input |-> r, output |-> s])>>])>>]
Declarations == {[pkg |-> <<"a", "b">>, decls |-> {Decl("message", <<"a", "b", "M">>)}],
                 [pkg |-> <<"a">>, decls |-> {Decl("message", <<"a", "M">>)}],
                 [pkg |-> <<>>, decls |-> {Decl("enum", <<"b">>), Decl("extension", <<"a", "x">>)}],
                 [pkg |-> <<>>, decls |-> {Decl("message", <<"M">>), Decl("extension", <<"a", "x">>)}]}
Import(path, public) == [path |-> path, public |-> public]
ImportLists == {<<Import("A", FALSE), Import("B", FALSE)>>, <<Import("A", TRUE), Import("C", FALSE)>>}
Dependencies(a, b, public) ==
  [f \in {"A", "B", "C"} |->
    CASE f = "A" -> [pkg |-> a.pkg, decls |-> a.decls, imports |-> <<Import("C", public)>>]
      [] f = "B" -> [pkg |-> b.pkg, decls |-> b.decls, imports |-> <<>>]
      [] f = "C" -> [pkg |-> <<"a">>, decls |-> {Decl("extension", <<"a", "y">>), Decl("message", <<"a", "c">>)},
                     imports |-> <<>>]]

\* The symbol table has let the file pass: no name is declared twice or is a package elsewhere.
NoConflicts(w) ==
  LET names == [f \in {Path} \cup DOMAIN w.files |-> {d.name : d \in DeclsOf(w, f)}]
  IN \A f, g \in DOMAIN names : f # g =>
       names[f] \cap names[g] = {} /\ \A n \in names[f] : ~matchesPkgNamespace(n, PackageOf(w, g))
SomeWorlds ==
  {w \in {[main |-> MainFile(pkg, r, s), imports |-> list, syntax |-> "proto2", files |-> Dependencies(a, b, public)]
          : pkg \in {<<>>, <<"a">>, <<"a", "b">>}, r \in SomeRefs, s \in SomeRefs, list \in ImportLists,
            a \in Declarations, b \in Declarations, public \in BOOLEAN} : NoConflicts(w)}

-----------------------------------------------------------------------------
(* Batches for LinkValidate *)

Field(name, number, label, type, ref) ==
  [name |-> name, number |-> number, label |-> label, type |-> type, ref |-> ref, extendee |-> Nil, oneof |-> FALSE,
   entry |-> FALSE, inEntry |-> FALSE, strings |-> FALSE, packed |-> Nil, default |-> FALSE, ctype |-> FALSE,
   lazy |-> FALSE, jstype |-> FALSE, features |-> <<>>, json |-> Nil]
File(path, edition) ==
  [path |-> path, edition |-> edition, lite |-> FALSE, imports |-> <<>>, features |-> <<>>, javaUtf8 |-> FALSE,
   messages |-> <<>>, enums |-> <<>>, extensions |-> <<>>]
Message(name, fields) == [name |-> name, fields |-> fields, features |-> <<>>, messageSet |-> FALSE, ranges |-> <<>>]
Enum(name, values) == [name |-> name, features |-> <<>>, values |-> values]
Value(base, n) == [name |-> <<base, FALSE>>, number |-> n]
Maybe(feature, values) == {<<>>} \cup {[x \in {feature} |-> v] : v \in values}

EnumBatches ==
  {<<[File("e", e) EXCEPT !.features = g, !.enums = <<Enum("E", <<Value("A", n), Value("B", 5)>>)>>],
     [File("m", d) EXCEPT !.imports = <<"e">>, !.features = h,
        !.messages = <<Message("M", <<[Field(<<"a", 1>>, 1, label, "enum", "E") EXCEPT !.features = k, !.oneof = o]>>)>>]>>
   : e \in {"proto2", "2023"}, d \in {"proto3", "2023"}, g \in Maybe("enum", {"CLOSED"}), n \in {0, 1},
     h \in Maybe("presence", {"IMPLICIT"}), k \in Maybe("presence", {"EXPLICIT", "IMPLICIT"}),
     label \in {"optional", "repeated"}, o \in BOOLEAN}

FieldBatches ==
  {<<[File("m", e) EXCEPT !.messages = <<Message("M", <<[Field(<<"a", 1>>, 1, label, type, "M")
        EXCEPT !.features = k, !.packed = packed, !.lazy = odd, !.jstype = odd, !.entry = ~odd]>>)>>, !.javaUtf8 = odd]>>
   : e \in {"proto2", "2023", "2024"}, label \in {"optional", "repeated"}, type \in {"int64", "message"},
     k \in Maybe("repeated", {"PACKED"}) \cup Maybe("message", {"DELIMITED"}), packed \in {Nil, TRUE}, odd \in BOOLEAN}

JsonFields == {[Field(<<b, 1>>, 1, "optional", "int64", Nil) EXCEPT !.json = j] : b \in {"a", "b"}, j \in {Nil, "a"}}
JsonBatches ==
  {<<[File("m", e) EXCEPT !.messages = <<[Message("M", <<x, y, z>>) EXCEPT !.features = k]>>,
        !.enums = <<[Enum("E", <<Value("A", 0), Value("B", 1), Value("A", n)>>) EXCEPT !.features = k]>>]>>
   : e \in {"proto2", "2023"}, k \in Maybe("json", {"LEGACY_BEST_EFFORT"}), x \in JsonFields, y \in JsonFields,
     z \in JsonFields, n \in {0}}

Declares(n, x, type) == [number |-> n, full |-> <<TRUE, x>>, type |-> type, reserved |-> FALSE, repeated |-> FALSE]
IntType == <<"builtin", "int64">>
SomeDecls == {Declares(2, "x", IntType), [Declares(2, "x", IntType) EXCEPT !.repeated = TRUE],
              [Declares(2, "x", Nil) EXCEPT !.reserved = TRUE, !.full = Nil], Declares(3, "y", <<"ref", "M">>),
              [Declares(2, "x", <<"junk">>) EXCEPT !.full = <<FALSE, "x">>], [Declares(Nil, "z", Nil) EXCEPT !.full = Nil]}
Ranges(decls, v) == <<[from |-> 2, to |-> 4, decls |-> decls, verification |-> v]>>
DeclBatches ==
  {<<[File("m", "2023") EXCEPT !.messages = <<[Message("M", <<>>) EXCEPT !.ranges = Ranges(ds, v)]>>],
     [File("n", "2023") EXCEPT !.lite = lite, !.imports = <<"m">>,
        !.messages = <<[Message("N", <<>>) EXCEPT !.ranges = Ranges(es, Nil)]>>,
        !.extensions = <<[Field("x", 2, "optional", "int64", Nil) EXCEPT !.extendee = "M"]>>]>>
   : lite \in {FALSE}, ds \in {<<>>} \cup {<<d>> : d \in SomeDecls} \cup {<<d, e>> : d \in SomeDecls, e \in SomeDecls},
     v \in {Nil, "DECLARATION"}, es \in {<<>>, <<Declares(2, "x", IntType)>>, <<Declares(3, "w", IntType)>>}}
SomeBatches == EnumBatches \cup FieldBatches \cup JsonBatches \cup DeclBatches

-----------------------------------------------------------------------------
(* Files for Options *)

OptField(num, kind, label, type) ==
  [num |-> num, kind |-> kind, label |-> label, type |-> type, oneof |-> Nil, targets |-> {}, ext |-> FALSE,
   extendee |-> Nil, editions |-> Nil, here |-> FALSE]
SomeSchema == [t \in {"file", "message", "field", "extension", "M", "FS", "Any", Nil} |->
  CASE t = "M" -> [n |-> OptField(1, "int32", "optional", Nil), l |-> OptField(2, "int32", "repeated", Nil),
                   m |-> OptField(3, "message", "optional", "M"), ms |-> OptField(4, "message", "repeated", "M"),
                   a |-> [OptField(5, "int32", "optional", Nil) EXCEPT !.oneof = "o"],
                   b |-> [OptField(6, "int32", "optional", Nil) EXCEPT !.oneof = "o"]]
    [] t = "Any" -> [type_url |-> OptField(1, "string", "optional", Nil), value |-> OptField(2, "bytes", "optional", Nil)]
    [] t = "FS" -> [p |-> [OptField(1, "enum", "optional", "E") EXCEPT !.editions = {2023}]]
    [] t \in {"file", "message", "field"} -> [d |-> OptField(3, "bool", "optional", Nil),
                                             features |-> OptField(9, "message", "optional", "FS")]
    [] OTHER -> <<>>]
SomeExtensions ==
  [x |-> [OptField(1000, "message", "optional", "M") EXCEPT !.extendee = "message"],
   y |-> [OptField(1001, "int32", "repeated", Nil) EXCEPT !.extendee = "message", !.targets = {"message"}],
   r |-> [OptField(1002, "message", "repeated", "M") EXCEPT !.extendee = "message"],
   z |-> [OptField(1003, "message", "optional", "Any") EXCEPT !.extendee = "message"]]
SomeEnums == [E |-> [values |-> [A |-> 1, B |-> 2], closed |-> TRUE]]
NamePart(n) == [ext |-> FALSE, name |-> n]
ExtPart(n) == [ext |-> TRUE, name |-> n]
OptionOf(name, val) == [name |-> name, val |-> val]
IntLit(n) == <<"int", n>>
ArrayLit(s) == <<"array", s>>
LitField(n, v) == [name |-> n, ext |-> FALSE, sep |-> TRUE, any |-> Nil, val |-> v]
AnyLit(host, type, v) == [LitField("", v) EXCEPT !.any = [host |-> host, type |-> type]]
MessageLit(s) == <<"lit", s>>
MessageOptions ==
  {OptionOf(<<ExtPart("y")>>, IntLit(1)), OptionOf(<<ExtPart("y")>>, ArrayLit(<<IntLit(2), IntLit(3)>>)),
   OptionOf(<<ExtPart("y")>>, ArrayLit(<<IntLit(4), <<"str", "s">>>>)),
   OptionOf(<<ExtPart("x"), NamePart("n")>>, IntLit(5)),
   OptionOf(<<ExtPart("x"), NamePart("m"), NamePart("l")>>, ArrayLit(<<IntLit(6), IntLit(7)>>)),
   OptionOf(<<ExtPart("x")>>, MessageLit(<<LitField("a", IntLit(1)), LitField("b", IntLit(2))>>)),
   OptionOf(<<ExtPart("r")>>, MessageLit(<<LitField("l", IntLit(1)), LitField("l", ArrayLit(<<IntLit(2), IntLit(3)>>)),
                                           LitField("ms", MessageLit(<<LitField("n", IntLit(4))>>))>>)),
   OptionOf(<<ExtPart("r")>>, ArrayLit(<<MessageLit(<<LitField("n", IntLit(1))>>),
                                         MessageLit(<<LitField("l", ArrayLit(<<IntLit(2), IntLit(1)>>))>>)>>)),
   OptionOf(<<ExtPart("z")>>, MessageLit(<<AnyLit("type.googleapis.com", "M", MessageLit(<<LitField("l", ArrayLit(<<IntLit(1), IntLit(2)>>))>>))>>)),
   OptionOf(<<ExtPart("z")>>, MessageLit(<<AnyLit("else.where", "M", MessageLit(<<>>)), LitField("value", <<"str", "s">>)>>)),
   OptionOf(<<NamePart("features"), NamePart("p")>>, <<"ident", "A">>),
   OptionOf(<<NamePart("d")>>, <<"ident", "true">>),
   OptionOf(<<ExtPart("x"), NamePart("m")>>, MessageLit(<<LitField("q", IntLit(5))>>))}
OptionElem(kind, name, uo, kids) ==
  [kind |-> kind, name |-> name, uo |-> uo, kids |-> kids, field |-> OptField(1, "int32", "optional", Nil)]
FieldOptions ==
  LET D == OptionOf(<<NamePart("d")>>, <<"ident", "false">>)
      Json(s) == OptionOf(<<NamePart("json_name")>>, <<"str", s>>)
      Default == OptionOf(<<NamePart("default")>>, IntLit(3))
  IN {<<>>, <<Json("j"), D, Default>>, <<D, Json("[reserved]"), Default>>}
SomeOptionFiles ==
  {OptionElem("file", "", <<>>, <<OptionElem("message", "A", <<a, b, c>>, <<OptionElem("field", "f", f, <<>>)>>)>>)
   : a \in MessageOptions, b \in MessageOptions,
     c \in {OptionOf(<<ExtPart("y")>>, IntLit(1)), OptionOf(<<ExtPart("x"), NamePart("n")>>, IntLit(5))}, f \in FieldOptions}
LeastInt32 == -8

-----------------------------------------------------------------------------
Init ==
  /\ subject \in Subjects
  /\ DescriptorsInit /\ RetentionInit /\ ResolveInit /\ OptionsInit
  /\ IF subject = "validate" THEN ValidateInit
     ELSE batch = <<>> /\ collecting = FALSE /\ verdicts = <<>> /\ declared = <<>>

DescriptorSteps ==
  subject = "descriptors" /\ DescriptorsNext /\ UNCHANGED <<retentionVars, resolveVars, validateVars, optionVars>>
RetentionSteps ==
  subject = "retention" /\ RetentionNext /\ UNCHANGED <<descriptorVars, resolveVars, validateVars, optionVars>>
ResolveSteps ==
  subject = "resolve" /\ ResolveNext /\ UNCHANGED <<descriptorVars, retentionVars, validateVars, optionVars>>
ValidateSteps ==
  subject = "validate" /\ ValidateNext /\ UNCHANGED <<descriptorVars, retentionVars, resolveVars, optionVars>>
OptionSteps ==
  subject = "options" /\ OptionsNext /\ UNCHANGED <<descriptorVars, retentionVars, resolveVars, validateVars>>

Next ==
  /\ DescriptorSteps \/ RetentionSteps \/ ResolveSteps \/ ValidateSteps \/ OptionSteps
  /\ UNCHANGED subject

Spec == Init /\ [][Next]_<<subject, descriptorVars, retentionVars, resolveVars, validateVars, optionVars>>
=============================================================================
