---------------------------- MODULE ParserResult ----------------------------
(***************************************************************************)
(* The descriptor proto of a file, made from its AST (parser/result.go).   *)
(* In an element, `of` is the AST node that the result's index has for it  *)
(* and `bad` the number of errors that were reported while it was made.    *)
(* The handler collects errors.                                            *)
(***************************************************************************)
EXTENDS Parser

CONSTANTS MaxDepth,   \* messages are nested less deeply than this
          LowerCase,  \* the names of groups in lower case
          UpperCase   \* the names of map fields as they start the names of their entries

FieldMax == 536870911
MessageSetMax == 2147483646
MinInt32 == -2147483647 - 1
MaxInt32 == 2147483647

\* Nodes that the AST has none for.
Synthetic(kind, node) == [kind |-> kind, from |-> node]

One(condition) == IF condition THEN 1 ELSE 0
Joint(parts) == FlattenSeq(parts)
Each(kinds, decls) == SelectSeq(decls, LAMBDA d : d.kind \in kinds)

-----------------------------------------------------------------------------
(* Options *)

\* The tokens of a node, as flattenNode puts them together.
RECURSIVE flattenNode(_)
flattenNode(n) == IF n.children = <<>> THEN <<n.text>> ELSE Joint([i \in DOMAIN n.children |-> flattenNode(n.children[i])])

OptionValue(val) ==
  CASE val.kind = "negative" -> [tag |-> "negative_int_value", val |-> val.num]
    [] val.kind = "_INT_LIT" -> [tag |-> "positive_int_value", val |-> val.num]
    [] val.kind \in {"_FLOAT_LIT", "signed"} -> [tag |-> "double_value", val |-> val.val]
    [] val.kind \in {"_STRING_LIT", "strings"} -> [tag |-> "string_value", val |-> val.val]
    [] val.kind = "literal" ->
         [tag |-> "aggregate_value",
          val |-> Joint([i \in DOMAIN val.elements |->
                    flattenNode(val.elements[i]) \o (IF val.seps[i] = Nil THEN <<>> ELSE <<val.seps[i].text>>)])]
    [] OTHER -> [tag |-> "identifier_value", val |-> val.val]

asUninterpretedOptionName(parts) ==
  [i \in DOMAIN parts |-> [of |-> parts[i], name |-> parts[i].name.val, ext |-> parts[i].form = "extension"]]
asUninterpretedOption(node) ==
  [of |-> node, names |-> asUninterpretedOptionName(node.name.parts), value |-> OptionValue(node.of)]
asUninterpretedOptions(nodes) == [i \in DOMAIN nodes |-> asUninterpretedOption(nodes[i])]

\* findOption: the index of the option with that one name, 0 when there is none.
\* One that is there twice is an error, and as good as absent.
Named(opts, name, exact) ==
  {i \in DOMAIN opts : (exact => Len(opts[i].names) = 1) /\ ~opts[i].names[1].ext /\ opts[i].names[1].name = name}
FindOption(opts, name) == LET found == Named(opts, name, TRUE) IN IF Cardinality(found) = 1 THEN Max(found) ELSE 0
FindFirstOption(opts, name) == LET found == Named(opts, name, FALSE) IN IF found = {} THEN 0 ELSE Min(found)
Repeated(opts, name) == One(Cardinality(Named(opts, name, TRUE)) > 1)

-----------------------------------------------------------------------------
(* Fields *)

checkTag(v, maxTag) == One(v < 1 \/ v > maxTag \/ v \in 19000..19999)

fieldTypes == Scalars \cup {"double", "float", "bytes"}

newFieldDescriptor(of, name, fieldType, tag, label) ==
  [of |-> of, name |-> name, number |-> tag, label |-> label, scalar |-> fieldType \in fieldTypes, type |-> fieldType,
   group |-> FALSE, options |-> <<>>, oneof |-> Nil, proto3Optional |-> FALSE, extendee |-> Nil, bad |-> 0]

TagOf(node) == IF node.tag = Nil THEN Nil ELSE node.tag.num
LabelOf(node) == IF node.label = Nil THEN Nil ELSE node.label.val
TagErrors(node, maxTag) == IF node.tag = Nil THEN 0 ELSE checkTag(node.tag.num, maxTag)

asFieldDescriptor(node, maxTag, syntax) ==
  [newFieldDescriptor(node, node.name.val, node.type.val, TagOf(node), LabelOf(node)) EXCEPT
     !.bad = TagErrors(node, maxTag),
     !.options = asUninterpretedOptions(CompactOptions(node)),
     !.proto3Optional = syntax = "proto3" /\ LabelOf(node) = "optional"]

Capitals == {"A", "B", "C", "D", "E", "F", "G", "H", "I", "J", "K", "L", "M",
             "N", "O", "P", "Q", "R", "S", "T", "U", "V", "W", "X", "Y", "Z"}

\* The field of a group; a group's name starts with a capital letter.
GroupField(node, maxTag) ==
  [newFieldDescriptor(node, LowerCase[node.name.val], node.name.val, TagOf(node), LabelOf(node)) EXCEPT
     !.group = TRUE,
     !.bad = TagErrors(node, maxTag) + One(SubSeq(node.name.val, 1, 1) \notin Capitals),
     !.options = asUninterpretedOptions(CompactOptions(node))]

MapEntry(name) == UpperCase[name] \o "Entry"
MapField(node, maxTag) ==
  [newFieldDescriptor(node, node.name.val, MapEntry(node.name.val), TagOf(node), "repeated") EXCEPT
     !.bad = TagErrors(node, maxTag),
     !.options = asUninterpretedOptions(CompactOptions(node))]

AsField(node, maxTag, syntax) ==
  CASE node.kind = "field" -> asFieldDescriptor(node, maxTag, syntax)
    [] node.kind = "group" -> GroupField(node, maxTag)
    [] node.kind = "mapField" -> MapField(node, maxTag)

\* addExtensions: the limit is the higher one, whatever the extendee turns out to be.
Extensions(ext, syntax) ==
  LET decls == Each({"field", "group"}, ext.decls)
  IN [i \in DOMAIN decls |-> [AsField(decls[i], MessageSetMax, syntax) EXCEPT !.extendee = ext.extendee.val]]

-----------------------------------------------------------------------------
(* Ranges, enums and services *)

\* ast.AsInt32: 0 when the value is out of range.
InBounds(node, min, max) == min <= node.num /\ node.num <= max
AsInt32(node, min, max) == IF InBounds(node, min, max) THEN node.num ELSE 0
getRangeBounds(rng, min, max) ==
  LET startOk == InBounds(rng.start, min, max)
      last == IF rng.end = Nil THEN rng.start ELSE rng.end
      endOk == rng.max # Nil \/ InBounds(last, min, max)
      start == AsInt32(rng.start, min, max)
      end == IF rng.max # Nil THEN max ELSE AsInt32(last, min, max)
  IN [start |-> start, end |-> end,
      bad |-> One(~startOk) + One(~endOk /\ rng.end # Nil) + One(startOk /\ endOk /\ start > end)]

\* The ranges of messages end before their end.
TagRange(rng, maxTag) ==
  LET bounds == getRangeBounds(rng, 1, maxTag)
  IN [of |-> rng, start |-> bounds.start, end |-> bounds.end + 1, bad |-> bounds.bad]
asExtensionRanges(node, maxTag) ==
  [i \in DOMAIN node.ranges |->
     TagRange(node.ranges[i], maxTag) @@ [exts |-> node, options |-> asUninterpretedOptions(CompactOptions(node))]]
asEnumReservedRange(rng) == [of |-> rng] @@ getRangeBounds(rng, MinInt32, MaxInt32)

\* addReservedNames: the names, without the ones that are there already, which are errors.
ReservedNames(decls, syntax) ==
  LET of(d) == IF syntax = "editions" THEN d.identifiers ELSE d.names
      all == Joint([i \in DOMAIN decls |-> [j \in DOMAIN of(decls[i]) |-> of(decls[i])[j].val]])
      first == {i \in DOMAIN all : \A j \in 1..i - 1 : all[j] # all[i]}
      wrong(d) == IF syntax = "editions" THEN d.names # <<>> ELSE d.identifiers # <<>>
  IN [names |-> [k \in 1..Cardinality(first) |-> all[CHOOSE i \in first : Cardinality({j \in first : j <= i}) = k]],
      bad |-> Len(all) - Cardinality(first) + Len(SelectSeq(decls, wrong))]

asEnumValue(node) ==
  [of |-> node, name |-> node.name.val, number |-> AsInt32(node.number, MinInt32, MaxInt32),
   options |-> asUninterpretedOptions(CompactOptions(node)), bad |-> One(~InBounds(node.number, MinInt32, MaxInt32))]

asEnumDescriptor(node, syntax) ==
  LET valueNodes == Each({"value"}, node.decls)
      reserved == Each({"reserved"}, node.decls)
      ranges == Joint([i \in DOMAIN reserved |-> reserved[i].ranges])
      names == ReservedNames(reserved, syntax)
  IN [of |-> node, name |-> node.name.val, options |-> asUninterpretedOptions(OptionDecls(node)),
      values |-> [i \in DOMAIN valueNodes |-> asEnumValue(valueNodes[i])],
      reservedRanges |-> [i \in DOMAIN ranges |-> asEnumReservedRange(ranges[i])],
      reservedNames |-> names.names, bad |-> names.bad]

asMethodDescriptor(node) ==
  [of |-> node, name |-> node.name.val, input |-> node.input.type.val, output |-> node.output.type.val,
   clientStreaming |-> node.input.stream # Nil, serverStreaming |-> node.output.stream # Nil,
   options |-> asUninterpretedOptions(OptionDecls(node)), hasOptions |-> node.open # Nil, bad |-> 0]

asServiceDescriptor(node) ==
  LET methods == Each({"rpc"}, node.decls)
  IN [of |-> node, name |-> node.name.val, options |-> asUninterpretedOptions(OptionDecls(node)),
      methods |-> [i \in DOMAIN methods |-> asMethodDescriptor(methods[i])], bad |-> 0]

-----------------------------------------------------------------------------
(* Messages *)

checkDepth(depth) == depth < MaxDepth

isMessageSetWireFormat(opts) ==
  LET i == FindOption(opts, "message_set_wire_format")
      value == IF i = 0 THEN Nil ELSE opts[i].value
  IN [set |-> i # 0 /\ value = [tag |-> "identifier_value", val |-> "true"],
      bad |-> Repeated(opts, "message_set_wire_format")
                + One(i # 0 /\ ~(value.tag = "identifier_value" /\ value.val \in {"true", "false"}))]

\* The declarations of a body that make fields, and those that make messages.
FieldNodes(decls) == Each({"field", "group", "mapField"}, decls)
MessageNodes(decls) ==
  Joint([i \in DOMAIN decls |->
    IF decls[i].kind \in {"oneof", "extend"} THEN Each({"group"}, decls[i].decls)
    ELSE Each({"message", "group", "mapField"}, <<decls[i]>>)])

\* The fields of a body; those of a oneof have its index.
BodyFields(decls, maxTag, syntax) ==
  LET made(nodes, oneof) == [j \in DOMAIN nodes |-> [AsField(nodes[j], maxTag, syntax) EXCEPT !.oneof = oneof]]
  IN Joint([i \in DOMAIN decls |->
       IF decls[i].kind = "oneof" THEN made(FieldNodes(decls[i].decls), Len(Each({"oneof"}, SubSeq(decls, 1, i - 1))))
       ELSE made(FieldNodes(<<decls[i]>>), Nil)])
BodyOneofs(decls) ==
  LET nodes == Each({"oneof"}, decls)
  IN [i \in DOMAIN nodes |-> [of |-> nodes[i], name |-> nodes[i].name.val, options |-> asUninterpretedOptions(OptionDecls(nodes[i])),
                              bad |-> One(FieldNodes(nodes[i].decls) = <<>>)]]
BodyExtensions(decls, syntax) ==
  Joint([i \in DOMAIN decls |-> IF decls[i].kind = "extend" THEN Extensions(decls[i], syntax) ELSE <<>>])
EmptyExtends(decls) == Len(SelectSeq(decls, LAMBDA d : d.kind = "extend" /\ FieldNodes(d.decls) = <<>>))

EmptyMessage(of, name, bad) ==
  [of |-> of, name |-> name, options |-> <<>>, mapEntry |-> FALSE, fields |-> <<>>, oneofs |-> <<>>, nested |-> <<>>,
   enums |-> <<>>, extensions |-> <<>>, ranges |-> <<>>, reservedRanges |-> <<>>, reservedNames |-> <<>>, bad |-> bad]

\* The entry message of a map field.
MapMessage(node, syntax, depth) ==
  LET label == IF syntax = "proto2" THEN "optional" ELSE Nil
      part(name, type, tag) == newFieldDescriptor(Synthetic(name, node), name, type.val, tag, label)
  IN [EmptyMessage(Synthetic("mapMessage", node), MapEntry(node.name.val), One(~checkDepth(depth))) EXCEPT
        !.mapEntry = TRUE,
        !.fields = <<part("key", node.type.key, 1), part("value", node.type.value, 2)>>]

\* processProto3OptionalFields: a oneof of its own for each proto3 optional field.
RECURSIVE unusedName(_, _)
unusedName(name, names) == IF name \notin names THEN name ELSE unusedName("X" \o name, names)
Underscored(name) == IF SubSeq(name, 1, 1) = "_" THEN name ELSE "_" \o name
NamesOf(elements) == {elements[i].name : i \in DOMAIN elements}
NamesIn(m) ==
  NamesOf(m.fields) \cup NamesOf(m.oneofs) \cup NamesOf(m.extensions) \cup NamesOf(m.enums)
    \cup UNION {NamesOf(m.enums[i].values) : i \in DOMAIN m.enums} \cup NamesOf(m.nested)
RECURSIVE withSyntheticOneofs(_, _, _)
withSyntheticOneofs(m, i, names) ==
  IF i > Len(m.fields) THEN m
  ELSE IF ~m.fields[i].proto3Optional THEN withSyntheticOneofs(m, i + 1, names)
  ELSE LET name == unusedName(Underscored(m.fields[i].name), names)
       IN withSyntheticOneofs(
            [m EXCEPT !.fields[i].oneof = Len(m.oneofs),
                      !.oneofs = Append(@, [of |-> Synthetic("syntheticOneof", m.fields[i].of), name |-> name,
                                            options |-> <<>>, bad |-> 0])],
            i + 1, names \cup {name})
processProto3OptionalFields(m) == withSyntheticOneofs(m, 1, NamesIn(m))

\* asMessageDescriptor, and asGroupDescriptors for a group's message.
RECURSIVE asMessageDescriptor(_, _, _)
addMessageBody(m, decls, syntax, depth) ==
  LET opts == asUninterpretedOptions(Each({"option"}, decls))
      messageSet == isMessageSetWireFormat(opts)
      maxTag == IF messageSet.set THEN MessageSetMax ELSE FieldMax
      inner == MessageNodes(decls)
      enumNodes == Each({"enum"}, decls)
      rangeNodes == Each({"extensions"}, decls)
      reserved == Each({"reserved"}, decls)
      reservedNodes == Joint([i \in DOMAIN reserved |-> reserved[i].ranges])
      rsvdNames == ReservedNames(reserved, syntax)
      fields == BodyFields(decls, maxTag, syntax)
      body == [m EXCEPT
        !.options = opts, !.fields = fields, !.oneofs = BodyOneofs(decls),
        !.nested = [i \in DOMAIN inner |-> asMessageDescriptor(inner[i], syntax, depth + 1)],
        !.enums = [i \in DOMAIN enumNodes |-> asEnumDescriptor(enumNodes[i], syntax)],
        !.extensions = BodyExtensions(decls, syntax),
        !.ranges = Joint([i \in DOMAIN rangeNodes |-> asExtensionRanges(rangeNodes[i], maxTag)]),
        !.reservedRanges = [i \in DOMAIN reservedNodes |-> TagRange(reservedNodes[i], maxTag)],
        !.reservedNames = rsvdNames.names,
        !.bad = @ + messageSet.bad + rsvdNames.bad + EmptyExtends(decls)
                  + (IF ~messageSet.set THEN 0
                     ELSE One(syntax = "proto3") + One(fields # <<>>) + One(rangeNodes = <<>>))]
  IN IF syntax = "proto3" THEN processProto3OptionalFields(body) ELSE body
asMessageDescriptor(node, syntax, depth) ==
  LET of == IF node.kind = "group" THEN Synthetic("groupMessage", node) ELSE node
      empty == EmptyMessage(of, node.name.val, One(~checkDepth(depth)))
  IN IF node.kind = "mapField" THEN MapMessage(node, syntax, depth)
     ELSE IF checkDepth(depth) THEN addMessageBody(empty, node.decls, syntax, depth) ELSE empty

-----------------------------------------------------------------------------
(* Files *)

SupportedEditions == {"2023"}
SyntaxOf(file) ==
  CASE file.header = Nil -> "proto2"
    [] file.header.kind = "edition" -> "editions"
    [] file.header.syntax.val \in {"proto2", "proto3"} -> file.header.syntax.val
    [] OTHER -> "unknown"
HeaderErrors(file) ==
  IF file.header # Nil /\ file.header.kind = "edition" THEN One(file.header.syntax.val \notin SupportedEditions)
  ELSE One(SyntaxOf(file) = "unknown")

createFileDescriptor(file) ==
  LET syntax == SyntaxOf(file)
      imports == Each({"import"}, file.decls)
      packages == Each({"package"}, file.decls)
      inner == MessageNodes(file.decls)
      enumNodes == Each({"enum"}, file.decls)
      serviceNodes == Each({"service"}, file.decls)
      modified(modifier) ==
        SelectSeq([i \in DOMAIN imports |-> i - 1],
                  LAMBDA i : imports[i + 1].modifier # Nil /\ imports[i + 1].modifier.val = modifier)
  IN [of |-> file, syntax |-> syntax, options |-> asUninterpretedOptions(Each({"option"}, file.decls)),
      package |-> IF packages = <<>> THEN Nil ELSE Last(packages).name.val,
      dependencies |-> [i \in DOMAIN imports |-> imports[i].name.val],
      publicDependencies |-> modified("public"), weakDependencies |-> modified("weak"),
      messages |-> [i \in DOMAIN inner |-> asMessageDescriptor(inner[i], syntax, 1)],
      enums |-> [i \in DOMAIN enumNodes |-> asEnumDescriptor(enumNodes[i], syntax)],
      extensions |-> BodyExtensions(file.decls, syntax),
      services |-> [i \in DOMAIN serviceNodes |-> asServiceDescriptor(serviceNodes[i])],
      bad |-> HeaderErrors(file) + (IF packages = <<>> THEN 0 ELSE Len(packages) - 1) + EmptyExtends(file.decls)]

\* fillInMissingLabels
Labelled(fields) == [i \in DOMAIN fields |-> IF fields[i].label = Nil THEN [fields[i] EXCEPT !.label = "optional"] ELSE fields[i]]
RECURSIVE fillInMissingLabelsInMsg(_)
fillInMissingLabelsInMsg(m) ==
  [m EXCEPT !.fields = Labelled(@), !.extensions = Labelled(@), !.nested = [i \in DOMAIN @ |-> fillInMissingLabelsInMsg(@[i])]]
fillInMissingLabels(fd) ==
  [fd EXCEPT !.messages = [i \in DOMAIN @ |-> fillInMissingLabelsInMsg(@[i])], !.extensions = Labelled(@)]
=============================================================================
