-------------------------------- MODULE Ast ---------------------------------
(***************************************************************************)
(* The nodes of the AST (ast/*.go): a constructor per node, with the order *)
(* of its children, what it requires of its arguments, and what the        *)
(* accessors return.  A token is a node without children; `item` is its    *)
(* place in the file, so that no two nodes of a file are equal.            *)
(***************************************************************************)
EXTENDS Integers, Tree

Composite(kind, children) == [kind |-> kind, children |-> children]
Present(parts) == SelectSeq(parts, LAMBDA n : n # Nil)

\* A constructor panics when it gets what it does not allow.
PanicNode == Composite("panic", <<>>)
Checked(ok, node) == IF ok THEN node ELSE PanicNode

\* Items with what separates them; a separator may follow the last one.
Interleaved(items, seps) ==
  FlattenSeq([i \in DOMAIN items |-> IF i <= Len(seps) THEN <<items[i], seps[i]>> ELSE <<items[i]>>])
Separated(items, seps) == Len(seps) = Len(items) - 1
OrTrailing(items, seps) == Len(seps) \in {Len(items) - 1, Len(items)}

RECURSIVE Joined(_)
Joined(vals) == IF vals = <<>> THEN "" ELSE Head(vals) \o Joined(Tail(vals))
Vals(nodes) == Joined([i \in DOMAIN nodes |-> nodes[i].val])

-----------------------------------------------------------------------------
(* Identifiers and values *)

NewCompoundIdentNode(leadingDot, components, dots) ==
  LET children == Present(<<leadingDot>>) \o Interleaved(components, dots)
  IN Checked(OrTrailing(components, dots), Composite("compound", children) @@ [val |-> Vals(children)])

NewCompoundLiteralStringNode(components) == Composite("strings", components) @@ [val |-> Vals(components)]
NewNegativeIntLiteralNode(sign, i) == Composite("negative", <<sign, i>>) @@ [val |-> "-" \o i.val, num |-> -i.num]
NewSignedFloatLiteralNode(sign, f) == Composite("signed", <<sign, f>>) @@ [val |-> "-" \o f.val]

NewArrayLiteralNode(open, vals, commas, close) ==
  Checked(IF vals = <<>> THEN commas = <<>> ELSE Separated(vals, commas),
          Composite("array", <<open>> \o Interleaved(vals, commas) \o <<close>>) @@ [elements |-> vals])
NewMessageLiteralNode(open, vals, seps, close) ==
  Checked(Len(seps) = Len(vals),
          Composite("literal", <<open>> \o Present(Interleaved(vals, seps)) \o <<close>>) @@ [elements |-> vals, seps |-> seps])
NewMessageFieldNode(name, sep, val) == Composite("messageField", Present(<<name, sep, val>>)) @@ [name |-> name, of |-> val]

-----------------------------------------------------------------------------
(* Options *)

NewFieldReferenceNode(name) == Composite("reference", <<name>>) @@ [name |-> name, form |-> "field"]
NewExtensionFieldReferenceNode(open, name, close) ==
  Composite("reference", <<open, name, close>>) @@ [name |-> name, form |-> "extension"]
NewAnyTypeReferenceNode(open, urlPrefix, slash, name, close) ==
  Composite("reference", <<open, urlPrefix, slash, name, close>>) @@ [name |-> name, form |-> "any"]

NewOptionNameNode(parts, dots) ==
  Checked(parts # <<>> /\ OrTrailing(parts, dots), Composite("optionName", Interleaved(parts, dots)) @@ [parts |-> parts])
NewOptionNode(keyword, name, equals, val, semicolon) ==
  Composite("option", Present(<<keyword, name, equals, val, semicolon>>)) @@ [name |-> name, of |-> val]
NewCompactOptionNode(name, equals, val) ==
  Checked((equals = Nil) = (val = Nil), Composite("option", Present(<<name, equals, val>>)) @@ [name |-> name, of |-> val])
NewCompactOptionsNode(open, opts, commas, close) ==
  Checked((opts = <<>> => commas = <<>>) /\ OrTrailing(opts, commas),
          Composite("compactOptions", <<open>> \o Interleaved(opts, commas) \o <<close>>) @@ [options |-> opts])

-----------------------------------------------------------------------------
(* Ranges and reserved names *)

NewRangeNode(start, to, end, maxEnd) ==
  Checked(IF to = Nil THEN end = Nil /\ maxEnd = Nil ELSE (end = Nil) # (maxEnd = Nil),
          Composite("range", Present(<<start, to, end, maxEnd>>)) @@ [start |-> start, end |-> end, max |-> maxEnd])
RangeStart(n) == n.start
RangeEnd(n) == IF n.max # Nil THEN n.max ELSE IF n.end # Nil THEN n.end ELSE n.start

NewExtensionRangeNode(keyword, ranges, commas, opts, semicolon) ==
  Checked(semicolon # Nil /\ ranges # <<>> /\ Separated(ranges, commas),
          Composite("extensions", <<keyword>> \o Interleaved(ranges, commas) \o Present(<<opts, semicolon>>))
            @@ [ranges |-> ranges, options |-> opts])

\* NewReservedRangesNode, NewReservedNamesNode and NewReservedIdentifiersNode.
Reserved(keyword, items, commas, semicolon) ==
  Composite("reserved", <<keyword>> \o Interleaved(items, commas) \o Present(<<semicolon>>))
NewReservedRangesNode(keyword, ranges, commas, semicolon) ==
  Checked(semicolon # Nil /\ ranges # <<>> /\ Separated(ranges, commas),
          Reserved(keyword, ranges, commas, semicolon) @@ [ranges |-> ranges, names |-> <<>>, identifiers |-> <<>>])
NewReservedNamesNode(keyword, names, commas, semicolon) ==
  Checked(names # <<>> /\ Separated(names, commas),
          Reserved(keyword, names, commas, semicolon) @@ [ranges |-> <<>>, names |-> names, identifiers |-> <<>>])
NewReservedIdentifiersNode(keyword, names, commas, semicolon) ==
  Checked(names # <<>> /\ Separated(names, commas),
          Reserved(keyword, names, commas, semicolon) @@ [ranges |-> <<>>, names |-> <<>>, identifiers |-> names])

-----------------------------------------------------------------------------
(* Declarations *)

NewEmptyDeclNode(semicolon) == Composite("empty", <<semicolon>>)

\* A body allows some kinds of declarations only.
Allowed(decls, kinds) == \A i \in DOMAIN decls : decls[i].kind \in kinds

NewFieldNode(label, type, name, equals, tag, opts, semicolon) ==
  Composite("field", Present(<<label, type, name, equals, tag, opts, semicolon>>))
    @@ [label |-> label, type |-> type, name |-> name, tag |-> tag, options |-> opts]
MessageElements == {"option", "field", "mapField", "group", "oneof", "message", "enum", "extend", "extensions", "reserved", "empty"}
NewGroupNode(label, keyword, name, equals, tag, opts, open, decls, close) ==
  Checked(Allowed(decls, MessageElements),
          Composite("group", Present(<<label, keyword, name, equals, tag, opts, open>>) \o decls \o <<close>>)
            @@ [label |-> label, type |-> keyword, name |-> name, tag |-> tag, options |-> opts, decls |-> decls])
NewOneofNode(keyword, name, open, decls, close) ==
  Checked(Allowed(decls, {"option", "field", "group", "empty"}),
          Composite("oneof", <<keyword, name, open>> \o decls \o <<close>>) @@ [name |-> name, decls |-> decls])

NewMapTypeNode(keyword, open, keyType, comma, valType, close) ==
  Composite("mapType", <<keyword, open, keyType, comma, valType, close>>) @@ [key |-> keyType, value |-> valType]
NewMapFieldNode(mapType, name, equals, tag, opts, semicolon) ==
  Composite("mapField", Present(<<mapType, name, equals, tag, opts, semicolon>>))
    @@ [label |-> Nil, type |-> mapType, name |-> name, tag |-> tag, options |-> opts]

\* FieldTag: a field without a tag stands for it.
FieldTag(n) == IF n.tag = Nil THEN n ELSE n.tag

NewMessageNodeWithVisibility(visibility, keyword, name, open, decls, close) ==
  Checked(Allowed(decls, MessageElements),
          Composite("message", Present(<<visibility, keyword, name, open>>) \o decls \o <<close>>)
            @@ [visibility |-> visibility, name |-> name, decls |-> decls])
NewExtendNode(keyword, extendee, open, decls, close) ==
  Checked(Allowed(decls, {"field", "group", "empty"}),
          Composite("extend", <<keyword, extendee, open>> \o decls \o <<close>>) @@ [extendee |-> extendee, decls |-> decls])

NewEnumNodeWithVisibility(visibility, keyword, name, open, decls, close) ==
  Checked(Allowed(decls, {"option", "value", "reserved", "empty"}),
          Composite("enum", Present(<<visibility, keyword, name, open>>) \o decls \o <<close>>)
            @@ [visibility |-> visibility, name |-> name, decls |-> decls])
NewEnumValueNode(name, equals, number, opts, semicolon) ==
  Composite("value", Present(<<name, equals, number, opts, semicolon>>)) @@ [name |-> name, number |-> number, options |-> opts]

NewServiceNode(keyword, name, open, decls, close) ==
  Checked(Allowed(decls, {"option", "rpc", "empty"}),
          Composite("service", <<keyword, name, open>> \o decls \o <<close>>) @@ [name |-> name, decls |-> decls])
NewRPCTypeNode(open, stream, msgType, close) ==
  Composite("rpcType", Present(<<open, stream, msgType, close>>)) @@ [stream |-> stream, type |-> msgType]
NewRPCNode(keyword, name, input, returns, output, semicolon) ==
  Composite("rpc", Present(<<keyword, name, input, returns, output, semicolon>>))
    @@ [name |-> name, input |-> input, output |-> output, decls |-> <<>>, open |-> Nil]
NewRPCNodeWithBody(keyword, name, input, returns, output, open, decls, close) ==
  Checked(Allowed(decls, {"option", "empty"}),
          Composite("rpc", <<keyword, name, input, returns, output, open>> \o decls \o <<close>>)
            @@ [name |-> name, input |-> input, output |-> output, decls |-> decls, open |-> open])

-----------------------------------------------------------------------------
(* Files *)

NewSyntaxNode(keyword, equals, syntax, semicolon) ==
  Composite("syntax", Present(<<keyword, equals, syntax, semicolon>>)) @@ [syntax |-> syntax]
NewEditionNode(keyword, equals, edition, semicolon) ==
  Composite("edition", <<keyword, equals, edition, semicolon>>) @@ [syntax |-> edition]
NewImportNodeWithModifier(keyword, modifier, name, semicolon) ==
  Composite("import", Present(<<keyword, modifier, name, semicolon>>)) @@ [modifier |-> modifier, name |-> name]
NewPackageNode(keyword, name, semicolon) == Composite("package", Present(<<keyword, name, semicolon>>)) @@ [name |-> name]

newFileNode(header, decls, eof) ==
  Checked(Allowed(decls, {"package", "import", "option", "message", "enum", "extend", "service", "empty"}),
          Composite("file", Present(<<header>>) \o decls \o <<eof>>) @@ [header |-> header, decls |-> decls, eof |-> eof])

-----------------------------------------------------------------------------
(* The tree *)

\* Children's Start and End.
RECURSIVE Start(_)
Start(n) == IF n.children = <<>> THEN n.item ELSE Start(Head(n.children))
RECURSIVE End(_)
End(n) == IF n.children = <<>> THEN n.item ELSE End(Last(n.children))

\* Walk: a node before its children, those in order.
RECURSIVE Walk(_)
Walk(n) == <<n>> \o FlattenSeq([i \in DOMAIN n.children |-> Walk(n.children[i])])

\* RangeOptions of a node with a body, and of one with compact options.
OptionDecls(n) == SelectSeq(n.decls, LAMBDA d : d.kind = "option")
CompactOptions(n) == IF n.options = Nil THEN <<>> ELSE n.options.options
=============================================================================
