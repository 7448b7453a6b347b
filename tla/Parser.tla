------------------------------- MODULE Parser -------------------------------
(***************************************************************************)
(* The parser that goyacc makes of the grammar (parser/proto.y), with the  *)
(* AST nodes its actions make.  The grammar has no conflicts, so an input  *)
(* has one derivation at most; the model looks for it from the left: a     *)
(* stack of what is still expected, and the values ($1, $2, ...) of what   *)
(* was read.  A list that the grammar writes with its end first is written *)
(* with its head first here, which gives the same list.  The productions   *)
(* that recover from an unexpected token ("error") are left out; the ones  *)
(* that tolerate a malformed declaration are not.                          *)
(***************************************************************************)
EXTENDS Integers, Ast

CONSTANTS Inputs      \* the files: sequences of the texts of their tokens

VARIABLES input,      \* the tokens of the file that is parsed, or Nil
          read,       \* how many of them were read
          pending,    \* the symbols that are expected, and the actions to run between them
          values,     \* the values of the symbols that were read
          complaints  \* the number of syntax errors reported

parserVars == <<input, read, pending, values, complaints>>

-----------------------------------------------------------------------------
(* Tokens *)

Scalars == {"int32", "int64", "uint32", "uint64", "sint32", "sint64", "fixed32", "fixed64", "sfixed32", "sfixed64",
            "bool", "string"}
Cardinalities == {"required", "optional", "repeated"}
keywords ==
  Scalars \cup Cardinalities \cup
  {"syntax", "edition", "import", "weak", "public", "package", "option", "true", "false", "inf", "nan", "double", "float",
   "bytes", "group", "oneof", "map", "extensions", "to", "max", "reserved", "enum", "message", "extend", "service", "rpc",
   "stream", "returns", "export", "local"}
Marks == {";", ",", ".", ":", "=", "-", "(", ")", "{", "}", "[", "]", "<", ">", "/"}

\* What the literals stand for.  2^62 stands for an integer that has no negative of 64 bits.
IntLits == [t \in {"0", "1", "2", "3", "4", "5", "9", "19500", "huge"} |->
              CASE t = "0" -> 0 [] t = "1" -> 1 [] t = "2" -> 2 [] t = "3" -> 3 [] t = "4" -> 4 [] t = "5" -> 5
                [] t = "9" -> 9 [] t = "19500" -> 19500 [] t = "huge" -> 2000000000]
FloatLits == {"1.5"}
Huge == IntLits["huge"]

KindOf(t) ==
  CASE t \in keywords \cup Marks -> t
    [] t \in DOMAIN IntLits -> "_INT_LIT"
    [] t \in FloatLits -> "_FLOAT_LIT"
    [] SubSeq(t, 1, 1) = "'" -> "_STRING_LIT"
    [] OTHER -> "_NAME"
Leaf(tokens, i) ==
  LET kind == KindOf(tokens[i])
      text == tokens[i]
  IN [kind |-> kind, text |-> text, item |-> i, children |-> <<>>,
      val |-> IF kind = "_STRING_LIT" THEN SubSeq(text, 2, Len(text) - 1) ELSE text,
      num |-> IF kind = "_INT_LIT" THEN IntLits[text] ELSE 0]

\* The names that a declaration may start with, in each kind of body.
Words == keywords \cup {"_NAME"}
MsgKeywords == {"message", "enum", "oneof", "extensions", "reserved", "extend", "option", "group"} \cup Cardinalities
Classes ==
  [identifier |-> Words,
   msgElementName |-> Words \ (MsgKeywords \cup {"export", "local"}),
   extElementName |-> Words \ (Cardinalities \cup {"group"}),
   enumValueName |-> Words \ {"reserved", "option"},
   oneofElementName |-> Words \ (Cardinalities \cup {"group", "option"}),
   notGroupElementName |-> Words \ {"group"},
   mtdElementName |-> Words \ {"stream"},
   declIdent |-> {"enum", "message"},
   nonDeclIdent |-> Words \ {"enum", "message"},
   fieldCardinality |-> Cardinalities,
   mapKeyType |-> Scalars,
   visibility |-> {"export", "local"},
   modifier |-> {"weak", "public", "option"},
   special |-> {"inf", "nan"}]
Matching(symbol) == IF symbol \in DOMAIN Classes THEN Classes[symbol] ELSE {symbol}

-----------------------------------------------------------------------------
(* The grammar: what a symbol is made of, and the action that makes its value *)

P(symbols, do) == [symbols |-> symbols, do |-> do]
Is(symbol) == P(<<symbol>>, "it")

\* One item at least, with something between the items: the items, and then the rest.
ListOf(item, rest) == {P(<<item, rest>>, "list")}
RestOf(list, sep) == {P(<<>>, "end"), P(<<sep, list>>, "more")}
\* A separator after the last item is an error, but tolerated.
OrTrailingRest(list, sep) == RestOf(list, sep) \cup {P(<<sep>>, "trailing")}
\* Any number of items.
Many(item, items, do) == {P(<<>>, "none"), P(<<item, items>>, do)}

FileRules ==
  [file |-> {P(<<"header", "body">>, "file")},
   header |-> {P(<<>>, "nil"), Is("syntaxDecl"), Is("editionDecl")},
   body |-> {P(<<>>, "none"), P(<<"semicolons", "fileElement", "fileElements">>, "fileBody")},
   fileElements |-> Many("fileElement", "fileElements", "append"),
   fileElement |-> {Is("importDecl"), Is("packageDecl"), Is("optionDecl"), Is("messageDecl"), Is("enumDecl"),
                    Is("extensionDecl"), Is("serviceDecl")},
   absent |-> {P(<<>>, "nil")},
   semicolonList |-> {P(<<";", "semicolons">>, "cons")},
   semicolons |-> Many(";", "semicolons", "cons"),
   semicolon |-> {Is(";"), P(<<>>, "missing")},
   syntaxDecl |-> {P(<<"syntax", "=", "stringValue", ";">>, "syntax")},
   editionDecl |-> {P(<<"edition", "=", "stringValue", ";">>, "edition")},
   importDecl |-> {P(<<"import", m, "stringValue", "semicolons">>, "import") : m \in {"absent", "modifier"}},
   packageDecl |-> {P(<<"package", "qualifiedIdentifier", "semicolons">>, "package")}]

NameRules ==
  [qualifiedIdentifier |-> ListOf("identifier", "identRest"),
   identRest |-> RestOf("qualifiedIdentifier", "."),
   qualifiedIdentifierDot |-> ListOf("identifier", "identDotRest"),
   identDotRest |-> OrTrailingRest("qualifiedIdentifierDot", "."),
   msgElementIdent |-> ListOf("msgElementName", "identRest"),
   extElementIdent |-> ListOf("extElementName", "identRest"),
   oneofElementIdent |-> ListOf("oneofElementName", "identRest"),
   notGroupElementIdent |-> ListOf("notGroupElementName", "identRest"),
   mtdElementIdent |-> ListOf("mtdElementName", "mtdRest"),
   mtdRest |-> OrTrailingRest("mtdElementIdent", ".")]

TypeRules ==
  [typeName |-> {P(<<"absent", "qualifiedIdentifierDot">>, "typeName"), P(<<".", "qualifiedIdentifierDot">>, "typeName")},
   msgElementTypeIdent |-> {P(<<"absent", "msgElementIdent">>, "typeName"), P(<<".", "qualifiedIdentifier">>, "typeName"),
                            P(<<"visibility", ".", "qualifiedIdentifier">>, "prefix")},
   extElementTypeIdent |-> {P(<<"absent", "extElementIdent">>, "typeName"), P(<<".", "qualifiedIdentifier">>, "typeName")},
   oneofElementTypeIdent |-> {P(<<"absent", "oneofElementIdent">>, "typeName"), P(<<".", "qualifiedIdentifier">>, "typeName")},
   notGroupElementTypeIdent |-> {P(<<"absent", "notGroupElementIdent">>, "typeName"),
                                 P(<<".", "qualifiedIdentifier">>, "typeName")},
   mtdElementTypeIdent |-> {P(<<"absent", "mtdElementIdent">>, "typeName"), P(<<".", "qualifiedIdentifierDot">>, "typeName")}]

OptionRules ==
  [oneofOptionDecl |-> {P(<<"option", "optionName", "=", "optionValue", "semicolon">>, "oneofOption")},
   optionDecl |-> {P(<<"option", "optionName", "=", "optionValue", "semicolons">>, "option")},
   optionName |-> ListOf("optionNamePart", "optionNameRest"),
   optionNameRest |-> OrTrailingRest("optionName", "."),
   optionNamePart |-> {P(<<"identifier">>, "field ref"), P(<<"(", "typeName", ")">>, "extension ref")},
   optionValue |-> {Is("stringValue"), Is("numLit"), P(<<"-", "special">>, "signed"), Is("identifier"),
                    Is("messageLiteralWithBraces")},
   numLit |-> {Is("_FLOAT_LIT"), P(<<"-", "_FLOAT_LIT">>, "signed"), Is("_INT_LIT"), P(<<"-", "_INT_LIT">>, "negative")},
   stringLit |-> {P(<<"_STRING_LIT", "strings">>, "cons")},
   strings |-> {P(<<>>, "none"), Is("stringLit")},
   stringValue |-> {P(<<"stringLit">>, "string")}]

CompactRules ==
  [compactOptions |-> {P(<<"[", "compactOptionDecls", "]">>, "compact options"), P(<<"[", "]">>, "no options")},
   compactOptionDecls |-> ListOf("compactOption", "compactOptionRest"),
   compactOptionRest |-> OrTrailingRest("compactOptionDecls", ","),
   compactOption |-> {P(<<"optionName", "=", "optionValue">>, "compact option"), P(<<"optionName">>, "no value")},
   options |-> {P(<<>>, "nil"), Is("compactOptions")}]

LiteralRules ==
  [messageLiteralWithBraces |-> {P(<<"{", "messageTextFormat", "}">>, "message literal")},
   messageTextFormat |-> Many("messageLiteralFieldEntry", "messageTextFormat", "cons"),
   messageLiteralFieldEntry |-> {P(<<"messageLiteralField", d>>, "pair") : d \in {"absent", ",", ";"}},
   messageLiteralField |-> {P(<<"messageLiteralFieldName", ":", "fieldValue">>, "message field"),
                            P(<<"messageLiteralFieldName", "absent", "messageValue">>, "message field")},
   messageLiteralFieldName |-> {P(<<"identifier">>, "field ref"), P(<<"[", "bracketedName", "]">>, "extension ref"),
                                P(<<"[", "bracketedName", "/", "bracketedName", "]">>, "any ref")},
   bracketedName |-> {P(<<"absent", "qualifiedIdentifierDot">>, "typeName")},
   fieldValue |-> {Is("fieldScalarValue"), Is("messageLiteral"), Is("listLiteral")},
   fieldScalarValue |-> {Is("stringValue"), Is("numLit"), P(<<"-", "identifier">>, "signed name"), Is("identifier")},
   messageValue |-> {Is("messageLiteral"), Is("listOfMessagesLiteral")},
   messageLiteral |-> {Is("messageLiteralWithBraces"), P(<<"<", "messageTextFormat", ">">>, "message literal")},
   listLiteral |-> {P(<<"[", "listElements", "]">>, "list literal"), P(<<"[", "noElements", "]">>, "list literal")},
   noElements |-> {P(<<>>, "end")},
   listElements |-> ListOf("listElement", "listRest"),
   listRest |-> RestOf("listElements", ","),
   listElement |-> {Is("fieldScalarValue"), Is("messageLiteral")},
   listOfMessagesLiteral |-> {P(<<"[", "messageLiterals", "]">>, "list literal"), P(<<"[", "noElements", "]">>, "list literal")},
   messageLiterals |-> ListOf("messageLiteral", "messageRest"),
   messageRest |-> RestOf("messageLiterals", ",")]

GroupRules ==
  [number |-> {P(<<"=", "_INT_LIT">>, "pair")},
   noNumber |-> {P(<<"absent", "absent">>, "pair")},
   tag |-> {Is("number"), Is("noNumber")},
   groupDecl |->
     {P(<<"fieldCardinality", "group", "identifier", "number", "options", "{", "messageBody", "}">>, "group")},
   messageGroupDecl |->
     {P(<<"fieldCardinality", "group", "identifier", "tag", "options", "{", "messageBody", "}", "semicolons">>, "message group")},
   oneofDecl |-> {P(<<"oneof", "identifier", "{", "oneofBody", "}", "semicolons">>, "oneof")},
   oneofBody |-> Many("oneofElement", "oneofBody", "cons"),
   oneofElement |-> {Is("oneofOptionDecl"), Is("oneofFieldDecl"), Is("oneofGroupDecl")},
   oneofFieldDecl |-> {P(<<"absent", "oneofElementTypeIdent", "identifier", "tag", "options", "semicolon">>, "plain field")},
   oneofGroupDecl |-> {P(<<"absent", "group", "identifier", "tag", "options", "{", "messageBody", "}">>, "group")},
   mapFieldDecl |-> {P(<<"mapType", "identifier", "tag", "options", "semicolons">>, "map field")},
   mapType |-> {P(<<"map", "<", "mapKeyType", ",", "typeName", ">">>, "map type")}]

FieldRules ==
  [messageFieldDecl |->
     {P(<<"fieldCardinality", "notGroupElementTypeIdent", "identifier", "tag", "options", "semicolons">>, "field"),
      P(<<"absent", "msgElementTypeIdent", "identifier", "tag", "options", "semicolons">>, "field"),
      P(<<"absent", "visibility", "identifier", "number", "options", "semicolons">>, "field"),
      P(<<"absent", "visibility", "identifier", "noNumber", "compactOptions", "semicolons">>, "field"),
      P(<<"absent", "visibility", "nonDeclIdent", "noNumber", "absent", "semicolons">>, "field"),
      P(<<"absent", "visibility", "declIdent", "noNumber", "absent", "semicolonList">>, "field")},
   extensionDecl |-> {P(<<"extend", "typeName", "{", "extensionBody", "}", "semicolons">>, "extend")},
   extensionBody |-> Many("extensionElement", "extensionBody", "cons"),
   extensionElement |-> {Is("extensionFieldDecl"), Is("groupDecl")},
   extensionFieldDecl |->
     {P(<<"fieldCardinality", "notGroupElementTypeIdent", "identifier", "number", "options", "semicolon">>, "plain field"),
      P(<<"absent", "extElementTypeIdent", "identifier", "number", "options", "semicolon">>, "plain field")}]

RangeRules ==
  [extensionRangeDecl |-> {P(<<"extensions", "tagRanges", "absent", ";", "semicolons">>, "extensions"),
                           P(<<"extensions", "tagRanges", "compactOptions", "semicolons">>, "extensions with options")},
   tagRanges |-> ListOf("tagRange", "tagRest"),
   tagRest |-> RestOf("tagRanges", ","),
   tagRange |-> {P(<<"_INT_LIT", end>>, "range") : end \in {"noEnd", "intEnd", "maxEnd"}},
   noEnd |-> {P(<<"absent", "absent", "absent">>, "all")},
   intEnd |-> {P(<<"to", "_INT_LIT", "absent">>, "all")},
   enumEnd |-> {P(<<"to", "enumValueNumber", "absent">>, "all")},
   maxEnd |-> {P(<<"to", "absent", "max">>, "all")},
   enumValueRanges |-> ListOf("enumValueRange", "enumRest"),
   enumRest |-> RestOf("enumValueRanges", ","),
   enumValueRange |-> {P(<<"enumValueNumber", end>>, "range") : end \in {"noEnd", "enumEnd", "maxEnd"}},
   enumValueNumber |-> {Is("_INT_LIT"), P(<<"-", "_INT_LIT">>, "negative number")},
   msgReserved |-> {P(<<"reserved", "tagRanges", ";", "semicolons">>, "reserved ranges"), Is("reservedNames")},
   enumReserved |-> {P(<<"reserved", "enumValueRanges", ";", "semicolons">>, "reserved ranges"), Is("reservedNames")},
   reservedNames |-> {P(<<"reserved", "fieldNameStrings", "semicolons">>, "reserved names"),
                      P(<<"reserved", "fieldNameIdents", "semicolons">>, "reserved identifiers")},
   fieldNameStrings |-> ListOf("stringValue", "stringRest"),
   stringRest |-> RestOf("fieldNameStrings", ","),
   fieldNameIdents |-> ListOf("identifier", "fieldIdentRest"),
   fieldIdentRest |-> RestOf("fieldNameIdents", ",")]

EnumRules ==
  [enumDecl |-> {P(<<v, "enum", "identifier", "{", "enumBody", "}", "semicolons">>, "enum") : v \in {"absent", "visibility"}},
   enumBody |-> {P(<<"semicolons", "enumElements">>, "body")},
   enumElements |-> Many("enumElement", "enumElements", "append"),
   enumElement |-> {Is("optionDecl"), Is("enumValueDecl"), Is("enumReserved")},
   enumValueDecl |-> {P(<<"enumValueName", "=", "enumValueNumber", "options", "semicolons">>, "enum value")}]

MessageRules ==
  [messageDecl |->
     {P(<<v, "message", "identifier", "{", "messageBody", "}", "semicolons">>, "message") : v \in {"absent", "visibility"}},
   messageBody |-> {P(<<"semicolons", "messageElements">>, "body")},
   messageElements |-> Many("messageElement", "messageElements", "append"),
   messageElement |-> {Is(d) : d \in {"messageFieldDecl", "enumDecl", "messageDecl", "extensionDecl", "extensionRangeDecl",
                                      "messageGroupDecl", "optionDecl", "oneofDecl", "mapFieldDecl", "msgReserved"}}]

ServiceRules ==
  [serviceDecl |-> {P(<<"service", "identifier", "{", "serviceBody", "}", "semicolons">>, "service")},
   serviceBody |-> {P(<<"semicolons", "serviceElements">>, "body")},
   serviceElements |-> Many("serviceElement", "serviceElements", "append"),
   serviceElement |-> {Is("optionDecl"), Is("methodDecl")},
   methodDecl |->
     {P(<<"rpc", "identifier", "methodMessageType", "returns", "methodMessageType", "semicolons">>, "rpc"),
      P(<<"rpc", "identifier", "methodMessageType", "returns", "methodMessageType", "{", "methodBody", "}", "semicolons">>,
        "rpc with body")},
   methodMessageType |-> {P(<<"(", "stream", "typeName", ")">>, "rpc type"),
                          P(<<"(", "absent", "mtdElementTypeIdent", ")">>, "rpc type")},
   methodBody |-> {P(<<"semicolons", "methodElements">>, "body")},
   methodElements |-> Many("methodElement", "methodElements", "append"),
   methodElement |-> {Is("optionDecl")}]

Rules ==
  FileRules @@ NameRules @@ TypeRules @@ OptionRules @@ CompactRules @@ LiteralRules @@ GroupRules @@ RangeRules @@ EnumRules
    @@ MessageRules @@ FieldRules @@ ServiceRules

-----------------------------------------------------------------------------
(* The actions: v[1], v[2], ... are the values of the production's symbols *)

\* Mutant: the semicolons after the one that is required are dropped.
FirstOnly(node, runes) == <<node>>

toElements(node, runes) == <<node>> \o [i \in DOMAIN runes |-> NewEmptyDeclNode(runes[i])]
prependRunes(runes, elements) == [i \in DOMAIN runes |-> NewEmptyDeclNode(runes[i])] \o elements

\* requireSemicolon: the first one, or Nil, which is an error.
Semi(semicolons) == IF semicolons = <<>> THEN Nil ELSE Head(semicolons)
Extra(semicolons) == IF semicolons = <<>> THEN <<>> ELSE Tail(semicolons)

toIdentValueNode(leadingDot, list) ==
  IF Len(list.items) = 1 /\ leadingDot = Nil THEN list.items[1] ELSE NewCompoundIdentNode(leadingDot, list.items, list.seps)
toStringValueNode(strs) == IF Len(strs) = 1 THEN strs[1] ELSE NewCompoundLiteralStringNode(strs)
OptionName(list) == NewOptionNameNode(list.items, list.seps)

ListAct(do, v) ==
  CASE do = "it" -> v[1]
    [] do = "nil" -> Nil
    [] do = "missing" -> Nil
    [] do = "none" -> <<>>
    [] do = "all" -> v
    [] do = "pair" -> v
    [] do = "cons" -> <<v[1]>> \o v[2]
    [] do = "append" -> v[1] \o v[2]
    [] do = "end" -> [items |-> <<>>, seps |-> <<>>]
    [] do = "trailing" -> [items |-> <<>>, seps |-> <<v[1]>>]
    [] do = "more" -> [items |-> v[2].items, seps |-> <<v[1]>> \o v[2].seps]
    [] do = "list" -> [items |-> <<v[1]>> \o v[2].items, seps |-> v[2].seps]
    [] do = "body" -> prependRunes(v[1], v[2])
    [] do = "fileBody" -> prependRunes(v[1], v[2] \o v[3])

FileAct(do, v, eof) ==
  CASE do = "file" -> newFileNode(v[1], v[2], eof)
    [] do = "syntax" -> NewSyntaxNode(v[1], v[2], v[3], v[4])
    [] do = "edition" -> NewEditionNode(v[1], v[2], v[3], v[4])
    [] do = "import" -> toElements(NewImportNodeWithModifier(v[1], v[2], v[3], Semi(v[4])), Extra(v[4]))
    [] do = "package" -> toElements(NewPackageNode(v[1], toIdentValueNode(Nil, v[2]), Semi(v[3])), Extra(v[3]))

TypeNameAct(do, v) ==
  CASE do = "typeName" -> toIdentValueNode(v[1], v[2])
    [] do = "prefix" -> toIdentValueNode(Nil, [items |-> <<v[1]>> \o v[3].items, seps |-> <<v[2]>> \o v[3].seps])

OptionAct(do, v) ==
  CASE do = "oneofOption" -> NewOptionNode(v[1], OptionName(v[2]), v[3], v[4], v[5])
    [] do = "option" -> toElements(NewOptionNode(v[1], OptionName(v[2]), v[3], v[4], Semi(v[5])), Extra(v[5]))
    [] do = "field ref" -> NewFieldReferenceNode(v[1])
    [] do = "extension ref" -> NewExtensionFieldReferenceNode(v[1], v[2], v[3])
    [] do = "string" -> toStringValueNode(v[1])
    [] do = "signed" -> NewSignedFloatLiteralNode(v[1], v[2])
    [] do = "negative" ->
         IF v[2].num >= Huge THEN NewSignedFloatLiteralNode(v[1], v[2]) ELSE NewNegativeIntLiteralNode(v[1], v[2])

LiteralAct(do, v) ==
  CASE do = "any ref" -> NewAnyTypeReferenceNode(v[1], v[2], v[3], v[4], v[5])
    [] do = "signed name" -> NewSignedFloatLiteralNode(v[1], v[2])
    [] do = "message literal" ->
         NewMessageLiteralNode(v[1], [i \in DOMAIN v[2] |-> v[2][i][1]], [i \in DOMAIN v[2] |-> v[2][i][2]], v[3])
    [] do = "message field" -> NewMessageFieldNode(v[1], v[2], v[3])
    [] do = "list literal" -> NewArrayLiteralNode(v[1], v[2].items, v[2].seps, v[3])

CompactAct(do, v) ==
  CASE do = "compact options" -> NewCompactOptionsNode(v[1], v[2].items, v[2].seps, v[3])
    [] do = "no options" -> NewCompactOptionsNode(v[1], <<>>, <<>>, v[2])
    [] do = "compact option" -> NewCompactOptionNode(OptionName(v[1]), v[2], v[3])
    [] do = "no value" -> NewCompactOptionNode(OptionName(v[1]), Nil, Nil)

GroupAct(do, v) ==
  CASE do = "group" -> NewGroupNode(v[1], v[2], v[3], v[4][1], v[4][2], v[5], v[6], v[7], v[8])
    [] do = "message group" -> toElements(NewGroupNode(v[1], v[2], v[3], v[4][1], v[4][2], v[5], v[6], v[7], v[8]), v[9])
    [] do = "oneof" -> toElements(NewOneofNode(v[1], v[2], v[3], v[4], v[5]), v[6])
    [] do = "map field" -> toElements(NewMapFieldNode(v[1], v[2], v[3][1], v[3][2], v[4], Semi(v[5])), Extra(v[5]))
    [] do = "map type" -> NewMapTypeNode(v[1], v[2], v[3], v[4], v[5], v[6])

FieldAct(do, v) ==
  CASE do = "field" -> toElements(NewFieldNode(v[1], v[2], v[3], v[4][1], v[4][2], v[5], Semi(v[6])), Extra(v[6]))
    [] do = "plain field" -> NewFieldNode(v[1], v[2], v[3], v[4][1], v[4][2], v[5], v[6])
    [] do = "extend" -> toElements(NewExtendNode(v[1], v[2], v[3], v[4], v[5]), v[6])

RangeAct(do, v) ==
  CASE do = "extensions" -> toElements(NewExtensionRangeNode(v[1], v[2].items, v[2].seps, v[3], v[4]), v[5])
    [] do = "extensions with options" ->
         toElements(NewExtensionRangeNode(v[1], v[2].items, v[2].seps, v[3], Semi(v[4])), Extra(v[4]))
    [] do = "range" -> NewRangeNode(v[1], v[2][1], v[2][2], v[2][3])
    [] do = "negative number" -> NewNegativeIntLiteralNode(v[1], v[2])
    [] do = "reserved ranges" -> toElements(NewReservedRangesNode(v[1], v[2].items, v[2].seps, v[3]), v[4])
    [] do = "reserved names" -> toElements(NewReservedNamesNode(v[1], v[2].items, v[2].seps, Semi(v[3])), Extra(v[3]))
    [] do = "reserved identifiers" ->
         toElements(NewReservedIdentifiersNode(v[1], v[2].items, v[2].seps, Semi(v[3])), Extra(v[3]))

EnumAct(do, v) ==
  CASE do = "enum" -> toElements(NewEnumNodeWithVisibility(v[1], v[2], v[3], v[4], v[5], v[6]), v[7])
    [] do = "enum value" -> toElements(NewEnumValueNode(v[1], v[2], v[3], v[4], Semi(v[5])), Extra(v[5]))
MessageAct(v) == toElements(NewMessageNodeWithVisibility(v[1], v[2], v[3], v[4], v[5], v[6]), v[7])

ServiceAct(do, v) ==
  CASE do = "service" -> toElements(NewServiceNode(v[1], v[2], v[3], v[4], v[5]), v[6])
    [] do = "rpc" -> toElements(NewRPCNode(v[1], v[2], v[3], v[4], v[5], Semi(v[6])), Extra(v[6]))
    [] do = "rpc with body" -> toElements(NewRPCNodeWithBody(v[1], v[2], v[3], v[4], v[5], v[6], v[7], v[8]), v[9])
    [] do = "rpc type" -> NewRPCTypeNode(v[1], v[2], v[3], v[4])

ListActs == {"it", "nil", "missing", "none", "all", "pair", "cons", "append", "end", "trailing", "more", "list", "body", "fileBody"}
FileActs == {"file", "syntax", "edition", "import", "package"}
LiteralActs == {"any ref", "signed name", "message literal", "message field", "list literal"}
CompactActs == {"compact options", "no options", "compact option", "no value"}
GroupActs == {"group", "message group", "map field", "map type", "oneof"}
RangeActs == {"extensions", "extensions with options", "range", "negative number", "reserved ranges", "reserved names",
              "reserved identifiers"}
ServiceActs == {"service", "rpc", "rpc with body", "rpc type"}
Act(do, v, eof) ==
  CASE do \in ListActs -> ListAct(do, v)
    [] do \in FileActs -> FileAct(do, v, eof)
    [] do \in {"typeName", "prefix"} -> TypeNameAct(do, v)
    [] do \in LiteralActs -> LiteralAct(do, v)
    [] do \in CompactActs -> CompactAct(do, v)
    [] do \in GroupActs -> GroupAct(do, v)
    [] do \in {"field", "plain field", "extend"} -> FieldAct(do, v)
    [] do \in RangeActs -> RangeAct(do, v)
    [] do \in {"enum", "enum value"} -> EnumAct(do, v)
    [] do = "message" -> MessageAct(v)
    [] do \in ServiceActs -> ServiceAct(do, v)
    [] OTHER -> OptionAct(do, v)

\* The action reports an error, and goes on.  A semicolon that is missing is one, and so is a name after "-".
Semicolons(do, v) ==
  CASE do \in {"import", "extensions with options"} -> v[4]
    [] do \in {"package", "reserved names", "reserved identifiers"} -> v[3]
    [] do \in {"option", "map field", "enum value"} -> v[5]
    [] do \in {"field", "rpc"} -> v[6]
    [] OTHER -> <<Nil>>
Complains(do, v) ==
  \/ do \in {"missing", "trailing", "no options", "no value"}
  \/ Semicolons(do, v) = <<>>
  \/ do = "signed name" /\ v[2].val \notin {"inf", "infinity", "nan"}

-----------------------------------------------------------------------------
(* The behaviours *)

\* The tokens that may come first, and whether there may be none.
RECURSIVE Nullable(_)
Nullable(symbol) ==
  symbol \in DOMAIN Rules /\ \E p \in Rules[symbol] : \A i \in DOMAIN p.symbols : Nullable(p.symbols[i])
RECURSIVE FirstOf(_)
FirstOf(symbols) ==
  IF symbols = <<>> THEN {}
  ELSE (IF Head(symbols) \in DOMAIN Rules THEN UNION {FirstOf(p.symbols) : p \in Rules[Head(symbols)]} ELSE Matching(Head(symbols)))
         \cup (IF Nullable(Head(symbols)) THEN FirstOf(Tail(symbols)) ELSE {})
\* The productions of each symbol, each with the tokens that it may start with; "any" when it may be empty.
Predicted ==
  [symbol \in DOMAIN Rules |->
     {[p |-> p, first |-> FirstOf(p.symbols), empty |-> \A i \in DOMAIN p.symbols : Nullable(p.symbols[i])] : p \in Rules[symbol]}]

Symbol(s) == [symbol |-> s]
Run(p) == [do |-> p.do, n |-> Len(p.symbols)]
Eof == [kind |-> "eof", text |-> "", val |-> "", item |-> Len(input) + 1, children |-> <<>>, num |-> 0]
Ahead == IF read < Len(input) THEN KindOf(input[read + 1]) ELSE "eof"
Expecting == input # Nil /\ pending # <<>> /\ "symbol" \in DOMAIN Head(pending)

ParserInit == input = Nil /\ read = 0 /\ pending = <<>> /\ values = <<>> /\ complaints = 0

Parse ==
  /\ input = Nil
  /\ input' \in Inputs
  /\ pending' = <<Symbol("file")>>
  /\ UNCHANGED <<read, values, complaints>>

Expand ==
  /\ Expecting /\ Head(pending).symbol \in DOMAIN Rules
  /\ \E q \in Predicted[Head(pending).symbol] :
       /\ q.empty \/ Ahead \in q.first
       /\ pending' = [i \in DOMAIN q.p.symbols |-> Symbol(q.p.symbols[i])] \o <<Run(q.p)>> \o Tail(pending)
  /\ UNCHANGED <<input, read, values, complaints>>

Shift ==
  /\ Expecting /\ Head(pending).symbol \notin DOMAIN Rules
  /\ Ahead \in Matching(Head(pending).symbol)
  /\ read' = read + 1
  /\ pending' = Tail(pending)
  /\ values' = Append(values, Leaf(input, read + 1))
  /\ UNCHANGED <<input, complaints>>

Reduce ==
  /\ pending # <<>> /\ ~Expecting
  /\ \E v \in {SubSeq(values, Len(values) - Head(pending).n + 1, Len(values))} :
       /\ values' = SubSeq(values, 1, Len(values) - Head(pending).n) \o <<Act(Head(pending).do, v, Eof)>>
       /\ complaints' = IF Complains(Head(pending).do, v) THEN complaints + 1 ELSE complaints
  /\ pending' = Tail(pending)
  /\ UNCHANGED <<input, read>>

ParserNext == Parse \/ Expand \/ Shift \/ Reduce

Parsed == input # Nil /\ pending = <<>> /\ read = Len(input)

\* A file that is parsed has a tree; no constructor refused its arguments.  The
\* leaves of the tree are tokens in the order of the file, and all of them unless
\* an error was reported.
ParseIsExact ==
  Parsed =>
    LET leaves == SelectSeq(Walk(values[1]), LAMBDA n : n.children = <<>>)
    IN /\ \A i \in DOMAIN leaves : leaves[i].kind # "panic"
       /\ \A i \in 1..Len(leaves) - 1 : leaves[i].item < leaves[i + 1].item
       /\ complaints = 0 => Len(leaves) = Len(input) + 1
=============================================================================
