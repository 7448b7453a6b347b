---------------------------- MODULE ParseResults ----------------------------
(***************************************************************************)
(* What is made of a file that is parsed: its result, validated            *)
(* (parser.ResultFromAST), and copies of it (parser/clone.go).             *)
(***************************************************************************)
EXTENDS ParserValidate

VARIABLE result  \* the result, whether it was accepted, and the index of its copy; Nil before they are made

-----------------------------------------------------------------------------
(* Elements *)

Below(path, name, i) == path \o <<name, i>>

\* Every indexed element there is, whatever its kind, with its path.
Parts == {"messages", "nested", "fields", "extensions", "oneofs", "enums", "values", "services", "methods", "ranges",
          "reservedRanges", "options", "names"}
RECURSIVE Elements(_, _)
Elements(e, path) ==
  {<<path, e>>}
    \cup UNION {UNION {Elements(e[p][i], Below(path, p, i)) : i \in DOMAIN e[p]} : p \in Parts \cap DOMAIN e}
IndexOf(fd) ==
  {<<x[1], x[2].of>> : x \in Elements(fd, <<>>)}
    \cup {<<Append(x[1], "exts"), x[2].exts>> : x \in {y \in Elements(fd, <<>>) : "exts" \in DOMAIN y[2]}}
Errors(fd) == {x \in Elements(fd, <<>>) : "bad" \in DOMAIN x[2] /\ x[2].bad > 0}

-----------------------------------------------------------------------------
(* Copies *)

\* The index of a copy, from the paths of its elements to their nodes.  The
\* elements of the original and of the copy are visited side by side.
updateNodeIndex(e, path) == {<<path, e.of>>}
recreateNodeIndexForOptions(opts, path) ==
  UNION {updateNodeIndex(opts[i], Below(path, "options", i))
           \cup UNION {updateNodeIndex(opts[i].names[j], Below(Below(path, "options", i), "names", j)) : j \in DOMAIN opts[i].names}
         : i \in DOMAIN opts}
updateNodeIndexWithOptions(e, path) == updateNodeIndex(e, path) \cup recreateNodeIndexForOptions(e.options, path)
UpdateEach(elements, name, path) == UNION {updateNodeIndexWithOptions(elements[i], Below(path, name, i)) : i \in DOMAIN elements}
UpdateRanges(ranges, path) == UNION {updateNodeIndex(ranges[i], Below(path, "reservedRanges", i)) : i \in DOMAIN ranges}
UpdateEnds(ranges, path) == {<<Append(Below(path, "ranges", i), "exts"), ranges[i].exts>> : i \in DOMAIN ranges}

\* Mutant: the reserved ranges of enums are not visited.
ValuesOnly(e, path) == updateNodeIndexWithOptions(e, path) \cup UpdateEach(e.values, "values", path)
recreateNodeIndexForEnum(e, path) ==
  updateNodeIndexWithOptions(e, path) \cup UpdateEach(e.values, "values", path) \cup UpdateRanges(e.reservedRanges, path)
RECURSIVE recreateNodeIndexForMessage(_, _)
recreateNodeIndexForMessage(m, path) ==
  updateNodeIndexWithOptions(m, path) \cup UpdateEach(m.fields, "fields", path) \cup UpdateEach(m.oneofs, "oneofs", path)
    \cup UpdateEnds(m.ranges, path) \cup UpdateEach(m.ranges, "ranges", path) \cup UpdateRanges(m.reservedRanges, path)
    \cup UNION {recreateNodeIndexForMessage(m.nested[i], Below(path, "nested", i)) : i \in DOMAIN m.nested}
    \cup UNION {recreateNodeIndexForEnum(m.enums[i], Below(path, "enums", i)) : i \in DOMAIN m.enums}
    \cup UpdateEach(m.extensions, "extensions", path)
recreateNodeIndexForFile(fd) ==
  updateNodeIndexWithOptions(fd, <<>>)
    \cup UNION {recreateNodeIndexForMessage(fd.messages[i], Below(<<>>, "messages", i)) : i \in DOMAIN fd.messages}
    \cup UNION {recreateNodeIndexForEnum(fd.enums[i], Below(<<>>, "enums", i)) : i \in DOMAIN fd.enums}
    \cup UpdateEach(fd.extensions, "extensions", <<>>)
    \cup UpdateEach(fd.services, "services", <<>>)
    \cup UNION {UpdateEach(fd.services[i].methods, "methods", Below(<<>>, "services", i)) : i \in DOMAIN fd.services}

-----------------------------------------------------------------------------
(* The result *)

ResultInit == result = Nil

\* ResultFromAST, for a file without syntax errors; labels are filled in after validation.
ResultFromAST ==
  /\ result = Nil
  /\ Parsed /\ complaints = 0
  /\ \E fd \in {createFileDescriptor(values[1])} :
       result' = [proto |-> fillInMissingLabels(fd), accepted |-> Errors(fd) = {} /\ validateBasic(fd), copy |-> Nil]
  /\ UNCHANGED parserVars
Clone ==
  /\ result # Nil /\ result.copy = Nil
  /\ result' = [result EXCEPT !.copy = recreateNodeIndexForFile(result.proto)]
  /\ UNCHANGED parserVars

ResultNext == ResultFromAST \/ Clone

-----------------------------------------------------------------------------
(* Properties *)

\* How many elements there are for a node: the options of an extension node
\* are those of each of its ranges.
Declarations == {"message", "enum", "value", "service", "rpc", "oneof", "field", "group", "mapField", "option", "range"}
RECURSIVE Origin(_)
Origin(of) == IF "from" \in DOMAIN of THEN Origin(of.from) ELSE of
Place(of) == Start(Origin(of))
IsSynthetic(o) == o.of.kind = "syntheticOneof"
Ordered(elements) == \A i \in 1..Len(elements) - 1 : Place(elements[i].of) <= Place(elements[i + 1].of)

\* The oneofs of a message are the declared ones and then those of the proto3 optional fields,
\* and the oneof of a field is the one that it is declared in, or its own.
OneofsAreExact(m) ==
  /\ \A i, j \in DOMAIN m.oneofs : i < j /\ IsSynthetic(m.oneofs[i]) => IsSynthetic(m.oneofs[j])
  /\ Ordered(SelectSeq(m.oneofs, IsSynthetic)) /\ Ordered(SelectSeq(m.oneofs, LAMBDA o : ~IsSynthetic(o)))
  /\ \A i \in DOMAIN m.fields :
       LET f == m.fields[i]
           declaring == {k \in DOMAIN m.oneofs : ~IsSynthetic(m.oneofs[k]) /\ \E n \in DOMAIN m.oneofs[k].of.decls : m.oneofs[k].of.decls[n] = f.of}
           own == {k \in DOMAIN m.oneofs : IsSynthetic(m.oneofs[k]) /\ m.oneofs[k].of.from = f.of}
       IN /\ f.proto3Optional = (own # {})
          /\ IF f.oneof = Nil THEN declaring \cup own = {} ELSE declaring \cup own = {f.oneof + 1}
  /\ \A i, j \in DOMAIN m.oneofs : IsSynthetic(m.oneofs[i]) /\ j # i => m.oneofs[i].name # m.oneofs[j].name
  /\ \A i \in DOMAIN m.oneofs :
       IsSynthetic(m.oneofs[i]) => m.oneofs[i].name \notin NamesIn([m EXCEPT !.oneofs = <<>>])

\* In a file without errors, each declaration has its element, a group and a map
\* field a message too, in the order of the file; oneofs are exact; and a copy
\* has a node for every element that the original has one for, and the same.
ResultIsFaithful ==
  result # Nil =>
    LET els == Elements(result.proto, <<>>)
        nodes == {n \in ToSet(Walk(values[1])) : n.children # <<>> /\ n.kind \in Declarations}
        indexed(n) == Cardinality({x \in els : x[2].of = n})
        exts == {n \in ToSet(Walk(values[1])) : n.children # <<>> /\ n.kind = "extensions"}
        times(n) == IF \E e \in exts : n \in ToSet(CompactOptions(e))
                    THEN Len((CHOOSE e \in exts : n \in ToSet(CompactOptions(e))).ranges) ELSE 1
    IN /\ Errors(result.proto) = {} =>
            /\ \A n \in nodes : indexed(n) = times(n)
            /\ \A n \in nodes : n.kind = "group" => indexed(Synthetic("groupMessage", n)) = 1
            /\ \A n \in nodes : n.kind = "mapField" => indexed(Synthetic("mapMessage", n)) = 1
            /\ \A x \in els : \A p \in (Parts \ {"oneofs"}) \cap DOMAIN x[2] : Ordered(x[2][p])
            /\ \A x \in els : "oneofs" \in DOMAIN x[2] => OneofsAreExact(x[2])
       /\ result.copy # Nil => result.copy = IndexOf(result.proto)

-----------------------------------------------------------------------------
(* What a valid file is, from its tree *)

Composites(file) == {n \in ToSet(Walk(file)) : n.children # <<>>}
Inside(n, m) == Start(m) <= Start(n) /\ End(n) <= End(m) /\ n # m
Enclosing(n, file) == {m \in Composites(file) : m.kind \in {"message", "group"} /\ Inside(n, m)}
Plain(opt, name) == Len(opt.name.parts) = 1 /\ opt.name.parts[1].form = "field" /\ opt.name.parts[1].name.val = name
Having(opts, name) == {o \in ToSet(opts) : Plain(o, name)}
\* An option that has one of two values when it is there.
BoolOption(opts, name) ==
  Cardinality(Having(opts, name)) <= 1
    /\ \A o \in Having(opts, name) : "val" \in DOMAIN o.of /\ o.of.kind \notin {"_STRING_LIT", "strings"} /\ o.of.val \in {"true", "false"}
IsSet(opts, name) == Having(opts, name) # {} /\ (CHOOSE o \in Having(opts, name) : TRUE).of.val = "true"

\* The fields that belong to a body, and their names.
Members(body) == UNION {ToSet(FieldNodes(IF d.kind = "oneof" THEN d.decls ELSE <<d>>)) : d \in ToSet(body.decls)}
FieldName(f) == IF f.kind = "group" THEN LowerCase[f.name.val] ELSE f.name.val

\* The numbers of a range, as a pair.
Numbers(r, max) ==
  <<r.start.num, IF r.max # Nil THEN max ELSE IF r.end # Nil THEN r.end.num ELSE r.start.num>>
Within(i, r, max) == Numbers(r, max)[1] <= i /\ i <= Numbers(r, max)[2]
Apart(r, s, max) == Numbers(r, max)[2] < Numbers(s, max)[1] \/ Numbers(s, max)[2] < Numbers(r, max)[1]
RangesOf(decls, kind) == UNION {ToSet(d.ranges) : d \in {x \in ToSet(decls) : x.kind = kind}}
GoodRanges(ranges, used, min, max) ==
  /\ \A r \in ranges : min <= Numbers(r, max)[1] /\ Numbers(r, max)[1] <= Numbers(r, max)[2] /\ Numbers(r, max)[2] <= max
  /\ \A r, s \in ranges : r # s => Apart(r, s, max)
  /\ \A i \in used, r \in ranges : ~Within(i, r, max)
GoodNames(decls, used, s) ==
  LET reserved == {d \in ToSet(decls) : d.kind = "reserved"}
      nodes == UNION {ToSet(d.names) \cup ToSet(d.identifiers) : d \in reserved}
  IN /\ \A d \in reserved : IF s = "editions" THEN d.names = <<>> ELSE d.identifiers = <<>>
     /\ \A n, m \in nodes : n.val = m.val => n = m
     /\ \A n \in nodes : isIdentifier(n.val) /\ n.val \notin used

GoodBody(b, s, file) ==
  LET set == IsSet(OptionDecls(b), "message_set_wire_format")
      max == IF set THEN MessageSetMax ELSE FieldMax
      tags == {f.tag.num : f \in Members(b)}
  IN /\ \A f \in Members(b) : f.tag # Nil /\ f.tag.num \in 1..max
     /\ BoolOption(OptionDecls(b), "message_set_wire_format")
     /\ set => s # "proto3" /\ Members(b) = {} /\ RangesOf(b.decls, "extensions") # {}
     /\ Having(OptionDecls(b), "map_entry") = {}
     /\ s = "proto3" => RangesOf(b.decls, "extensions") = {}
     /\ Cardinality(tags) = Cardinality(Members(b))
     /\ GoodRanges(RangesOf(b.decls, "extensions") \cup RangesOf(b.decls, "reserved"), tags, 1, max)
     /\ GoodNames(b.decls, {FieldName(f) : f \in Members(b)}, s)

GoodEnum(e, s) ==
  LET vals == Each({"value"}, e.decls)
      aliases == \E i, j \in DOMAIN vals : i # j /\ vals[i].number.num = vals[j].number.num
  IN /\ vals # <<>>
     /\ BoolOption(OptionDecls(e), "allow_alias") /\ aliases = IsSet(OptionDecls(e), "allow_alias")
     /\ s = "proto3" => vals[1].number.num = 0
     /\ GoodRanges(RangesOf(e.decls, "reserved"), {vals[i].number.num : i \in DOMAIN vals}, MinInt32, MaxInt32)
     /\ GoodNames(e.decls, {vals[i].name.val : i \in DOMAIN vals}, s)

GoodField(f, s, file) ==
  LET label == IF f.label = Nil THEN Nil ELSE f.label.val
      within == {d \in Composites(file) : d.kind \in {"oneof", "extend"} /\ f \in ToSet(d.decls)}
      extends == \E d \in within : d.kind = "extend"
  IN /\ f.tag # Nil /\ f.tag.num \in 1..MessageSetMax /\ f.tag.num \notin 19000..19999
     /\ f.kind = "group" => s = "proto2" /\ SubSeq(f.name.val, 1, 1) \in Capitals
     /\ label = "required" => s = "proto2" /\ ~extends
     /\ label = "optional" => s # "editions"
     /\ label = Nil /\ s = "proto2" => f.kind = "mapField" \/ \E d \in within : d.kind = "oneof"
     /\ Having(CompactOptions(f), "packed") # {} => s # "editions"
     /\ Having(CompactOptions(f), "default") # {} => s # "proto3"

\* Visibility may be where it is not looked for, inside of groups.
GoodFile(file) ==
  LET s == SyntaxOf(file)
      all == Composites(file)
      of(kinds) == {n \in all : n.kind \in kinds}
  IN /\ s # "unknown" /\ (s = "editions" => file.header.syntax.val = "2023")
     /\ Cardinality(of({"package"})) <= 1
     /\ \A i, j \in of({"import"}) : i.name.val = j.name.val => i = j
     /\ \A i \in of({"import"}) : i.modifier = Nil \/ i.modifier.val # "option"
     /\ \A n \in of({"message", "enum"}) : n.visibility # Nil => \E g \in of({"group"}) : Inside(n, g)
     /\ s # "editions" => \A o \in of({"option"}) : o.name.parts[1].form # "field" \/ o.name.parts[1].name.val # "features"
     /\ \A n \in of({"oneof", "extend"}) : FieldNodes(n.decls) # <<>>
     /\ \A b \in of({"message", "group", "mapField"}) : Cardinality(Enclosing(b, file)) + 1 < MaxDepth
     /\ \A b \in of({"message", "group"}) : GoodBody(b, s, file)
     /\ \A e \in of({"enum"}) : GoodEnum(e, s)
     /\ \A f \in of({"field", "group", "mapField"}) : GoodField(f, s, file)

\* A file is accepted, that is, neither the making of its descriptor proto nor
\* the validation reports an error, exactly if it is valid.
AcceptedAreValid == result # Nil => (result.accepted <=> GoodFile(values[1]))
=============================================================================
