------------------------------ MODULE Options -------------------------------
(***************************************************************************)
(* Interpreting the options of a file (options/options.go): the options    *)
(* that the parser left uninterpreted become fields of options messages,   *)
(* in two passes over all the elements, and an index says where each of    *)
(* them went.  A value of a message is tagged: <<"scalar", v>>, <<"list",  *)
(* seq>>, <<"map", function>> or <<"msg", function from field names>>.     *)
(***************************************************************************)
EXTENDS Integers, Tree, FiniteSets, TLC

CONSTANTS OptionFiles,   \* trees whose elements have `uo`, the uninterpreted options, and `features`
          Schema,        \* message -> field name -> descriptor
          Extensions,    \* extension name -> descriptor, of those that the file can see
          Enums,         \* enum -> [values: name -> number, closed]
          MaxInt32, MaxInt64, MinInt32,
          Edition        \* of the file

VARIABLES optFile, mode, \* the file, and [lenient, stopAtFirst, ast]
          outcome        \* what interpretOptions made of it

optionVars == <<optFile, mode, outcome>>

Put(f, k, v) == [x \in DOMAIN f \cup {k} |-> IF x = k THEN v ELSE f[x]]
Removed(s, i) == SubSeq(s, 1, i - 1) \o SubSeq(s, i + 1, Len(s))

-----------------------------------------------------------------------------
(* Errors.  I is the interpreter: `lenience` is set while an error leaves the *)
(* option where it is, `lenientErr` when there was one; `aborted` when the    *)
(* handler made the interpreter return.                                       *)

handleError(I) ==
  IF I.lenience THEN [I EXCEPT !.lenientErr = TRUE]
  ELSE [I EXCEPT !.errors = @ + 1, !.aborted = I.stopAtFirst]

enableLenience(I, enable) ==
  IF ~I.lenient THEN I
  ELSE [I EXCEPT !.lenience = enable, !.lenientErr = IF enable THEN FALSE ELSE @]

-----------------------------------------------------------------------------
(* Scalars *)

Bad == <<"bad">>
Good(v) == <<"ok", <<"scalar", v>>>>

IntRange(kind) == CASE kind = "int32" -> MinInt32..MaxInt32
                    [] kind = "uint32" -> 0..2 * MaxInt32 + 1
                    [] kind = "int64" -> -MaxInt64 - 1..MaxInt64
                    [] kind = "uint64" -> 0..2 * MaxInt64 + 1

Truths(inside) == IF inside THEN {"t", "true", "True"} ELSE {"true"}
Falsehoods(inside) == IF inside THEN {"f", "false", "False"} ELSE {"false"}

scalarFieldValue(kind, val, inside) ==
  CASE kind = "bool" -> IF val[1] # "ident" THEN Bad
                        ELSE IF val[2] \in Truths(inside) THEN Good(TRUE)
                        ELSE IF val[2] \in Falsehoods(inside) THEN Good(FALSE) ELSE Bad
    [] kind \in {"string", "bytes"} -> IF val[1] = "str" THEN Good(<<kind, val[2]>>) ELSE Bad
    [] kind \in {"int32", "uint32", "int64", "uint64"} ->
         IF val[1] = "int" /\ val[2] \in IntRange(kind) THEN Good(val[2]) ELSE Bad
    [] kind \in {"double", "float"} ->
         IF val[1] = "ident" THEN (IF val[2] \in {"inf", "nan"} THEN Good(<<"float", val[2]>>) ELSE Bad)
         ELSE IF val[1] \in {"float", "int"} THEN Good(<<"float", val[2]>>) ELSE Bad
    [] OTHER -> Bad

enumFieldValue(enum, val, allowNumber) ==
  LET e == Enums[enum]
      known == {e.values[x] : x \in DOMAIN e.values}
  IN IF val[1] = "ident" THEN (IF val[2] \in DOMAIN e.values THEN Good(<<"enum", e.values[val[2]]>>) ELSE Bad)
     ELSE IF val[1] # "int" \/ ~allowNumber THEN Bad
     ELSE IF val[2] \notin MinInt32..MaxInt32 \/ (val[2] \notin known /\ e.closed) THEN Bad
     ELSE Good(<<"enum", val[2]>>)

-----------------------------------------------------------------------------
(* Source info: [path, kids], kids being <<>>, <<"array", infos>> or             *)
(* <<"msg", seq of [node, info]>>.  A node of the syntax tree is named by its    *)
(* place: the option <<element, k>>, then the elements and fields inside of it.  *)

newSrcInfo(path, kids) == [path |-> path, kids |-> kids]
NoInfo == <<>>

isPathMatch(a, b) == \A i \in 1..(IF Len(a) < Len(b) THEN Len(a) ELSE Len(b)) : a[i] = b[i]

\* findOptionNode and findOptionValueNode: candidates are <<node, info>>.
RECURSIVE findOptionValueNode(_, _, _)
findOptionNode(path, candidates) ==
  LET Longer(best, m) == IF m.len <= best.len THEN best ELSE m
      Better(best, c) == IF best.len >= Len(path) \/ c[2] = NoInfo \/ c[2].path[1] < 0 THEN best
                         ELSE Longer(best, findOptionValueNode(path, c[1], c[2]))
  IN FoldLeft(Better, [node |-> <<>>, len |-> 0], candidates)

findOptionValueNode(path, node, info) ==
  LET isArray == info.kids # <<>> /\ info.kids[1] = "array"
      Inner(inner, own) == IF inner.node # <<>> THEN inner ELSE [node |-> node, len |-> Len(own)]
      Within(own) ==
        IF ~isPathMatch(path, own) THEN [node |-> <<>>, len |-> 0]
        ELSE IF Len(own) >= Len(path) THEN [node |-> node, len |-> Len(path)]
        ELSE IF info.kids = <<>> THEN [node |-> node, len |-> Len(own)]
        ELSE Inner(findOptionNode(path, IF isArray THEN [i \in DOMAIN info.kids[2] |-> <<node \o <<"e", i>>, info.kids[2][i]>>]
                                        ELSE info.kids[2]), own)
  IN Within(IF isArray THEN Front(info.path) ELSE info.path)

-----------------------------------------------------------------------------
(* Values.  The operators return [I, ...]; a message that fails half way keeps *)
(* what was set in it before.                                                  *)

checkFieldUsage(I, target, fld) ==
  IF fld.targets = {} \/ target \in fld.targets THEN I ELSE handleError(I)

isMap(fld) == fld.label = "map"
isList(fld) == fld.label = "repeated"
Entries(msg, name, fld) ==
  IF name \notin DOMAIN msg THEN 0 ELSE IF isMap(fld) THEN Cardinality(DOMAIN msg[name][2]) ELSE Len(msg[name][2])

\* A field of a oneof whose other field is set.
OneofTaken(msg, name, fld, fields) ==
  fld.oneof # Nil /\ \E other \in DOMAIN msg : other # name /\ other \in DOMAIN fields /\ fields[other].oneof = fld.oneof

\* setMapEntry: the entry's key and value, which may be absent.
setMapEntry(map, entry) ==
  Put(map, IF "key" \in DOMAIN entry THEN entry["key"] ELSE <<"scalar", "zero">>,
      IF "value" \in DOMAIN entry THEN entry["value"] ELSE <<"scalar", "zero">>)

Added(msg, name, fld, v) ==
  CASE isMap(fld) -> Put(msg, name, <<"map", setMapEntry(IF name \in DOMAIN msg THEN msg[name][2] ELSE <<>>, v[2])>>)
    [] isList(fld) -> Put(msg, name, <<"list", Append(IF name \in DOMAIN msg THEN msg[name][2] ELSE <<>>, v)>>)
    [] OTHER -> Put(msg, name, v)

\* The index that an element of an array literal gets in a list that already has some.
firstIndexZero(msg, name, fld) == 0
firstIndex(msg, name, fld) == Entries(msg, name, fld)

RECURSIVE messageLiteralValue(_, _, _, _, _, _)

\* fieldValue: [I, val, info], val being Bad when there was an error.
fieldValue(I, target, fld, val, inside, path, node) ==
  LET Scalar(v) == IF v = Bad THEN [I |-> handleError(I), val |-> Bad, info |-> NoInfo]
                   ELSE [I |-> I, val |-> v[2], info |-> newSrcInfo(path, <<>>)]
  IN IF fld.kind = "enum" THEN Scalar(enumFieldValue(fld.type, val, inside))
     ELSE IF fld.kind \notin {"message", "group"} THEN Scalar(scalarFieldValue(fld.kind, val, inside))
     ELSE IF val[1] = "lit" THEN messageLiteralValue(I, target, fld.type, val[2], path, node)
     ELSE [I |-> handleError(I), val |-> Bad, info |-> NoInfo]

\* setOptionField: [I, msg, info].
isMany(fld) == isMap(fld) \/ isList(fld)
Taken(type, msg, name, fld) == OneofTaken(msg, name, fld, Schema[type]) \/ (~isMany(fld) /\ name \in DOMAIN msg)

\* The items of an array literal, from the i-th on.
RECURSIVE setItems(_, _, _, _, _, _, _, _, _, _)
setItems(st, target, name, fld, items, i, inside, path, node, first) ==
  LET Item(r) == IF r.val = Bad THEN [st EXCEPT !.I = r.I, !.stop = TRUE]
                 ELSE [st EXCEPT !.I = r.I, !.msg = Added(@, name, fld, r.val), !.kids = Append(@, r.info)]
  IN IF i > Len(items) \/ st.stop THEN st
     ELSE setItems(Item(fieldValue(st.I, target, fld, items[i], inside, Append(path, first + i - 1), node \o <<"e", i>>)),
                   target, name, fld, items, i + 1, inside, path, node, first)

setArray(I, target, msg, name, fld, val, inside, path, node, first) ==
  LET Outcome(array) == [I |-> array.I, msg |-> array.msg,
                         info |-> IF array.stop THEN NoInfo ELSE newSrcInfo(Append(path, first), <<"array", array.kids>>)]
  IN Outcome(setItems([I |-> I, msg |-> msg, kids |-> <<>>, stop |-> FALSE], target, name, fld, val[2], 1, inside, path, node, first))

setOptionField(I, target, type, msg, name, fld, val, inside, path, node) ==
  LET One(r) == IF r.val = Bad THEN [I |-> r.I, msg |-> msg, info |-> NoInfo]
                ELSE IF Taken(type, msg, name, fld) THEN [I |-> handleError(r.I), msg |-> msg, info |-> NoInfo]
                ELSE [I |-> r.I, msg |-> Added(msg, name, fld, r.val), info |-> r.info]
      at == IF isMany(fld) THEN Append(path, Entries(msg, name, fld)) ELSE path
  IN IF val[1] = "array" /\ ~isMany(fld) THEN [I |-> handleError(I), msg |-> msg, info |-> NoInfo]
     ELSE IF val[1] = "array"
     THEN setArray(I, target, msg, name, fld, val, inside, path, node, firstIndex(msg, name, fld))
     ELSE One(fieldValue(I, target, fld, val, inside, at, node))

\* The expanded form of Any: f.any is [host, type].  The outcome of the field is added to st, which
\* holds what the fields before it have done.
AnyHosts == {"type.googleapis.com", "type.googleprod.com"}
AnyFields == DOMAIN Schema["Any"] = {"type_url", "value"} /\ Schema["Any"]["type_url"].kind = "string"
               /\ Schema["Any"]["value"].kind = "bytes" /\ \A x \in DOMAIN Schema["Any"] : Schema["Any"][x].label = "optional"
AnyError(type, f) ==
  \/ type # "Any" \/ ~AnyFields \/ f.any.host \notin AnyHosts \/ f.val[1] # "lit" \/ f.any.type \notin DOMAIN Schema
anyLiteral(st, target, type, f, many, path, here) ==
  LET Value(mixed, r) ==
        IF r.val = Bad THEN [mixed EXCEPT !.I = r.I, !.hadError = TRUE]
        ELSE IF mixed.hadError THEN [mixed EXCEPT !.I = r.I]
        ELSE [mixed EXCEPT !.I = r.I, !.kids = Append(@, <<here, r.info>>),
                           !.msg = Put(Put(@, "type_url", <<"scalar", f.any>>), "value", <<"scalar", <<"bytes", f.any.type, r.val>>>>)]
      Packed(mixed) ==
        IF mixed.I.aborted THEN mixed
        ELSE IF AnyError(type, f) THEN [mixed EXCEPT !.I = handleError(@), !.hadError = TRUE]
        ELSE Value(mixed, messageLiteralValue(mixed.I, target, f.any.type, f.val[2], Append(path, 2), here))
  IN Packed(IF many THEN [st EXCEPT !.I = handleError(@), !.hadError = TRUE] ELSE st)

\* A field that is named as such; one that setOptionField could not set is left out, and the rest of
\* the literal stays valid.
fieldLiteral(st, target, type, f, path, here) ==
  LET Value(r) == [st EXCEPT !.I = r.I, !.msg = r.msg, !.kids = IF r.info = NoInfo THEN @ ELSE Append(@, <<here, r.info>>)]
      Used(used, fld) ==
        IF used.aborted THEN [st EXCEPT !.I = used]
        ELSE IF ~f.sep /\ fld.kind \notin {"message", "group"} THEN [st EXCEPT !.I = handleError(used), !.hadError = TRUE]
        ELSE Value(setOptionField(used, target, type, st.msg, f.name, fld, f.val, TRUE, Append(path, fld.num), here))
      Known(fld) == Used(checkFieldUsage(st.I, target, fld), fld)
  IN IF f.name \in DOMAIN (IF f.ext THEN Extensions ELSE Schema[type])
     THEN Known(IF f.ext THEN Extensions[f.name] ELSE Schema[type][f.name])
     ELSE [st EXCEPT !.I = handleError(@), !.hadError = TRUE]

\* messageLiteralValue: every field is tried, and one error makes the value invalid.
RECURSIVE fieldLiterals(_, _, _, _, _, _, _)
fieldLiterals(st, target, type, fields, j, path, node) ==
  LET here == node \o <<"f", j>>
  IN IF j > Len(fields) \/ st.I.aborted THEN st
     ELSE fieldLiterals(IF fields[j].any # Nil THEN anyLiteral(st, target, type, fields[j], Len(fields) > 1, path, here)
                        ELSE fieldLiteral(st, target, type, fields[j], path, here),
                        target, type, fields, j + 1, path, node)

messageLiteralValue(I, target, type, fields, path, node) ==
  LET Value(st) == IF st.hadError \/ st.I.aborted THEN [I |-> st.I, val |-> Bad, info |-> NoInfo]
                   ELSE [I |-> st.I, val |-> <<"msg", st.msg>>, info |-> newSrcInfo(path, <<"msg", st.kids>>)]
  IN Value(fieldLiterals([I |-> I, msg |-> <<>>, kids |-> <<>>, hadError |-> FALSE], target, type, fields, 1, path, node))

-----------------------------------------------------------------------------
(* Values without a syntax tree: an array is no value that the parser leaves in an uninterpreted option *)

scalarFieldValueFromProto(kind, val) ==
  IF val[1] = "array" THEN Bad ELSE scalarFieldValue(kind, val, FALSE)
enumFieldValueFromProto(enum, val) ==
  IF val[1] = "ident" /\ val[2] \in DOMAIN Enums[enum].values THEN Good(<<"enum", Enums[enum].values[val[2]]>>) ELSE Bad

\* prototext.Unmarshal: one error and there is no message.
Unmarshal(type, fields) ==
  LET Value(r) == IF r.I.errors > 0 THEN Bad ELSE r.val
  IN Value(messageLiteralValue([lenient |-> FALSE, stopAtFirst |-> FALSE, ast |-> FALSE, lenience |-> FALSE, lenientErr |-> FALSE,
                                errors |-> 0, aborted |-> FALSE, index |-> <<>>], Nil, type, fields, <<>>, <<>>))

FieldOf(type, name) == IF name \in DOMAIN Schema[type] THEN Schema[type][name] ELSE Extensions[name]

\* The messages in a value of a field.
Messages(v) ==
  CASE v[1] = "msg" -> <<v[2]>>
    [] v[1] = "list" -> FlattenSeq([i \in DOMAIN v[2] |-> IF v[2][i][1] = "msg" THEN <<v[2][i][2]>> ELSE <<>>])
    [] v[1] = "map" -> SetToSeq({v[2][k][2] : k \in {x \in DOMAIN v[2] : v[2][x][1] = "msg"}})
    [] OTHER -> <<>>

RECURSIVE checkFieldUsagesInMessage(_, _, _, _)
checkFieldUsagesInMessage(I, target, type, msg) ==
  LET Check(J, name) ==
        LET Inner(K, m) == IF K.aborted THEN K ELSE checkFieldUsagesInMessage(K, target, FieldOf(type, name).type, m)
        IN IF J.aborted THEN J
           ELSE FoldLeft(Inner, checkFieldUsage(J, target, FieldOf(type, name)), Messages(msg[name]))
  IN FoldLeft(Check, I, SetToSeq(DOMAIN msg))

\* setOptionFieldFromProto: [I, msg].
setOptionFieldFromProto(I, target, type, msg, name, fld, val) ==
  LET isMessage == fld.kind \in {"message", "group"}
      Checked(J, v) ==
        IF J.aborted THEN [I |-> J, msg |-> msg]
        ELSE IF Taken(type, msg, name, fld) THEN [I |-> handleError(J), msg |-> msg]
        ELSE [I |-> J, msg |-> Added(msg, name, fld, IF isMessage THEN v ELSE v[2])]
      Value(v) == IF v = Bad THEN [I |-> handleError(I), msg |-> msg]
                  ELSE Checked(IF isMessage THEN checkFieldUsagesInMessage(I, target, fld.type, v[2]) ELSE I, v)
  IN Value(CASE fld.kind = "enum" -> enumFieldValueFromProto(fld.type, val)
             [] isMessage -> IF val[1] # "lit" THEN Bad ELSE Unmarshal(fld.type, val[2])
             [] OTHER -> scalarFieldValueFromProto(fld.kind, val))

-----------------------------------------------------------------------------
(* Options *)

\* interpretField: down the parts of the name from `part` on.  A message on the
\* way is created when it is not there yet, and stays when the rest fails.
RECURSIVE interpretField(_, _, _, _, _, _, _, _)
interpretField(I, target, type, msg, opt, part, path, node) ==
  LET p == opt.name[part]
      failed(J) == [I |-> handleError(J), msg |-> msg, info |-> NoInfo]
      \* a part that is not the last
      Outer(used, fld, at) ==
        LET Inner(deep) == [deep EXCEPT !.msg = Put(msg, p.name, <<"msg", deep.msg>>)]
        IN IF fld.kind \notin {"message", "group"} \/ isMany(fld)
              \/ (p.name \notin DOMAIN msg /\ OneofTaken(msg, p.name, fld, Schema[type]))
           THEN failed(used)
           ELSE Inner(interpretField(used, target, fld.type, IF p.name \in DOMAIN msg THEN msg[p.name][2] ELSE <<>>,
                                     opt, part + 1, at, node))
      Plain(r, at) == [I |-> r.I, msg |-> r.msg, info |-> newSrcInfo(at, <<>>)]
      Used(used, fld, at) ==
        IF used.aborted THEN [I |-> used, msg |-> msg, info |-> NoInfo]
        ELSE IF part < Len(opt.name) THEN Outer(used, fld, at)
        ELSE IF I.ast THEN setOptionField(used, target, type, msg, p.name, fld, opt.val, FALSE, at, node)
        ELSE Plain(setOptionFieldFromProto(used, target, type, msg, p.name, fld, opt.val), at)
      Known(fld) == IF p.ext /\ fld.extendee # type THEN failed(I)
                    ELSE Used(checkFieldUsage(I, target, fld), fld, Append(path, fld.num))
  IN IF p.name \in DOMAIN (IF p.ext THEN Extensions ELSE Schema[type])
     THEN Known(IF p.ext THEN Extensions[p.name] ELSE Schema[type][p.name])
     ELSE failed(I)

SumOver(S, f(_)) == FoldSet(LAMBDA x, n : n + f(x), 0, S)

\* validateRecursive: a message without a required field, and a feature that is set in the file that
\* defines it or in an edition that does not have it, are errors.
RECURSIVE MissingFields(_, _), FeatureErrors(_, _, _)
MissingFields(type, msg) ==
  (IF \E name \in DOMAIN Schema[type] : Schema[type][name].label = "required" /\ name \notin DOMAIN msg THEN 1 ELSE 0)
    + SumOver(DOMAIN msg, LAMBDA name : LET inner == Messages(msg[name])
                                        IN SumOver(DOMAIN inner, LAMBDA i : MissingFields(FieldOf(type, name).type, inner[i])))
FeatureErrors(type, msg, depth) ==
  SumOver(DOMAIN msg, LAMBDA name :
    LET fld == FieldOf(type, name)
        inner == Messages(msg[name])
        below == IF depth > 0 \/ name = "features" THEN depth + 1 ELSE 0
    IN (IF (depth = 1 \/ (depth > 1 /\ name \in DOMAIN Extensions)) /\ fld.here THEN 1 ELSE 0)
         + (IF depth > 0 /\ fld.editions # Nil /\ Edition \notin fld.editions THEN 1 ELSE 0)
         + SumOver(DOMAIN inner, LAMBDA i : FeatureErrors(fld.type, inner[i], below)))

validateRecursive(I, required, type, msg) ==
  LET After(problems) ==
        IF problems = 0 THEN I
        ELSE [I EXCEPT !.errors = @ + (IF I.stopAtFirst THEN 1 ELSE problems), !.aborted = I.stopAtFirst]
  IN After((IF required THEN MissingFields(type, msg) ELSE 0) + FeatureErrors(type, msg, 0))

OptionsType(kind) == kind
TargetOf(kind) == IF kind = "extension" THEN "field" ELSE kind

isPseudo(kind, opt) ==
  kind \in {"field", "extension"} /\ ~opt.name[1].ext /\ opt.name[1].name \in {"default", "json_name"}

\* interpretOptions for one element: e is [kind, uo, msg, json, default], I.index maps an option's node to
\* its info.
interpretOption(st, e, u, id) ==
  LET node == <<id, u.k>>
      After(J, r) ==
        IF J.lenient /\ J.lenientErr THEN [st EXCEPT !.I = J, !.msg = r.msg, !.remain = Append(@, u)]
        ELSE [st EXCEPT !.I = [J EXCEPT !.index = IF r.info = NoInfo THEN @ ELSE Put(@, node, r.info)], !.msg = r.msg]
      Tried(r) == After(enableLenience(r.I, FALSE), r)
  IN Tried(interpretField(enableLenience(st.I, TRUE), TargetOf(e.kind), OptionsType(e.kind), st.msg, u.opt, 1, <<>>, node))

RECURSIVE interpretEach(_, _, _, _, _)
interpretEach(st, e, id, custom, k) ==
  IF k > Len(e.uo) \/ st.I.aborted THEN st
  ELSE interpretEach(IF e.uo[k].opt.name[1].ext # custom \/ isPseudo(e.kind, e.uo[k].opt) THEN [st EXCEPT !.remain = Append(@, e.uo[k])]
                     ELSE interpretOption(st, e, e.uo[k], id), e, id, custom, k + 1)

interpretOptions(I, e, id, custom) ==
  LET Validated(checked, st) ==
        IF checked.aborted \/ (I.lenient /\ custom /\ MissingFields(OptionsType(e.kind), st.msg) > 0)
        THEN [I |-> checked, e |-> e]
        ELSE [I |-> checked, e |-> [e EXCEPT !.msg = st.msg, !.uo = st.remain]]
      All(st) ==
        IF st.I.aborted THEN [I |-> st.I, e |-> e]
        ELSE Validated(IF custom THEN validateRecursive(st.I, ~I.lenient, OptionsType(e.kind), st.msg) ELSE st.I, st)
  IN All(interpretEach([I |-> I, msg |-> e.msg, remain |-> <<>>], e, id, custom, 1))

interpretElementOptions(I, e, id, custom) ==
  IF e.uo # <<>> THEN interpretOptions(I, e, id, custom)
  ELSE [I |-> IF custom THEN validateRecursive(I, FALSE, OptionsType(e.kind), e.msg) ELSE I, e |-> e]

-----------------------------------------------------------------------------
(* Pseudo-options of fields *)

\* internal.FindOption: the position of the only option of that name, or 0; two are an error.
Positions(uo, name) ==
  {k \in DOMAIN uo : Len(uo[k].opt.name) = 1 /\ ~uo[k].opt.name[1].ext /\ uo[k].opt.name[1].name = name}
FindOption(I, uo, name) ==
  LET at == Positions(uo, name)
  IN IF Cardinality(at) > 1 THEN [I |-> handleError(I), at |-> 0]
     ELSE [I |-> I, at |-> IF at = {} THEN 0 ELSE CHOOSE k \in at : TRUE]

Attribute(I, id, o, tag) == [I EXCEPT !.index = IF I.ast THEN Put(@, <<id, o.k>>, newSrcInfo(<<-1, tag>>, <<>>)) ELSE @]

\* json_name: [I, e, stop]; removing an option from the middle shifts the array that e.uo still shows
\* when the value turns out to be reserved.
JsonName(I, e, id) ==
  LET Shifted(at) == IF at = 1 \/ at = Len(e.uo) THEN e.uo ELSE Append(Removed(e.uo, at), Last(e.uo))
      Named(J, at, name) ==
        IF name = "[reserved]" THEN [I |-> handleError(J), e |-> [e EXCEPT !.uo = Shifted(at)], stop |-> TRUE]
        ELSE [I |-> J, e |-> [e EXCEPT !.uo = Removed(@, at), !.json = name], stop |-> FALSE]
      Option(J, at, o) ==
        IF o.opt.val[1] # "str" \/ (e.kind = "extension" /\ o.opt.val[2] # e.name)
        THEN [I |-> handleError(J), e |-> e, stop |-> TRUE]
        ELSE Named(Attribute(J, id, o, 10), at, o.opt.val[2])
      Found(f) == IF f.at = 0 THEN [I |-> f.I, e |-> e, stop |-> f.I.aborted] ELSE Option(f.I, f.at, e.uo[f.at])
  IN Found(FindOption(I, e.uo, "json_name"))

\* processDefaultOption; an enum's default is the name that was given.
processDefaultOption(I, e, id) ==
  LET Value(val) == IF val[1] \in {"lit", "array"} THEN Bad
                    ELSE IF e.field.kind = "enum" THEN enumFieldValue(e.field.type, val, FALSE)
                    ELSE scalarFieldValue(e.field.kind, val, FALSE)
      Set(J, at, value) ==
        IF e.field.label \in {"repeated", "map"} \/ e.field.kind \in {"message", "group"} \/ value = Bad
        THEN [I |-> handleError(J), e |-> e]
        ELSE [I |-> Attribute(J, id, e.uo[at], 7), e |-> [e EXCEPT !.uo = Removed(@, at), !.default = value[2]]]
      Found(f) == IF f.at = 0 THEN [I |-> f.I, e |-> e] ELSE Set(f.I, f.at, Value(e.uo[f.at].opt.val))
  IN Found(FindOption(I, e.uo, "default"))

interpretFieldPseudoOptions(I, e, id) ==
  LET After(j) == IF j.stop \/ j.I.aborted THEN [I |-> j.I, e |-> j.e] ELSE processDefaultOption(j.I, j.e, id)
  IN After(JsonName(I, e, id))

interpretFieldOptions(I, e, id, custom) ==
  LET After(p) == IF p.I.aborted \/ p.e.uo = <<>> THEN p ELSE interpretElementOptions(p.I, p.e, id, custom)
  IN After(IF e.uo # <<>> /\ ~custom
           THEN [interpretFieldPseudoOptions(enableLenience(I, TRUE), e, id) EXCEPT !.I = enableLenience(@, FALSE)]
           ELSE [I |-> I, e |-> e])

-----------------------------------------------------------------------------
(* The two passes over the elements, named by their places in the tree *)

\* interpretFileOptions, interpretMessageOptions, interpretEnumOptions: the order of the lists.
OptionLists(n) ==
  CASE n.kind = "file" -> <<"message", "extension", "enum", "service">>
    [] n.kind = "message" -> <<"field", "oneof", "extension", "range", "message", "enum">>
    [] n.kind = "enum" -> <<"value">>
    [] n.kind = "service" -> <<"method">>
    [] OTHER -> <<>>

\* The places of the elements in the order of the pass, and <<"features", p>> after all of the message p.
RECURSIVE Visits(_, _)
Visits(n, at) ==
  LET lists == OptionLists(n)
      inOrder == FlattenSeq([l \in DOMAIN lists |-> SelectSeq([i \in DOMAIN n.kids |-> i], LAMBDA i : n.kids[i].kind = lists[l])])
  IN << <<"element", at>> >>
       \o FlattenSeq([j \in DOMAIN inOrder |-> Visits(n.kids[inOrder[j]], Append(at, inOrder[j]))])
       \o (IF n.kind = "message" THEN << <<"features", at>> >> ELSE <<>>)

RECURSIVE At(_, _)
At(n, at) == IF at = <<>> THEN n ELSE At(n.kids[at[1]], Tail(at))

\* The features of a map field are copied to the fields of its entry, under what these have already.
CopyFeatures(file, els, at) ==
  LET m == At(file, at)
      pairs == {<<i, j>> \in (DOMAIN m.kids) \X (DOMAIN m.kids) :
                  /\ m.kids[i].kind = "field" /\ m.kids[i].field.label = "map"
                  /\ m.kids[j].kind = "message" /\ m.kids[j].name = m.kids[i].field.type}
      Source(p) == CHOOSE x \in pairs : Append(at, x[2]) = Front(p)
  IN [p \in DOMAIN els |->
       IF p # <<>> /\ \E x \in pairs : Append(at, x[2]) = Front(p) /\ "features" \in DOMAIN els[Append(at, x[1])].msg
       THEN LET given == els[Append(at, Source(p)[1])].msg["features"][2]
                own == IF "features" \in DOMAIN els[p].msg THEN els[p].msg["features"][2] ELSE <<>>
            IN [els[p] EXCEPT !.msg = Put(@, "features", <<"msg", own @@ given>>)]
       ELSE els[p]]

Visit(file, st, custom, kind, at) ==
  LET Result(r) == [I |-> r.I, els |-> [st.els EXCEPT ![at] = r.e]]
  IN IF kind = "features" THEN [st EXCEPT !.els = CopyFeatures(file, @, at)]
     ELSE Result(IF st.els[at].kind \in {"field", "extension"} THEN interpretFieldOptions(st.I, st.els[at], at, custom)
                 ELSE interpretElementOptions(st.I, st.els[at], at, custom))

RECURSIVE Pass(_, _, _, _)
Pass(file, st, custom, visits) ==
  IF visits = <<>> \/ st.I.aborted THEN st
  ELSE Pass(file, Visit(file, st, custom, visits[1][1], visits[1][2]), custom, Tail(visits))

interpretFile(file, m) ==
  LET places == {v[2] : v \in Range(Visits(file, <<>>))}
      start == [els |-> [p \in places |->
                  LET n == At(file, p)
                  IN [kind |-> n.kind, name |-> n.name, field |-> n.field, msg |-> <<>>, json |-> Nil, default |-> Nil,
                      uo |-> [k \in DOMAIN n.uo |-> [k |-> k, opt |-> n.uo[k]]]]],
                I |-> [lenient |-> m.lenient, stopAtFirst |-> m.stopAtFirst, ast |-> m.ast, lenience |-> FALSE,
                       lenientErr |-> FALSE, errors |-> 0, aborted |-> FALSE, index |-> <<>>]]
      Second(first) == Pass(file, first, TRUE, Visits(file, <<>>))
  IN Second(Pass(file, start, FALSE, Visits(file, <<>>)))

OptionsInit == optFile = <<>> /\ mode = <<>> /\ outcome = <<>>

\* InterpretOptions, InterpretOptionsLenient, InterpretUnlinkedOptions.
InterpretOptions(file, m) ==
  /\ optFile' = file /\ mode' = m /\ outcome' = interpretFile(file, m)

OptionsNext ==
  /\ optFile = <<>>
  /\ \E file \in OptionFiles, m \in [lenient : BOOLEAN, stopAtFirst : BOOLEAN, ast : BOOLEAN] : InterpretOptions(file, m)

-----------------------------------------------------------------------------
\* The value at a path of a message.
RECURSIVE ValueAt(_, _, _), LeafPaths(_, _)
ValueAt(type, v, path) ==
  IF path = <<>> THEN v
  ELSE IF v[1] = "list" THEN ValueAt(type, v[2][path[1] + 1], Tail(path))
  ELSE IF v[1] = "scalar" THEN ValueAt(v[2][2], v[2][3], path)
  ELSE LET name == CHOOSE x \in DOMAIN v[2] : FieldOf(type, x).num = path[1]
       IN ValueAt(FieldOf(type, name).type, v[2][name], Tail(path))

\* The paths of the scalars that an info speaks of, with the node of each.
LeafPaths(node, info) ==
  IF info.kids = <<>> THEN {<<node, info.path>>}
  ELSE IF info.kids[1] = "array" THEN UNION {LeafPaths(node \o <<"e", i>>, info.kids[2][i]) : i \in DOMAIN info.kids[2]}
  ELSE UNION {LeafPaths(info.kids[2][i][1], info.kids[2][i][2]) : i \in DOMAIN info.kids[2]}

\* The value that a node of the syntax tree stands for.
RECURSIVE Given(_, _)
Given(val, steps) ==
  IF steps = <<>> THEN val
  ELSE Given(IF steps[1] = "e" THEN val[2][steps[2]] ELSE val[2][steps[2]].val, SubSeq(steps, 3, Len(steps)))

\* Where an option went is where the index says, although options for one list
\* come from several statements and literals, and some fail half way: at the
\* path of each scalar is the value given there, and looking that path up finds
\* the node it came from.  Without errors no option is left uninterpreted.
ValuesAreWhereIndexed ==
  outcome # <<>> /\ mode.ast /\ ~outcome.I.aborted =>
    /\ \A node \in DOMAIN outcome.I.index :
         LET e == outcome.els[node[1]]
             info == outcome.I.index[node]
             nodes == {m \in DOMAIN outcome.I.index : m[1] = node[1]}
             candidates == SetToSeq({<<m, outcome.I.index[m]>> : m \in nodes})
         IN info.path[1] > 0 => \A leaf \in LeafPaths(node, info) :
              /\ LET v == ValueAt(OptionsType(e.kind), <<"msg", e.msg>>, leaf[2])
                     given == Given(At(optFile, node[1]).uo[node[2]].val, SubSeq(leaf[1], 3, Len(leaf[1])))
                 IN v[1] = "scalar" /\ (given[1] = "int" => v[2] = given[2])
              /\ findOptionNode(leaf[2], candidates).node = leaf[1]
    /\ outcome.I.errors = 0 /\ ~mode.lenient => \A p \in DOMAIN outcome.els : outcome.els[p].uo = <<>>
=============================================================================
