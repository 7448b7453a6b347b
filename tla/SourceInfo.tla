----------------------------- MODULE SourceInfo -----------------------------
(***************************************************************************)
(* Source code info (sourceinfo/source_code_info.go): the locations of the *)
(* elements of a file, each with its path, and the comments of each.  The  *)
(* calls that are still to be made are a stack.  Paths are Go slices:      *)
(* several may share an array, and append writes to it while there is      *)
(* room.  Tokens have lines only; source info of the values inside of      *)
(* message literals (extra option locations) is left out.                  *)
(***************************************************************************)
EXTENDS ParseResults

CONSTANTS PathCap,     \* the room that a path starts with
          OptionPaths, \* the index of interpreted options: their paths, by name
          Layouts(_)   \* the layouts of a file of that many tokens: of each token its line, and the comments before it

VARIABLE info  \* the calls to make, arrays, locations, comments that were used; Nil before

-----------------------------------------------------------------------------
(* Paths *)

Contents(heap, p) == SubSeq(heap[p.arr], 1, p.len)
\* An array with room for at least twice as much.
Grown(heap, p, xs) ==
  LET long == Contents(heap, p) \o xs IN long \o [i \in 1..p.len |-> 0]
append(heap, p, xs) ==
  IF p.len + Len(xs) <= Len(heap[p.arr])
  THEN [heap |-> [heap EXCEPT ![p.arr] = [i \in DOMAIN @ |-> IF i - p.len \in DOMAIN xs THEN xs[i - p.len] ELSE @[i]]],
        slice |-> [arr |-> p.arr, len |-> p.len + Len(xs)]]
  ELSE [heap |-> Append(heap, Grown(heap, p, xs)), slice |-> [arr |-> Len(heap) + 1, len |-> p.len + Len(xs)]]
\* Mutant: a path is not copied before it is extended.
appendInPlace(heap, p, xs) == append(heap, p, xs)
\* append(slices.Clone(p), xs...)
appendToClone(heap, p, xs) ==
  [heap |-> Append(heap, Grown(heap, p, xs)), slice |-> [arr |-> Len(heap) + 1, len |-> p.len + Len(xs)]]

-----------------------------------------------------------------------------
(* Comments *)

\* The lexer gives the first comment of a gap to the token before it when that
\* one ends on the comment's line, the next one is on a later line, and it is
\* a line comment, one of several, or ends before the next token's line.
Donated(layout, k) ==
  LET gap == layout[k].comments
  IN IF /\ k > 1 /\ gap # <<>>
        /\ gap[1].from = layout[k - 1].line
        /\ layout[k].line > layout[k - 1].line \/ k = Len(layout)
        /\ ~gap[1].block \/ Len(gap) > 1 \/ gap[1].to < layout[k].line
     THEN 1 ELSE 0
TrailingIn(layout, k) == SubSeq(layout[k].comments, 1, Donated(layout, k))
LeadingIn(layout, k) == SubSeq(layout[k].comments, Donated(layout, k) + 1, Len(layout[k].comments))

\* Comments in a group are line comments on adjacent lines, or one block comment.
groupComments(cmts) ==
  LET starts == {i \in DOMAIN cmts : i = 1 \/ cmts[i].block \/ cmts[i - 1].block \/ cmts[i].from > cmts[i - 1].to + 1}
      nth(k) == CHOOSE i \in starts : Cardinality({j \in starts : j <= i}) = k
      after(k) == IF k = Cardinality(starts) THEN Len(cmts) ELSE nth(k + 1) - 1
  IN [k \in 1..Cardinality(starts) |-> SubSeq(cmts, nth(k), after(k))]

\* The donation of a group to the token before; what is `closing` needs no comment of its own.
maybeDonate(prev, line, closing, last, lead, extra) ==
  LET kept == [t |-> <<>>, rest |-> lead]
      given == [t |-> Head(lead), rest |-> Tail(lead)]
  IN IF lead = <<>> \/ lead[1][1].from > prev + 1 THEN kept
     ELSE IF Len(lead) > 1 \/ Last(lead[1]).to < line - 1 THEN given
     ELSE IF ~closing THEN kept
     ELSE IF ~extra /\ ~last /\ lead[1][1].from = prev /\ Last(lead[1]).to = line THEN kept
     ELSE given
maybeAttach(prev, valid, line, hasTrail, lead) ==
  IF lead = <<>> THEN [d |-> <<>>, l |-> <<>>]
  ELSE IF /\ Len(lead) = 1 /\ ~hasTrail /\ valid
          /\ lead[1][1].from = prev /\ Last(lead[1]).to = line
       THEN [d |-> lead, l |-> <<>>]
  ELSE IF Last(Last(lead)).to >= line - 1 THEN [d |-> Front(lead), l |-> Last(lead)]
  ELSE [d |-> lead, l |-> <<>>]

\* The comments before token k: those of the token before it, and the detached and leading ones of its own.
Closers == {"}", "]", ")", ",", ";"}
attributeComments(s, k) ==
  LET valid == k > 1
      prev == IF valid THEN s.layout[k - 1].line ELSE 0
      line == s.layout[k].line
      last == k = Len(s.layout)
      groups == groupComments(LeadingIn(s.layout, k))
      own == TrailingIn(s.layout, k)
      donation == IF ~valid \/ own # <<>> THEN [t |-> own, rest |-> groups]
                  ELSE maybeDonate(prev, line, last \/ input[k] \in Closers, last, groups, s.extra)
  IN [t |-> donation.t] @@ maybeAttach(prev, valid, line, donation.t # <<>>, donation.rest)
getLeadingComments(s, n) == attributeComments(s, Start(n))
getTrailingComments(s, n) == IF End(n) = Len(s.layout) THEN <<>> ELSE attributeComments(s, End(n) + 1).t

-----------------------------------------------------------------------------
(* Locations *)

\* A location to be added: of a node, with the path extended; the trailing comments
\* are those after `before`, and there are none of either when `before` is Nil.
Loc(n, path, xs, before) == [n |-> n, path |-> path, xs |-> xs, before |-> before, always |-> TRUE]
newLoc(n, path, xs) == [Loc(n, path, xs, n) EXCEPT !.always = FALSE]
newLocWithoutComments(n, path, xs) == Loc(n, path, xs, Nil)
newLocWithComments(n, path, xs) == Loc(n, path, xs, n)
newBlockLocWithComments(n, openBrace, path, xs) == Loc(n, path, xs, openBrace)

\* commentUsed: whether the group was used, by its first comment.
Keys(group) == IF group = <<>> THEN {} ELSE {group[1].id}
commentUsed(used, group) == Keys(group) \cap used # {}

newLocWithGivenComments(s, n, path, d, l, t) ==
  LET first == IF d # <<>> THEN d[1] ELSE l
      leads == ~commentUsed(s.used, first)
      once == s.used \cup Keys(first)
      trails == ~commentUsed(once, t)
  IN [s EXCEPT !.used = once \cup Keys(t),
               !.locs = Append(@, [path |-> path, node |-> n,
                                   detached |-> IF leads THEN d ELSE <<>>, lead |-> IF leads THEN l ELSE <<>>,
                                   trail |-> IF trails THEN t ELSE <<>>])]

\* Adds one location after the other; the path of each is copied.
addLoc(s, loc) ==
  LET a == append(s.heap, loc.path, loc.xs)
      cleared == [s EXCEPT !.heap = a.heap]
      path == Contents(a.heap, a.slice)
      leading == getLeadingComments(s, loc.n)
  IN IF loc.before = Nil \/ ~(loc.always \/ s.extra) THEN newLocWithGivenComments(cleared, loc.n, path, <<>>, <<>>, <<>>)
     ELSE newLocWithGivenComments(cleared, loc.n, path, leading.d, leading.l, getTrailingComments(s, loc.before))
RECURSIVE addLocs(_, _)
addLocs(s, locs) == IF locs = <<>> THEN s ELSE addLocs(addLoc(s, Head(locs)), Tail(locs))

-----------------------------------------------------------------------------
(* Calls *)

\* A call for a node; the loop over the declarations of a node goes on at declaration i,
\* with the indices of the next element of each kind.
Call(do, n, path) == [do |-> do, n |-> n, path |-> path]
Loop(do, n, path) ==
  Call(do, n, path) @@
  [i |-> 1, at |-> [dep |-> 0, public |-> 0, weak |-> 0, opt |-> 0, field |-> 0, oneof |-> 0, ext |-> 0, msg |-> 0, enum |-> 0,
                    range |-> 0, rrange |-> 0, rname |-> 0, value |-> 0, svc |-> 0]]
After(t, at) == [t EXCEPT !.i = @ + 1, !.at = at @@ @]
Calls(s, calls) == [s EXCEPT !.todo = calls \o @]

\* The call for a declaration, with the path extended, before the loop goes on.
Enter(s, t, call, xs, at) ==
  LET a == append(s.heap, t.path, xs) IN Calls([s EXCEPT !.heap = a.heap], <<[call EXCEPT !.path = a.slice], After(t, at)>>)

-----------------------------------------------------------------------------
(* Options *)

\* The path of an interpreted option; -1 stands for what is stored on the element itself.
Interpreted(n) ==
  Len(n.name.parts) = 1 /\ n.name.parts[1].form = "field" /\ n.name.parts[1].name.val \in DOMAIN OptionPaths
combinePathsForOption(prefix, path) == IF path[1] = -1 THEN Front(prefix) \o Tail(path) ELSE prefix \o path

ValueTag(val) ==
  CASE OptionValue(val).tag = "identifier_value" -> 3
    [] OptionValue(val).tag = "positive_int_value" -> 4
    [] OptionValue(val).tag = "negative_int_value" -> 5
    [] OptionValue(val).tag = "double_value" -> 6
    [] OptionValue(val).tag = "string_value" -> 7
    [] OptionValue(val).tag = "aggregate_value" -> 8

\* A call for an option that is the index-th of those that are not interpreted.
Option(n, compact, index) == Call("option", n, Nil) @@ [compact |-> compact, index |-> index]
NextOpt(n, index) == IF Interpreted(n) THEN index ELSE index + 1

generateSourceCodeInfoForOption(s, t) ==
  LET whole == IF t.compact THEN s ELSE addLoc(s, newLocWithoutComments(t.n, t.path, <<>>))
      parts == t.n.name.parts
  IN IF Interpreted(t.n)
     THEN LET full == combinePathsForOption(Contents(whole.heap, t.path), OptionPaths[t.n.name.parts[1].name.val])
              own == [whole EXCEPT !.heap = Append(@, full)]
              path == [arr |-> Len(whole.heap) + 1, len |-> Len(full)]
          IN addLoc(own, IF t.compact THEN newLoc(t.n, path, <<>>) ELSE newLocWithComments(t.n, path, <<>>))
     ELSE addLocs(whole,
            <<newLoc(t.n, t.path, <<999, t.index>>), newLoc(t.n.of, t.path, <<999, t.index, ValueTag(t.n.of)>>)>>
              \o Joint([j \in DOMAIN parts |->
                   <<newLoc(parts[j], t.path, <<999, t.index, 2, j - 1>>),
                     newLoc(parts[j].name, t.path, <<999, t.index, 2, j - 1, 1>>)>>]))

\* Compact options, with the path of the options.
CompactCalls(opts) ==
  [i \in DOMAIN opts |-> Option(opts[i], TRUE, Len(SelectSeq(SubSeq(opts, 1, i - 1), LAMBDA o : ~Interpreted(o))))]
WithCompact(s, n, path, tag) ==
  IF n.options = Nil THEN s
  ELSE LET a == append(s.heap, path, <<tag>>)
           calls == CompactCalls(n.options.options)
       IN Calls(addLoc([s EXCEPT !.heap = a.heap], newLoc(n.options, a.slice, <<>>)),
                [i \in DOMAIN calls |-> [calls[i] EXCEPT !.path = a.slice]])

-----------------------------------------------------------------------------
(* Fields, values and ranges *)

Field(n, extendee) == Call("field", n, Nil) @@ [extendee |-> extendee]
generateSourceCodeInfoForField(s, t) ==
  LET n == t.n
      whole == <<IF n.kind = "group" THEN newLocWithoutComments(n, t.path, <<>>) ELSE newLocWithComments(n, t.path, <<>>)>>
      extendee == IF t.extendee = Nil THEN <<>> ELSE <<newLoc(t.extendee, t.path, <<2>>)>>
      label == IF n.label = Nil THEN <<>>
               ELSE IF n.kind = "group" THEN <<newLocWithoutComments(n.label, t.path, <<4>>)>>
               ELSE <<newLoc(n.label, t.path, <<4>>)>>
      scalar == n.kind = "field" /\ n.type.val \in fieldTypes
      type == <<newLoc(n.type, t.path, IF n.kind = "group" \/ scalar THEN <<5>> ELSE <<6>>)>>
      name == <<IF n.kind = "group" THEN newLocWithoutComments(n.name, t.path, <<1>>) ELSE newLoc(n.name, t.path, <<1>>)>>
  IN WithCompact(addLocs(s, whole \o extendee \o label \o type \o name \o <<newLoc(FieldTag(n), t.path, <<3>>)>>), n, t.path, 8)

generateSourceCodeInfoForEnumValue(s, t) ==
  WithCompact(addLocs(s, <<newLocWithComments(t.n, t.path, <<>>), newLoc(t.n.name, t.path, <<1>>), newLoc(t.n.number, t.path, <<2>>)>>),
              t.n, t.path, 3)

\* The locations of a range, of which the path extended by xs is the path.
RangeLocs(n, path, xs) ==
  <<newLoc(n, path, xs), newLoc(n.start, path, xs \o <<1>>),
    newLoc(IF n.end # Nil THEN n.end ELSE IF n.max # Nil THEN n.max ELSE n.start, path, xs \o <<2>>)>>
RangesLocs(ranges, path, first) == Joint([i \in DOMAIN ranges |-> RangeLocs(ranges[i], path, <<first + i - 1>>)])

\* The ranges, and then the options of each.
ExtensionRanges(n, first) == Call("extensions", n, Nil) @@ [first |-> first]
generateSourceCodeInfoForExtensionRanges(s, t) ==
  LET ranged == addLocs(s, <<newLocWithComments(t.n, t.path, <<>>)>> \o RangesLocs(t.n.ranges, t.path, t.first))
  IN Calls(ranged, [i \in DOMAIN t.n.ranges |-> Call("range options", t.n, t.path) @@ [index |-> t.first + i - 1]])
RangeOptions(s, t) ==
  LET a == append(s.heap, t.path, <<t.index>>) IN WithCompact([s EXCEPT !.heap = a.heap], t.n, a.slice, 3)

\* A reserved declaration, with the tags of the names and of the ranges.
ReservedLocs(c, t, nameTag, rangeTag, names) ==
  (IF names = <<>> THEN <<>>
   ELSE <<newLocWithComments(c, t.path, <<nameTag>>)>>
          \o [i \in DOMAIN names |-> newLoc(names[i], t.path, <<nameTag, t.at.rname + i - 1>>)])
    \o (IF c.ranges = <<>> THEN <<>>
        ELSE <<newLocWithComments(c, t.path, <<rangeTag>>)>>
               \o Joint([i \in DOMAIN c.ranges |-> RangeLocs(c.ranges[i], t.path, <<rangeTag, t.at.rrange + i - 1>>)]))
ReservedDecl(s, t, c, nameTag, rangeTag, names) ==
  Calls(addLocs(s, ReservedLocs(c, t, nameTag, rangeTag, names)),
        <<After(t, [rname |-> t.at.rname + Len(names), rrange |-> t.at.rrange + Len(c.ranges)])>>)

-----------------------------------------------------------------------------
(* Messages *)

Message(n, fieldPath) == Call("message", n, Nil) @@ [fieldPath |-> fieldPath]
\* The open brace is the last token before the declarations.
Brace(n) == n.children[Len(n.children) - Len(n.decls) - 1]
generateSourceCodeInfoForMessage(s, t) ==
  Calls(addLocs(s, <<newBlockLocWithComments(t.n, Brace(t.n), t.path, <<>>), newLoc(t.n.name, t.path, <<1>>)>>
                     \o (IF t.fieldPath = Nil THEN <<>> ELSE <<newLoc(t.n.name, t.fieldPath, <<6>>)>>)),
        <<Loop("message decls", t.n, t.path)>>)

\* A group: its field, and after that its message; the path of the message
\* is made after the field's, of an array of its own if it was cloned.
Group(n, fieldPath, path, xs, clone) ==
  Call("group", n, path) @@ [fieldPath |-> fieldPath, xs |-> xs, clone |-> clone]
GroupMessage(s, t) ==
  LET a == IF t.clone THEN appendToClone(s.heap, t.path, t.xs) ELSE append(s.heap, t.path, t.xs)
  IN Calls([s EXCEPT !.heap = a.heap], <<[Message(t.n, t.fieldPath) EXCEPT !.path = a.slice]>>)
GroupDecl(s, t, c, extendee, fieldXs, msgPath, msgXs, clone, at) ==
  LET a == append(s.heap, t.path, fieldXs)
  IN Calls([s EXCEPT !.heap = a.heap],
           <<[Field(c, extendee) EXCEPT !.path = a.slice], Group(c, a.slice, msgPath, msgXs, clone), After(t, at)>>)

\* The loops over extends and oneofs, which use the indices of the body that they are in.
Extend(n, path, msgPath, at) == [Loop("extend decls", n, path) EXCEPT !.at = at] @@ [msgPath |-> msgPath]
Oneof(n, path, msgPath, oneofPath, at) == [Loop("oneof decls", n, path) EXCEPT !.at = at] @@ [msgPath |-> msgPath, oneofPath |-> oneofPath]
Groups(c) == Len(Each({"group"}, c.decls))
ExtendDecl(s, t, c, extTag, msgTag) ==
  LET exts == append(s.heap, t.path, <<extTag>>)
      msgs == appendToClone(exts.heap, t.path, <<msgTag>>)
      opened == addLoc([s EXCEPT !.heap = msgs.heap], newBlockLocWithComments(c, Brace(c), exts.slice, <<>>))
  IN Calls(opened, <<Extend(c, exts.slice, msgs.slice, t.at),
                     After(t, [ext |-> t.at.ext + Len(FieldNodes(c.decls)), msg |-> t.at.msg + Groups(c)])>>)
OneofDecl(s, t, c) ==
  LET flds == append(s.heap, t.path, <<2>>)
      msgs == appendToClone(flds.heap, t.path, <<3>>)
      oneof == appendToClone(msgs.heap, t.path, <<8, t.at.oneof>>)
      opened == addLocs([s EXCEPT !.heap = oneof.heap],
                  <<newBlockLocWithComments(c, Brace(c), oneof.slice, <<>>), newLoc(c.name, oneof.slice, <<1>>)>>)
  IN Calls(opened, <<Oneof(c, flds.slice, msgs.slice, oneof.slice, [t.at EXCEPT !.opt = 0]),
                     After(t, [oneof |-> t.at.oneof + 1, field |-> t.at.field + Len(FieldNodes(c.decls)), msg |-> t.at.msg + Groups(c)])>>)

Skip(s, t) == Calls(s, <<After(t, t.at)>>)
OptionDecl(s, t, c, tag) == Enter(s, t, Option(c, FALSE, t.at.opt), <<tag>>, [opt |-> NextOpt(c, t.at.opt)])

MessageDecl(s, t, c) ==
  CASE c.kind = "option" -> OptionDecl(s, t, c, 7)
    [] c.kind = "field" -> Enter(s, t, Field(c, Nil), <<2, t.at.field>>, [field |-> t.at.field + 1])
    [] c.kind = "group" ->
         GroupDecl(s, t, c, Nil, <<2, t.at.field>>, t.path, <<3, t.at.msg>>, TRUE, [field |-> t.at.field + 1, msg |-> t.at.msg + 1])
    [] c.kind = "mapField" -> Enter(s, t, Field(c, Nil), <<2, t.at.field>>, [field |-> t.at.field + 1, msg |-> t.at.msg + 1])
    [] c.kind = "oneof" -> OneofDecl(s, t, c)
    [] c.kind = "message" -> Enter(s, t, Message(c, Nil), <<3, t.at.msg>>, [msg |-> t.at.msg + 1])
    [] c.kind = "enum" -> Enter(s, t, Call("enum", c, Nil), <<4, t.at.enum>>, [enum |-> t.at.enum + 1])
    [] c.kind = "extend" -> ExtendDecl(s, t, c, 6, 3)
    [] c.kind = "extensions" -> Enter(s, t, ExtensionRanges(c, t.at.range), <<5>>, [range |-> t.at.range + Len(c.ranges)])
    [] c.kind = "reserved" -> ReservedDecl(s, t, c, 10, 9, c.names \o c.identifiers)
    [] OTHER -> Skip(s, t)
generateSourceCodeInfoForExtensions(s, t, c) ==
  CASE c.kind = "field" -> Enter(s, t, Field(c, t.n.extendee), <<t.at.ext>>, [ext |-> t.at.ext + 1])
    [] c.kind = "group" ->
         GroupDecl(s, t, c, t.n.extendee, <<t.at.ext>>, t.msgPath, <<t.at.msg>>, FALSE, [ext |-> t.at.ext + 1, msg |-> t.at.msg + 1])
    [] OTHER -> Skip(s, t)
generateSourceCodeInfoForOneof(s, t, c) ==
  CASE c.kind = "option" ->
         LET a == append(s.heap, t.oneofPath, <<2>>)
         IN Calls([s EXCEPT !.heap = a.heap],
                  <<[Option(c, FALSE, t.at.opt) EXCEPT !.path = a.slice], After(t, [opt |-> NextOpt(c, t.at.opt)])>>)
    [] c.kind = "field" -> Enter(s, t, Field(c, Nil), <<t.at.field>>, [field |-> t.at.field + 1])
    [] c.kind = "group" ->
         GroupDecl(s, t, c, Nil, <<t.at.field>>, t.msgPath, <<t.at.msg>>, FALSE, [field |-> t.at.field + 1, msg |-> t.at.msg + 1])
    [] OTHER -> Skip(s, t)

-----------------------------------------------------------------------------
(* Enums, services and files *)

generateSourceCodeInfoForEnum(s, t) ==
  Calls(addLocs(s, <<newBlockLocWithComments(t.n, Brace(t.n), t.path, <<>>), newLoc(t.n.name, t.path, <<1>>)>>),
        <<Loop("enum decls", t.n, t.path)>>)
\* Reserved names that are identifiers have no locations here.
EnumDecl(s, t, c) ==
  CASE c.kind = "option" -> OptionDecl(s, t, c, 3)
    [] c.kind = "value" -> Enter(s, t, Call("value", c, Nil), <<2, t.at.value>>, [value |-> t.at.value + 1])
    [] c.kind = "reserved" -> ReservedDecl(s, t, c, 5, 4, c.names)
    [] OTHER -> Skip(s, t)

generateSourceCodeInfoForService(s, t) ==
  Calls(addLocs(s, <<newBlockLocWithComments(t.n, Brace(t.n), t.path, <<>>), newLoc(t.n.name, t.path, <<1>>)>>),
        <<Loop("service decls", t.n, t.path)>>)
ServiceDecl(s, t, c) ==
  CASE c.kind = "option" -> OptionDecl(s, t, c, 3)
    [] c.kind = "rpc" -> Enter(s, t, Call("rpc", c, Nil), <<2, t.at.value>>, [value |-> t.at.value + 1])
    [] OTHER -> Skip(s, t)

generateSourceCodeInfoForMethod(s, t) ==
  LET n == t.n
      typeLocs(rpc, tag, streamTag) ==
        (IF rpc.stream = Nil THEN <<>> ELSE <<newLoc(rpc.stream, t.path, <<streamTag>>)>>) \o <<newLoc(rpc.type, t.path, <<tag>>)>>
      whole == IF n.open = Nil THEN newLocWithComments(n, t.path, <<>>) ELSE newBlockLocWithComments(n, n.open, t.path, <<>>)
      located == addLocs(s, <<whole, newLoc(n.name, t.path, <<1>>)>> \o typeLocs(n.input, 2, 5) \o typeLocs(n.output, 3, 6))
      a == append(located.heap, t.path, <<4>>)
  IN Calls([located EXCEPT !.heap = a.heap], <<Loop("rpc decls", n, a.slice)>>)
MethodDecl(s, t, c) ==
  IF c.kind = "option" THEN Enter(s, t, Option(c, FALSE, t.at.opt), <<>>, [opt |-> NextOpt(c, t.at.opt)]) ELSE Skip(s, t)

ImportDecl(s, t, c) ==
  LET is(modifier) == c.modifier # Nil /\ c.modifier.val = modifier
  IN Calls(addLocs(s, <<newLocWithComments(c, t.path, <<3, t.at.dep>>)>>
                        \o (IF is("public") THEN <<newLoc(c.modifier, t.path, <<10, t.at.public>>)>> ELSE <<>>)
                        \o (IF is("weak") THEN <<newLoc(c.modifier, t.path, <<11, t.at.weak>>)>> ELSE <<>>)),
           <<After(t, [dep |-> t.at.dep + 1, public |-> t.at.public + One(is("public")), weak |-> t.at.weak + One(is("weak"))])>>)
FileDecl(s, t, c) ==
  CASE c.kind = "import" -> ImportDecl(s, t, c)
    [] c.kind = "package" -> Skip(addLoc(s, newLocWithComments(c, t.path, <<2>>)), t)
    [] c.kind = "option" -> OptionDecl(s, t, c, 8)
    [] c.kind = "message" -> Enter(s, t, Message(c, Nil), <<4, t.at.msg>>, [msg |-> t.at.msg + 1])
    [] c.kind = "enum" -> Enter(s, t, Call("enum", c, Nil), <<5, t.at.enum>>, [enum |-> t.at.enum + 1])
    [] c.kind = "extend" -> ExtendDecl(s, t, c, 7, 4)
    [] c.kind = "service" -> Enter(s, t, Call("service", c, Nil), <<6, t.at.svc>>, [svc |-> t.at.svc + 1])
    [] OTHER -> Skip(s, t)
generateSourceInfoForFile(s, file) ==
  LET path == [arr |-> 1, len |-> 0]
  IN Calls(addLocs(s, <<newLocWithoutComments(file, path, <<>>)>>
                        \o (IF file.header = Nil THEN <<>> ELSE <<newLocWithComments(file.header, path, <<12>>)>>)),
           <<Loop("file decls", file, path)>>)

-----------------------------------------------------------------------------
(* The behaviours *)

InfoInit == info = Nil

Generate ==
  /\ info = Nil /\ result # Nil /\ result.accepted
  /\ \E layout \in Layouts(Len(input) + 1), extra \in BOOLEAN :
       info' = generateSourceInfoForFile(
                 [layout |-> layout, extra |-> extra, todo |-> <<>>, heap |-> << [i \in 1..PathCap |-> 0] >>, locs |-> <<>>, used |-> {}],
                 values[1])
  /\ UNCHANGED <<parserVars, result>>

Busy == info # Nil /\ info.todo # <<>>
Popped == [info EXCEPT !.todo = Tail(@)]

\* One step of a loop over declarations, or its end.
Declare ==
  /\ Busy /\ "at" \in DOMAIN Head(info.todo)
  /\ \E t \in {Head(info.todo)}, s \in {Popped} :
       info' = IF t.i > Len(t.n.decls) THEN s
               ELSE CASE t.do = "file decls" -> FileDecl(s, t, t.n.decls[t.i])
                      [] t.do = "message decls" -> MessageDecl(s, t, t.n.decls[t.i])
                      [] t.do = "extend decls" -> generateSourceCodeInfoForExtensions(s, t, t.n.decls[t.i])
                      [] t.do = "oneof decls" -> generateSourceCodeInfoForOneof(s, t, t.n.decls[t.i])
                      [] t.do = "enum decls" -> EnumDecl(s, t, t.n.decls[t.i])
                      [] t.do = "service decls" -> ServiceDecl(s, t, t.n.decls[t.i])
                      [] t.do = "rpc decls" -> MethodDecl(s, t, t.n.decls[t.i])
  /\ UNCHANGED <<parserVars, result>>

Describe ==
  /\ Busy /\ "at" \notin DOMAIN Head(info.todo)
  /\ \E t \in {Head(info.todo)}, s \in {Popped} :
       info' = CASE t.do = "message" -> generateSourceCodeInfoForMessage(s, t)
                 [] t.do = "group" -> GroupMessage(s, t)
                 [] t.do = "field" -> generateSourceCodeInfoForField(s, t)
                 [] t.do = "extensions" -> generateSourceCodeInfoForExtensionRanges(s, t)
                 [] t.do = "range options" -> RangeOptions(s, t)
                 [] t.do = "option" -> generateSourceCodeInfoForOption(s, t)
                 [] t.do = "enum" -> generateSourceCodeInfoForEnum(s, t)
                 [] t.do = "value" -> generateSourceCodeInfoForEnumValue(s, t)
                 [] t.do = "service" -> generateSourceCodeInfoForService(s, t)
                 [] t.do = "rpc" -> generateSourceCodeInfoForMethod(s, t)
  /\ UNCHANGED <<parserVars, result>>

InfoNext == Generate \/ Declare \/ Describe

-----------------------------------------------------------------------------
(* Properties *)

\* The fields of descriptor.proto that hold the elements of each kind of element.
ListTags ==
  [file |-> [messages |-> <<4, "message">>, enums |-> <<5, "enum">>, extensions |-> <<7, "field">>, services |-> <<6, "service">>],
   message |-> [fields |-> <<2, "field">>, nested |-> <<3, "message">>, enums |-> <<4, "enum">>, ranges |-> <<5, "range">>,
                extensions |-> <<6, "field">>, oneofs |-> <<8, "oneof">>, reservedRanges |-> <<9, "leaf">>],
   enum |-> [values |-> <<2, "value">>, reservedRanges |-> <<4, "leaf">>],
   service |-> [methods |-> <<2, "method">>],
   uninterpreted |-> [names |-> <<2, "leaf">>],
   field |-> <<>>, oneof |-> <<>>, value |-> <<>>, method |-> <<>>, range |-> <<>>, leaf |-> <<>>]
OptionsTags == [file |-> 8, message |-> 7, field |-> 8, oneof |-> 2, enum |-> 3, value |-> 3, service |-> 3, method |-> 4, range |-> 3]
RECURSIVE Numbered(_, _, _)
Numbered(e, kind, path) ==
  {<<path, e>>}
    \cup UNION {UNION {Numbered(e[p][i], ListTags[kind][p][2], path \o <<ListTags[kind][p][1], i - 1>>) : i \in DOMAIN e[p]} : p \in DOMAIN ListTags[kind]}
    \cup (IF kind \notin DOMAIN OptionsTags THEN {}
          ELSE LET opts == SelectSeq(e.options, LAMBDA o : ~Interpreted(o.of))
               IN UNION {Numbered(opts[i], "uninterpreted", path \o <<OptionsTags[kind], 999, i - 1>>) : i \in DOMAIN opts})

CommentsOf(loc) == FlattenSeq(loc.detached) \o loc.lead \o loc.trail

\* When source info is done, every element of the descriptor proto has a
\* location, with the path to the element and the node that the index has for
\* it, and the elements that stand for no declaration of their own have none; no comment is
\* attributed twice.
LocationsAreExact ==
  info # Nil /\ info.todo = <<>> =>
    /\ \A x \in Numbered(result.proto, "file", <<>>) :
         LET nodes == {info.locs[i].node : i \in {j \in DOMAIN info.locs : info.locs[j].path = x[1]}}
             of == x[2].of
         IN IF "from" \notin DOMAIN of THEN of \in nodes
            ELSE IF of.kind = "groupMessage" THEN nodes = {of.from} ELSE nodes = {}
    /\ LET all == FlattenSeq([i \in DOMAIN info.locs |-> CommentsOf(info.locs[i])])
       IN \A i, j \in DOMAIN all : all[i] = all[j] => i = j
=============================================================================
