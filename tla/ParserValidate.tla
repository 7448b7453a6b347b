--------------------------- MODULE ParserValidate ---------------------------
(***************************************************************************)
(* The checks of a descriptor proto that need no other file                *)
(* (parser/validate.go).  A check is TRUE when it reports nothing.         *)
(***************************************************************************)
EXTENDS ParserResult

-----------------------------------------------------------------------------
(* Imports, visibility and features *)

\* "import option" and visibility are those of edition 2024.
EditionOf(file) == IF file.header # Nil /\ file.header.kind = "edition" THEN file.header.syntax.val ELSE Nil

validateImports(file) ==
  LET imports == Each({"import"}, file.decls)
  IN /\ \A i, j \in DOMAIN imports : imports[i].name.val = imports[j].name.val => i = j
     /\ EditionOf(file) # "2024" => \A i \in DOMAIN imports : imports[i].modifier = Nil \/ imports[i].modifier.val # "option"

\* Only messages are searched: not the bodies of groups, oneofs and extends.
RECURSIVE validateExportLocalNode(_)
validateExportLocalNode(node) ==
  /\ node.kind \in {"message", "enum"} => node.visibility = Nil
  /\ node.kind = "message" => \A i \in DOMAIN node.decls : validateExportLocalNode(node.decls[i])
validateExportLocal(file) ==
  EditionOf(file) # "2024" => \A i \in DOMAIN file.decls : validateExportLocalNode(file.decls[i])

validateNoFeatures(opts, syntax) == syntax = "editions" \/ FindFirstOption(opts, "features") = 0

\* An option that may not be there; it is an error as well when it is there twice.
Unset(opts, name) == FindOption(opts, name) = 0 /\ Repeated(opts, name) = 0

-----------------------------------------------------------------------------
(* Ranges *)

Less(r, s) == r.start < s.start \/ (r.start = s.start /\ r.end < s.end)
SortedRanges(ranges) == SortSeq(ranges, Less)

\* The names of the models have no characters other than letters, digits, underscores and dots.
isIdentifier(s) ==
  /\ s # "" /\ SubSeq(s, 1, 1) \notin {"0", "1", "2", "3", "4", "5", "6", "7", "8", "9"}
  /\ \A i \in 1..Len(s) : SubSeq(s, i, i) # "."

\* Adjacent ranges, after sorting; gap is 0 for ranges whose ends are exclusive and 1 for others.
Disjoint(sorted, gap) == \A i \in 2..Len(sorted) : sorted[i].start - gap >= sorted[i - 1].end

\* The scan of both lists for a reserved range that overlaps an extension range.
Overlap(r, e) == (r.start >= e.start /\ r.start < e.end) \/ (e.start >= r.start /\ e.start < r.end)
\* Mutant: the range that ends first is left, by the start of the wrong list.
RECURSIVE LeaveReserved(_, _, _, _)
LeaveReserved(rsvd, exts, i, j) ==
  i > Len(rsvd) \/ j > Len(exts)
    \/ (/\ ~Overlap(rsvd[i], exts[j])
        /\ IF rsvd[i].start > exts[j].start THEN LeaveReserved(rsvd, exts, i + 1, j) ELSE LeaveReserved(rsvd, exts, i, j + 1))
RECURSIVE ScanRanges(_, _, _, _)
ScanRanges(rsvd, exts, i, j) ==
  i > Len(rsvd) \/ j > Len(exts)
    \/ (/\ ~Overlap(rsvd[i], exts[j])
        /\ IF rsvd[i].start < exts[j].start THEN ScanRanges(rsvd, exts, i + 1, j) ELSE ScanRanges(rsvd, exts, i, j + 1))

\* sort.Search for the first range that ends after (for gap 1, at or after) the number.
Outside(number, sorted, gap) ==
  LET r == Search(0, Len(sorted), {i \in 0..Len(sorted) - 1 : sorted[i + 1].end > number - gap})
  IN r = Len(sorted) \/ sorted[r + 1].start > number

-----------------------------------------------------------------------------
(* Elements *)

\* Fields that lack a number count as having the number 0.
GetNumber(f) == IF f.number = Nil THEN 0 ELSE f.number
ValidFields(fields, rsvd, exts, names) ==
  /\ \A i \in DOMAIN fields : fields[i].name \notin names
  /\ \A i, j \in DOMAIN fields : GetNumber(fields[i]) = GetNumber(fields[j]) => i = j
  /\ \A i \in DOMAIN fields : Outside(GetNumber(fields[i]), rsvd, 0) /\ Outside(GetNumber(fields[i]), exts, 0)
ValidRanges(rsvd, exts) == Disjoint(rsvd, 0) /\ Disjoint(exts, 0) /\ ScanRanges(rsvd, exts, 1, 1)
ValidNames(names) == \A i \in DOMAIN names : isIdentifier(names[i])

validateMessage(m, syntax) ==
  /\ syntax = "proto3" => m.ranges = <<>>
  /\ Unset(m.options, "map_entry")
  /\ validateNoFeatures(m.options, syntax)
  /\ \A i \in DOMAIN m.ranges : validateNoFeatures(m.ranges[i].options, syntax)
  /\ ValidNames(m.reservedNames)
  /\ \E rsvd \in {SortedRanges(m.reservedRanges)}, exts \in {SortedRanges(m.ranges)} :
       ValidRanges(rsvd, exts) /\ ValidFields(m.fields, rsvd, exts, ToSet(m.reservedNames))

\* allow_alias has to be true when two values have a number, and only then.
validateAliases(e) ==
  LET i == FindOption(e.options, "allow_alias")
      value == IF i = 0 THEN Nil ELSE e.options[i].value
      allowed == i # 0 /\ value.tag = "identifier_value" /\ value.val = "true"
      hasAlias == \E j, k \in DOMAIN e.values : j # k /\ e.values[j].number = e.values[k].number
  IN /\ Repeated(e.options, "allow_alias") = 0
     /\ i # 0 => value.tag = "identifier_value" /\ value.val \in {"true", "false"}
     /\ allowed = hasAlias

validateEnum(e, syntax) ==
  /\ e.values # <<>>
  /\ validateNoFeatures(e.options, syntax)
  /\ validateAliases(e)
  /\ syntax = "proto3" /\ e.values # <<>> => e.values[1].number = 0
  /\ ValidNames(e.reservedNames)
  /\ \A i \in DOMAIN e.values : e.values[i].name \notin ToSet(e.reservedNames)
  /\ \E rsvd \in {SortedRanges(e.reservedRanges)} :
       Disjoint(rsvd, 1) /\ \A i \in DOMAIN e.values : Outside(e.values[i].number, rsvd, 1)

validateField(f, syntax) ==
  /\ f.number # Nil
  /\ syntax # "proto2" => ~f.group /\ f.label # "required"
  /\ syntax = "editions" => f.label # "optional" /\ Unset(f.options, "packed")
  /\ syntax = "proto3" => Unset(f.options, "default")
  /\ syntax = "proto2" => (f.label = Nil => f.oneof # Nil) /\ (f.extendee # Nil => f.label # "required")
  /\ validateNoFeatures(f.options, syntax)

-----------------------------------------------------------------------------
(* Files *)

\* The walk of walk.DescriptorProtos.
ValidEnum(e, syntax) == validateEnum(e, syntax) /\ \A i \in DOMAIN e.values : validateNoFeatures(e.values[i].options, syntax)
RECURSIVE ValidMessage(_, _)
ValidMessage(m, syntax) ==
  /\ validateMessage(m, syntax)
  /\ \A i \in DOMAIN m.fields : validateField(m.fields[i], syntax)
  /\ \A i \in DOMAIN m.oneofs : validateNoFeatures(m.oneofs[i].options, syntax)
  /\ \A i \in DOMAIN m.nested : ValidMessage(m.nested[i], syntax)
  /\ \A i \in DOMAIN m.enums : ValidEnum(m.enums[i], syntax)
  /\ \A i \in DOMAIN m.extensions : validateField(m.extensions[i], syntax)
ValidService(s, syntax) ==
  validateNoFeatures(s.options, syntax) /\ \A i \in DOMAIN s.methods : validateNoFeatures(s.methods[i].options, syntax)

validateBasic(fd) ==
  /\ validateImports(fd.of) /\ validateExportLocal(fd.of)
  /\ validateNoFeatures(fd.options, fd.syntax)
  /\ \A i \in DOMAIN fd.messages : ValidMessage(fd.messages[i], fd.syntax)
  /\ \A i \in DOMAIN fd.enums : ValidEnum(fd.enums[i], fd.syntax)
  /\ \A i \in DOMAIN fd.extensions : validateField(fd.extensions[i], fd.syntax)
  /\ \A i \in DOMAIN fd.services : ValidService(fd.services[i], fd.syntax)
=============================================================================
