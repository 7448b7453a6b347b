----------------------------- MODULE Retention ------------------------------
(***************************************************************************)
(* options.StripSourceRetentionOptionsFromFile: the options that are kept  *)
(* only in source are taken out of a file, and their locations out of its  *)
(* source code info.  An element has a kind, `opts` (the numbers of its    *)
(* options and whether there are unknown fields among them, or NoOptions), *)
(* `unknown` (whether the element itself has unknown fields) and `kids`.   *)
(***************************************************************************)
EXTENDS Integers, Sequences, SequencesExt, FiniteSets

CONSTANTS SourceOnly,     \* the options whose retention is RETENTION_SOURCE
          NoOptions,      \* nil
          RetentionFiles, \* the files
          NoLocations     \* no source code info

VARIABLES original, stripped, \* the file before and after, or <<>>
          locations,          \* its source code info: a set of paths
          newLocations        \* that of the result

retentionVars == <<original, stripped, locations, newLocations>>

\* The tag of the options of each kind of element, and of the lists it may be in.
OptionsTag == [file |-> 8, message |-> 7, field |-> 8, extension |-> 8, oneof |-> 2, range |-> 3,
               enum |-> 3, value |-> 3, service |-> 3, method |-> 4]
ListTag(parent, kind) ==
  CASE kind = "message" -> IF parent = "file" THEN 4 ELSE 3
    [] kind = "enum" -> IF parent = "file" THEN 5 ELSE 4
    [] kind = "extension" -> IF parent = "file" THEN 7 ELSE 6
    [] kind = "service" -> 6
    [] kind = "field" -> 2
    [] kind = "oneof" -> 8
    [] kind = "range" -> 5
    [] OTHER -> 2

\* The path of the j-th element inside of n: its index among those of its kind.
KidPath(n, path, j) ==
  path \o <<ListTag(n.kind, n.kids[j].kind), Cardinality({k \in 1..j - 1 : n.kids[k].kind = n.kids[j].kind})>>
OptionsPath(n, path) == Append(path, OptionsTag[n.kind])

StripOptionsOneByOne(opts, path) ==
  IF opts = NoOptions \/ opts.nums \cap SourceOnly = {} THEN [opts |-> opts, removed |-> {}]
  ELSE [opts |-> IF opts.nums \subseteq SourceOnly THEN NoOptions
                 ELSE [nums |-> opts.nums \ SourceOnly, unknown |-> FALSE],
        removed |-> {Append(path, num) : num \in opts.nums \cap SourceOnly}]

\* stripSourceRetentionOptions: the new options and the paths to forget.  The
\* new message has the known fields that stay, and never the unknown ones.
StripOptions(opts, path) ==
  IF opts = NoOptions \/ opts.nums \cap SourceOnly = {} THEN [opts |-> opts, removed |-> {}]
  ELSE IF opts.nums \subseteq SourceOnly THEN [opts |-> NoOptions, removed |-> {path}]
  ELSE [opts |-> [nums |-> opts.nums \ SourceOnly, unknown |-> FALSE],
        removed |-> {Append(path, num) : num \in opts.nums \cap SourceOnly}]

\* The functions stripSourceRetentionOptionsFrom*: an element is copied
\* (shallowCopy, which takes the known fields) only when something in it changed.
RECURSIVE Strip(_, _)
Strip(n, path) ==
  LET own == StripOptions(n.opts, OptionsPath(n, path))
      kids == [j \in DOMAIN n.kids |-> Strip(n.kids[j], KidPath(n, path, j))]
      dirty == own.opts # n.opts \/ \E j \in DOMAIN kids : kids[j].changed
  IN [changed |-> dirty,
      removed |-> own.removed \cup UNION {kids[j].removed : j \in DOMAIN kids},
      node |-> IF ~dirty THEN n
               ELSE [n EXCEPT !.opts = own.opts, !.unknown = FALSE,
                              !.kids = [j \in DOMAIN kids |-> kids[j].node]]]

\* sourcePathTrie.isRemoved: some prefix of the path was added.
isRemoved(removed, p) == \E i \in 0..Len(p) : SubSeq(p, 1, i) \in removed

RetentionInit == original = <<>> /\ stripped = <<>> /\ locations = NoLocations /\ newLocations = NoLocations

StripFile(file, locs) ==
  LET r == Strip(file, <<>>)
  IN /\ original = <<>>
     /\ original' = file /\ locations' = locs
     /\ stripped' = r.node
     /\ newLocations' = IF ~r.changed \/ locs = NoLocations THEN locs
                        ELSE {p \in locs : ~isRemoved(r.removed, p)}

-----------------------------------------------------------------------------
\* The options of the file with their paths, and everything that has a location:
\* the elements, their options messages and the fields of those.
RECURSIVE OptionPaths(_, _)
OptionPaths(n, path) ==
  (IF n.opts = NoOptions THEN {} ELSE {Append(OptionsPath(n, path), num) : num \in n.opts.nums})
    \cup UNION {OptionPaths(n.kids[j], KidPath(n, path, j)) : j \in DOMAIN n.kids}

RECURSIVE ElementPaths(_, _)
ElementPaths(n, path) == {path} \cup UNION {ElementPaths(n.kids[j], KidPath(n, path, j)) : j \in DOMAIN n.kids}

Places(n) == ElementPaths(n, <<>>) \cup OptionPaths(n, <<>>) \cup {Front(p) : p \in OptionPaths(n, <<>>)}

RetentionNext ==
  original = <<>> /\ \E file \in RetentionFiles : \E locs \in {NoLocations, Places(file)} : StripFile(file, locs)

RECURSIVE UntouchedWithin(_, _)
UntouchedWithin(a, b) ==
  IF Places(a) = Places(b) THEN a = b
  ELSE \A j \in DOMAIN a.kids : UntouchedWithin(a.kids[j], b.kids[j])

\* The result has every element of the file, and of its known options exactly
\* those that are not kept only in source; an element with nothing to strip in
\* it is the very same, unknown fields included; and the source code info has a
\* location for exactly what is left in the file.
StrippingIsExact ==
  original # <<>> =>
    /\ ElementPaths(stripped, <<>>) = ElementPaths(original, <<>>)
    /\ OptionPaths(stripped, <<>>) = {p \in OptionPaths(original, <<>>) : Last(p) \notin SourceOnly}
    /\ UntouchedWithin(original, stripped)
    /\ newLocations # NoLocations => newLocations = Places(stripped)
=============================================================================
