----------------------------- MODULE Descriptors ----------------------------
(***************************************************************************)
(* Building the descriptors of a file (linker/descriptors.go) in slots of  *)
(* a pool that is sized by counting its elements beforehand (pool.go),     *)
(* finding the source path of a descriptor by way of its parents           *)
(* (internal.ComputePath), and walking over the descriptor protos with a   *)
(* path at hand (package walk).  That path is a Go slice which is appended *)
(* to on the way down: two slices may share an array.                      *)
(***************************************************************************)
EXTENDS Integers, Tree, FiniteSets

CONSTANTS Protos,   \* the files: trees whose fields have `oneof`, 0 or the position of theirs
          Failures  \* the callbacks that may fail: a number, 0 for none

VARIABLES proto,  \* the file that was built and walked, or <<>>
          built,  \* what createDescendants made of it
          failAt, \* the number of the callback that returns an error; 0 for none
          calls   \* the callbacks made: [dir, fqn, kind, at], `at` being the path

descriptorVars == <<proto, built, failAt, calls>>

PoolKinds == {"message", "field", "oneof", "enum", "value", "extension", "service", "method"}

-----------------------------------------------------------------------------
(* newAllocPool *)

Nothing == [k \in PoolKinds |-> 0]
Plus(p, q) == [k \in PoolKinds |-> p[k] + q[k]]
Count(n, kinds) == [k \in PoolKinds |-> IF k \in kinds THEN Len(Kids(n, k)) ELSE 0]
Sums(n, kind, counted(_)) == FoldLeft(LAMBDA p, kid : Plus(p, counted(kid)), Nothing, Kids(n, kind))

countElementsInEnums(n) == Plus(Count(n, {"enum"}), Sums(n, "enum", LAMBDA e : Count(e, {"value"})))

RECURSIVE countElementsInMessages(_)
countElementsInMessages(n) ==
  Plus(Count(n, {"message"}),
       Sums(n, "message", LAMBDA m : Plus(Count(m, {"field", "oneof", "extension"}),
                                          Plus(countElementsInMessages(m), countElementsInEnums(m)))))

countElementsTopOnly(file) ==
  Plus(Plus(countElementsInMessages(file), countElementsInEnums(file)), Count(file, {"extension", "service"}))
countElements(file) ==
  Plus(Plus(countElementsInMessages(file), countElementsInEnums(file)),
       Plus(Count(file, {"extension", "service"}), Sums(file, "service", LAMBDA s : Count(s, {"method"}))))

-----------------------------------------------------------------------------
(* createDescendants *)

\* getMessages and its siblings: st.left slots of each kind are free, the next
\* one is st.next; taking more than there are panics.
Take(st, kind, n) ==
  IF n > st.left[kind] THEN [st EXCEPT !.panicked = TRUE]
  ELSE [st EXCEPT !.left[kind] = @ - n, !.next[kind] = @ + n]

\* createOneofDescriptor: the fields of the parent with the oneof's index.
OneofFields(st, parent, index) ==
  {i \in DOMAIN st.made : LET d == st.made[i] IN d.kind = "field" /\ d.parent = parent /\ d.oneof = index + 1}

\* createMessageDescriptor and its siblings; d is the number of the descriptor that was just made.
RECURSIVE createDescriptors(_, _, _, _)
createDescriptors(st, n, prefix, d) ==
  LET Listed(s, kind) ==
        LET kids == Kids(n, kind)
            first == s.next[kind]
            Made(t, i) ==
              LET new == [kind |-> kind, fqn |-> FQN(kids[i], Scope(n, prefix)), parent |-> d, index |-> i - 1,
                          slot |-> first + i - 1, oneof |-> IF kind = "field" THEN kids[i].oneof ELSE 0,
                          fields |-> IF kind = "oneof" THEN OneofFields(t, d, i - 1) ELSE {}]
              IN createDescriptors([t EXCEPT !.made = Append(@, new)], kids[i], Scope(n, prefix), Len(t.made) + 1)
        IN IF s.panicked THEN s
           ELSE FoldLeft(LAMBDA t, i : IF t.panicked THEN t ELSE Made(t, i), Take(s, kind, Len(kids)),
                         [i \in DOMAIN kids |-> i])
  IN FoldLeft(Listed, st, DescriptorLists(n))

createDescendants(file) ==
  createDescriptors([left |-> countElements(file), next |-> Nothing, made |-> <<>>, panicked |-> FALSE], file, <<>>, 0)

\* FindDescriptorByName: the map keeps the last descriptor of a name.
FindDescriptorByName(fqn) ==
  LET named == {i \in DOMAIN built.made : built.made[i].fqn = fqn}
  IN IF named = {} THEN 0 ELSE CHOOSE i \in named : \A j \in named : j <= i

\* ComputePath: from the descriptor up to the file, then reversed.
ParentKind(made, d) == IF made[d].parent = 0 THEN "file" ELSE made[made[d].parent].kind
TagIn(kind, parent) ==
  LET lists == CASE parent = "file" -> FileLists
                 [] parent = "message" -> MessageLists
                 [] parent = "enum" -> EnumLists
                 [] parent = "service" -> ServiceLists
  IN (CHOOSE l \in Range(lists) : l[1] = kind)[2]

RECURSIVE PathUp(_, _)
PathUp(made, d) ==
  IF d = 0 THEN <<>> ELSE <<made[d].index, TagIn(made[d].kind, ParentKind(made, d))>> \o PathUp(made, made[d].parent)
ComputePath(made, d) == Reverse(PathUp(made, d))

-----------------------------------------------------------------------------
(* Walks *)

\* append(p, tag, i): in place while there is room in p's array.
Room(p, h) == p.arr # 0 /\ p.len + 2 <= Len(h[p.arr])
NewCap(p, h) == IF p.arr = 0 THEN 2 ELSE 2 * Len(h[p.arr])
Appended(p, h, tag, i) ==
  LET kept == IF p.arr = 0 THEN <<>> ELSE SubSeq(h[p.arr], 1, p.len)
      full == kept \o <<tag, i>> \o [j \in 1..NewCap(p, h) - p.len - 2 |-> 0]
  IN IF Room(p, h)
     THEN [path |-> [arr |-> p.arr, len |-> p.len + 2],
           arrays |-> [h EXCEPT ![p.arr] = [@ EXCEPT ![p.len + 1] = tag, ![p.len + 2] = i]]]
     ELSE [path |-> [arr |-> Len(h) + 1, len |-> p.len + 2], arrays |-> Append(h, full)]

Contents(p, h) == IF p.arr = 0 THEN <<>> ELSE SubSeq(h[p.arr], 1, p.len)

\* One callback: w is what the walk has done so far; nothing is done after an error.
Call(w, dir, fqn, kind, p) ==
  IF w.stopped THEN w
  ELSE [w EXCEPT !.calls = Append(@, [dir |-> dir, fqn |-> fqn, kind |-> kind, at |-> Contents(p, w.arrays)]),
                 !.stopped = Len(w.calls) + 1 = w.failAt]

\* walkDescriptorProto and its siblings: n is entered, its lists are walked, n is left.
RECURSIVE walkDescriptorProto(_, _, _, _)
walkDescriptorProto(w, n, prefix, p) ==
  LET lists == Lists(n)
      kidsOf(l) == Kids(n, lists[l][1])
      one(v, l, i) ==
        LET a == Appended(p, v.arrays, lists[l][2], i - 1)
            kid == kidsOf(l)[i]
            entered == Call([v EXCEPT !.arrays = a.arrays], "enter", FQN(kid, Scope(n, prefix)), kid.kind, a.path)
            inner == IF entered.stopped THEN entered ELSE walkDescriptorProto(entered, kid, Scope(n, prefix), a.path)
        IN IF v.stopped THEN v ELSE Call(inner, "exit", FQN(kid, Scope(n, prefix)), kid.kind, a.path)
      flat == FlattenSeq([l \in DOMAIN lists |-> [i \in DOMAIN kidsOf(l) |-> <<l, i>>]])
  IN FoldLeft(LAMBDA v, li : one(v, li[1], li[2]), w, flat)

walkDescriptorProtos(file, fail) ==
  walkDescriptorProto([calls |-> <<>>, arrays |-> <<>>, stopped |-> FALSE, failAt |-> fail],
                      file, <<>>, [arr |-> 0, len |-> 0])

DescriptorsInit == proto = <<>> /\ built = <<>> /\ failAt = 0 /\ calls = <<>>

\* The file is linked, and then walked.
BuildAndWalk(file, fail) ==
  /\ proto = <<>>
  /\ proto' = file /\ built' = createDescendants(file)
  /\ failAt' = fail /\ calls' = walkDescriptorProtos(file, fail).calls

DescriptorsNext == proto = <<>> /\ \E file \in Protos, fail \in Failures : BuildAndWalk(file, fail)

-----------------------------------------------------------------------------
RECURSIVE ElementAt(_, _)
ElementAt(n, path) ==
  IF path = <<>> THEN n
  ELSE LET list == CHOOSE l \in Range(Lists(n)) : l[2] = path[1]
       IN ElementAt(Kids(n, list[1])[path[2] + 1], SubSeq(path, 3, Len(path)))

\* The elements are counted in one recursion and built in another: the pool is
\* never short, nothing in it is left over, no slot is used twice, and a oneof
\* is built when all the fields it has to know are.
PoolIsExact ==
  built # <<>> =>
    /\ ~built.panicked /\ built.left = Nothing
    /\ \A i, j \in DOMAIN built.made : i # j => <<built.made[i].kind, built.made[i].slot>> # <<built.made[j].kind, built.made[j].slot>>
    /\ \A d \in DOMAIN built.made : built.made[d].kind = "oneof" =>
         built.made[d].fields = {i \in DOMAIN built.made : /\ built.made[i].parent = built.made[d].parent
                                                           /\ built.made[i].oneof = built.made[d].index + 1}

\* The walk of protos makes the calls that the walk of descriptors makes, up to
\* the first error, and each with the path that ComputePath finds for the
\* descriptor by climbing to its parents: the path at which its element is in
\* the file.  Paths share arrays while the walk lasts.
PathsAgree ==
  proto # <<>> =>
    LET all == walkContainer(proto, <<>>)
        expected == IF failAt = 0 \/ failAt > Len(all) THEN all ELSE SubSeq(all, 1, failAt)
    IN /\ [i \in DOMAIN calls |-> <<calls[i].dir, calls[i].fqn>>] = expected
       /\ \A i \in DOMAIN calls :
            /\ calls[i].at = ComputePath(built.made, FindDescriptorByName(calls[i].fqn))
            /\ ElementAt(proto, calls[i].at).name = Last(calls[i].fqn)

\* Together: what is built of a file and what a walk over it tells are the same
\* elements, each once, under the same names and paths.
DescriptorsAreExact == PoolIsExact /\ PathsAgree
=============================================================================
