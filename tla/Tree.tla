-------------------------------- MODULE Tree --------------------------------
(***************************************************************************)
(* The elements of a file as a tree: an element has a kind, a name and     *)
(* `kids`, its direct elements; a file has a package instead of a name.    *)
(* Names are sequences of identifiers.                                     *)
(***************************************************************************)
EXTENDS Integers, Sequences, SequencesExt

CONSTANT Nil \* no descriptor; an absent option, type or extendee

\* The elements of one list of a descriptor.
Kids(n, kind) == SelectSeq(n.kids, LAMBDA k : k.kind = kind)

\* The lists in the order in which they are walked, with the tags of their fields.
FileLists == << <<"message", 4>>, <<"enum", 5>>, <<"extension", 7>>, <<"service", 6>> >>
MessageLists == << <<"field", 2>>, <<"oneof", 8>>, <<"message", 3>>, <<"enum", 4>>, <<"extension", 6>> >>
EnumLists == << <<"value", 2>> >>
ServiceLists == << <<"method", 2>> >>

Lists(n) == CASE n.kind = "file" -> FileLists
              [] n.kind = "message" -> MessageLists
              [] n.kind = "enum" -> EnumLists
              [] n.kind = "service" -> ServiceLists
              [] OTHER -> <<>>

\* The element's name within `prefix`, and the prefix of what is inside of it:
\* the values of an enum are its siblings.
Scope(n, prefix) == IF n.kind = "file" THEN n.pkg ELSE IF n.kind = "enum" THEN prefix ELSE Append(prefix, n.name)
FQN(n, prefix) == Append(prefix, n.name)

\* sort.Search in i..j - 1 for a condition that holds at the given indices: by
\* halves, the first of them, or j, when the condition never ceases to hold.
RECURSIVE Search(_, _, _)
Search(i, j, holds) ==
  LET h == (i + j) \div 2 IN IF i >= j THEN i ELSE IF h \in holds THEN Search(i, h, holds) ELSE Search(h + 1, j, holds)

\* DescriptorsEnterAndExit: the elements inside of n, in order.
DescriptorLists(n) ==
  CASE n.kind = "file" -> <<"message", "enum", "extension", "service">>
    [] n.kind = "message" -> <<"field", "oneof", "message", "enum", "extension">>
    [] n.kind = "enum" -> <<"value">>
    [] n.kind = "service" -> <<"method">>
    [] OTHER -> <<>>

RECURSIVE walkContainer(_, _)
walkContainer(n, prefix) ==
  FlattenSeq([l \in DOMAIN DescriptorLists(n) |->
    FlattenSeq([i \in DOMAIN Kids(n, DescriptorLists(n)[l]) |->
      LET kid == Kids(n, DescriptorLists(n)[l])[i]
          name == FQN(kid, Scope(n, prefix))
      IN << <<"enter", name>> >> \o walkContainer(kid, Scope(n, prefix)) \o << <<"exit", name>> >>])])
=============================================================================
