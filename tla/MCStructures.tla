---------------------------- MODULE MCStructures ----------------------------
(***************************************************************************)
(* The containers the compilers are built on, each on its own: a behaviour *)
(* works with the one it is about from its first state.                    *)
(***************************************************************************)
EXTENDS Interval, Queue, Toposort, Trie, Arena

CONSTANT Subjects \* the containers to check
VARIABLE subject

structuresVars ==
  <<subject, intersectVars, queueVars, toposortVars, trieVars, arenaVars>>

Init ==
  /\ subject \in Subjects
  /\ IntersectInit /\ QueueInit /\ ToposortInit /\ TrieInit /\ ArenaInit

IntersectSteps ==
  /\ subject = "intersect" /\ IntersectNext
  /\ UNCHANGED <<subject, queueVars, toposortVars, trieVars, arenaVars>>
QueueSteps ==
  /\ subject = "queue" /\ QueueNext
  /\ UNCHANGED <<subject, intersectVars, toposortVars, trieVars, arenaVars>>
Sorting ==
  /\ subject = "toposort" /\ SortStep
  /\ UNCHANGED <<subject, intersectVars, queueVars, trieVars, arenaVars>>
SortBegins ==
  /\ subject = "toposort" /\ \E rs \in RootLists, g \in Dags : SortBegin(rs, g)
  /\ UNCHANGED <<subject, intersectVars, queueVars, trieVars, arenaVars>>
TrieSteps ==
  /\ subject = "trie" /\ TrieNext
  /\ UNCHANGED <<subject, intersectVars, queueVars, toposortVars, arenaVars>>
ArenaSteps ==
  /\ subject = "arena" /\ ArenaNext
  /\ UNCHANGED <<subject, intersectVars, queueVars, toposortVars, trieVars>>

Next ==
  IntersectSteps \/ QueueSteps \/ Sorting \/ SortBegins \/ TrieSteps \/ ArenaSteps

Spec == Init /\ [][Next]_structuresVars

-----------------------------------------------------------------------------
SomePoints == 0..2
SomeBatches == {<<>>, <<1>>, <<2, 1>>, <<1, 2, 2>>}
SomeRoots == {<<1>>, <<2, 1>>, <<3, 3, 2>>}
SomeDags == [{1, 2, 3} -> {<<>>, <<1>>, <<3>>, <<2, 3>>, <<3, 3>>}]

\* Keys of up to two bytes, a byte being two nybbles of {0, 1}; index types with
\* room for two, three, seven and fifteen rows.
SomeKeys == {<<>>, <<<<0, 0>>>>, <<<<1, 1>>>>}
              \cup {<<a, b>> : a \in {<<0, 1>>, <<1, 0>>}, b \in {<<0, 0>>, <<1, 1>>}}
SomeOnes == <<2, 3, 7, 15>>
=============================================================================
