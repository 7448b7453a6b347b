----------------------------- MODULE MCIncremental -----------------------------
(* Instances of Incremental for TLC. *)
EXTENDS Incremental

CONSTANTS a, b, c

ABC == {a, b, c}
AB == {a, b}

Calm(D) == [deps |-> D, panics |-> {}]

\* Every graph in which a has up to two dependencies and b and c up to one.
ListA == {<<>>, <<b>>, <<b, c>>, <<c, b>>, <<a, b>>}
ListB == {<<>>, <<a>>, <<c>>, <<c, a>>}
ListC == {<<>>, <<a>>, <<b>>}
Graphs == {Calm([q \in ABC |-> IF q = a THEN x ELSE IF q = b THEN y ELSE z]) :
             x \in ListA, y \in ListB, z \in ListC}

\* The queries of two Runs.
AskedAB == <<<<a>>, <<b>>>>
AskedAC == <<<<a>>, <<c>>>>

Diamond == [q \in ABC |-> IF q = a THEN <<b, c>> ELSE IF q = b THEN <<c>> ELSE <<>>]
Loop == [q \in ABC |-> IF q = a THEN <<b>> ELSE IF q = b THEN <<c, a>> ELSE <<>>]
Faulty == {[deps |-> Diamond, panics |-> {c}], Calm(Loop)}
Pair == [q \in AB |-> IF q = a THEN <<b>> ELSE <<>>]
PairPrograms == {Calm(Pair)}
EvictOneB == {{b}}
NoEvictions == {}
==============================================================================
