------------------------------ MODULE MCCompiler ------------------------------
(* Instances of Compiler for TLC.                                          *)
EXTENDS Compiler, SequencesExt

CONSTANTS a, b, c, d

ABCD == {a, b, c, d}
ABD == {a, b, d}
ExplicitAB == <<a, b>>
ExplicitA == <<a>>
ExplicitB == <<b>>

Good(imports) == [search |-> "source", imports |-> imports, link |-> "ok", close |-> "ok"]
Standard == [search |-> "standard", imports |-> <<>>, link |-> "ok", close |-> "ok"]

\* Every import graph over a, b and c, self-imports included, of files that
\* are otherwise without fault; descriptor.proto is the built-in one.
GraphWorlds ==
  LET lists == {SetToSeq(S) : S \in SUBSET {a, b, c}}
  IN  {[f \in ABCD |-> IF f = d THEN Standard ELSE Good(g[f])] : g \in [{a, b, c} -> lists]}

\* a imports b, and each may be faulty in every way; descriptor.proto is the
\* built-in one or an override, itself possibly faulty.
Faulty(imports) ==
  {[Good(imports) EXCEPT !.search = s] : s \in {"missing", "panic", "mismatch", "badparse", "desc"}}
    \cup {[Good(imports) EXCEPT !.link = l] : l \in Links}
FaultWorlds ==
  {[f \in ABD |-> CASE f = a -> wa [] f = b -> wb [] f = d -> wd] :
     wa \in {Good(<<b>>), Good(<<b, d>>), [Good(<<b>>) EXCEPT !.search = "badparse", !.close = "panic"]},
     wb \in Faulty(<<>>),
     wd \in {Standard, Good(<<>>), [Good(<<>>) EXCEPT !.search = "badparse"]}}

\* An overriding descriptor.proto that imports a.
OverrideWorlds == {[f \in ABD |-> IF f = d THEN Good(<<a>>) ELSE Good(<<>>)]}
=============================================================================
