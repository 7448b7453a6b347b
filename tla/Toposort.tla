------------------------------ MODULE Toposort ------------------------------
(***************************************************************************)
(* toposort.Sorter: a depth-first sort whose iterator may be stopped by    *)
(* its consumer, panics on a cycle, and is used again afterwards.  The     *)
(* intermediate representation orders the files it imports with it.       *)
(***************************************************************************)
EXTENDS Integers, Sequences, SequencesExt, FiniteSets

CONSTANTS Vertices, \* the nodes
          RootLists, \* the root lists of a call
          Dags,     \* the graphs: node -> sequence of children
          MaxSorts  \* a bound on the calls of one Sorter

VARIABLES dag, roots, \* the arguments of the running or last call
          nextRoot, \* how many roots it has pushed
          state, stack, iterating, \* the Sorter
          yielded,  \* what this call has yielded
          outcome,  \* "running", "done", "stopped" or "cycle"
          sorts     \* calls so far

toposortVars == <<dag, roots, nextRoot, state, stack, iterating, yielded, outcome, sorts>>

AllUnsorted == [n \in Vertices |-> "unsorted"]

ToposortInit ==
  /\ dag = [n \in Vertices |-> <<>>] /\ roots = <<>> /\ nextRoot = 0
  /\ state = AllUnsorted /\ stack = <<>> /\ iterating = FALSE
  /\ yielded = <<>> /\ outcome = "done" /\ sorts = 0

SortBegin(rs, g) ==
  /\ ~iterating /\ sorts < MaxSorts
  /\ iterating' = TRUE /\ dag' = g /\ roots' = rs /\ nextRoot' = 0
  /\ yielded' = <<>> /\ outcome' = "running" /\ sorts' = sorts + 1
  /\ UNCHANGED <<state, stack>>

\* The deferred function: it runs however the call ends.
Deferred(how) ==
  /\ state' = AllUnsorted /\ stack' = <<>> /\ iterating' = FALSE
  /\ outcome' = how

\* The children that push puts on the stack, in order.
LastUnsorted(ns) == SelectSeq(IF ns = <<>> THEN <<>> ELSE <<Last(ns)>>, LAMBDA n : state'[n] = "unsorted")
Unsorted(ns) == SelectSeq(ns, LAMBDA n : state'[n] = "unsorted")

\* push of the next root, or the end of the call when there is none.
PushRoot ==
  /\ iterating /\ stack = <<>> /\ nextRoot < Len(roots)
  /\ nextRoot' = nextRoot + 1
  /\ stack' = IF state[roots[nextRoot']] = "unsorted" THEN <<roots[nextRoot']>> ELSE <<>>
  /\ UNCHANGED <<dag, roots, state, iterating, yielded, outcome, sorts>>

SortFinish ==
  /\ iterating /\ stack = <<>> /\ nextRoot = Len(roots)
  /\ Deferred("done") /\ UNCHANGED <<dag, roots, nextRoot, yielded, sorts>>

\* First visit: the children are pushed; one that is being walked is a cycle.
VisitNode ==
  /\ iterating /\ stack # <<>> /\ state[Last(stack)] = "unsorted"
  /\ LET node == Last(stack)
         walked == [state EXCEPT ![node] = "walking"]
     IN IF \E i \in DOMAIN dag[node] : walked[dag[node][i]] = "walking"
        THEN Deferred("cycle")
        ELSE /\ state' = walked /\ stack' = stack \o Unsorted(dag[node])
             /\ UNCHANGED <<iterating, outcome>>
  /\ UNCHANGED <<dag, roots, nextRoot, yielded, sorts>>

\* Second visit: the node is popped and, the first time, yielded; the consumer
\* may stop the iteration there.  One that was yielded meanwhile is only popped.
PopNode ==
  /\ iterating /\ stack # <<>> /\ state[Last(stack)] # "unsorted"
  /\ LET node == Last(stack)
     IN IF state[node] = "sorted"
        THEN stack' = Front(stack) /\ UNCHANGED <<state, iterating, outcome, yielded>>
        ELSE /\ yielded' = Append(yielded, node)
             /\ \/ /\ state' = [state EXCEPT ![node] = "sorted"] /\ stack' = Front(stack)
                   /\ UNCHANGED <<iterating, outcome>>
                \/ Deferred("stopped")
  /\ UNCHANGED <<dag, roots, nextRoot, sorts>>

SortStep == PushRoot \/ SortFinish \/ VisitNode \/ PopNode

-----------------------------------------------------------------------------
\* Some nodes of `within` form a cycle.
Cyclic(within) ==
  \E S \in (SUBSET within) \ {{}} : \A n \in S : \E i \in DOMAIN dag[n] : dag[n][i] \in S

\* A node comes once, after all of its children, also in a Sorter whose earlier
\* calls were stopped or panicked.
ChildrenComeFirst ==
  /\ IsInjective(yielded)
  /\ \A i \in DOMAIN yielded : \A c \in Range(dag[yielded[i]]) : \E j \in 1..i - 1 : yielded[j] = c

\* The panic is about a cycle that is there; a call that was not stopped has
\* yielded every root, hence what it reaches, and met no cycle.
CyclesAreReal ==
  /\ outcome = "cycle" => Cyclic(Vertices)
  /\ outcome = "done" => Range(roots) \subseteq Range(yielded) /\ ~Cyclic(Range(yielded))

\* Together: what a call yields is an order of the graph, and it fails only where there is none.
OrderIsTopological == ChildrenComeFirst /\ CyclesAreReal
=============================================================================
