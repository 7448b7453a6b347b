---------------------------- MODULE CompilerProofs ----------------------------
(***************************************************************************)
(* Machine-checked theorems about Compiler, for every set of files, every  *)
(* MaxParallelism, every list of requested files and every Resolver, after *)
(* the lemmas they rest on: which files become complete, what tasks        *)
(* publish for each other, what the search for cycles has seen, and why no *)
(* set of tasks waits in a circle, one case per kind of step.              *)
(***************************************************************************)
EXTENDS CompilerSteps, FiniteSetTheorems

-----------------------------------------------------------------------------
(* Complete files and their imports.                                       *)

\* The i-th import of f is complete.
Complete(f, i) == result[Imports(f)[i]] = "ok"

\* A waiting task has seen its first idx - 1 imports complete, a task past
\* the wait has seen all of them, and so has one whose file is complete.
DepsAt(f) ==
  \A i \in 1..Len(Imports(f)) :
    /\ pc[f] = "wait" /\ i < idx[f] => Complete(f, i)
    /\ pc[f] \in {"reacquire", "link"} => Complete(f, i)
    /\ result[f] = "ok" /\ world[f].search = "source" => Complete(f, i)
DepsInv == \A f \in Files : DepsAt(f)

\* What a task will have seen of its imports after a step is so before it.
Carried(f) ==
  \A i \in 1..Len(Imports(f)) :
    /\ pc'[f] = "wait" /\ i < idx'[f] => Complete(f, i)
    /\ pc'[f] \in {"reacquire", "link"} => Complete(f, i)
    /\ result'[f] = "ok" /\ world[f].search = "source" => Complete(f, i)

\* A step that leaves the wait alone.
LEMMA CarriedQuietly ==
  ASSUME NEW f \in Files, DepsAt(f),
         pc'[f] \in {"wait", "reacquire", "link"} => pc'[f] = pc[f] /\ idx'[f] = idx[f],
         result'[f] = "ok" => result[f] = "ok" \/ world[f].search # "source"
  PROVE  Carried(f)
  BY DEF DepsAt, Carried

LEMMA Carries ==
  ASSUME ExecInv, DepsInv, [Next]_vars
  PROVE  \A f \in Files : Carried(f)
<1>0. TaskInv /\ TypeOK /\ \A f \in Files : DepsAt(f) /\ StatusAt(f)
  BY DEF ExecInv, TypeInv, TaskInv, DepsInv, StatusInv
<1>a. "pending" # "ok" /\ "ok" \notin Errors
  BY DEF Errors
<1>1. ASSUME NEW f \in Files, Idle(f) PROVE Carried(f)
  BY <1>0, <1>a, <1>1, CarriedQuietly, Zenon DEF Idle, Same, Stays, Begins
<1>2. ASSUME NEW f \in Files, Task(f) PROVE Carried(f)
  <2>0. DepsAt(f) /\ StatusAt(f) /\ Len(Imports(f)) \in Nat /\ idx[f] \in Nat
    BY <1>0, WorldTypes, SearchTypes
  <2>1. CASE Looks(f) \/ LoopEnds(f) \/ Panics(f) \/ Closes(f)
    BY <2>0, <2>1, CarriedQuietly, Zenon DEF Looks, LoopEnds, Panics, Closes, Goes, Keeps
  <2>2. CASE Skips(f) \/ Descends(f)
    BY <2>0, <2>2, CarriedQuietly, Zenon DEF Skips, Descends, Continued, Goes, Keeps
  <2>3. CASE Cancelled(f) \/ Releases(f) \/ Recovers(f)
    BY <2>0, <2>3, <1>a, CarriedQuietly, Zenon DEF Cancelled, Releases, Recovers, Goes, Errors
  <2>4. CASE Publishes(f)
    <3>1. result'[f] = "pending"
      BY <2>0, <2>4 DEF Publishes, Goes, Keeps, StatusAt, Unsettled
    <3>2. CASE pc'[f] = "link"
      <4>1. AllImports(f) = <<>>
        BY <2>4, <3>2, Zenon DEF Publishes, Goes
      <4>2. Imports(f) \in Seq(Files)
        BY <1>0, WorldTypes
      <4>3. Append(Imports(f), DescProto) # <<>>
        <5>1. Len(Append(Imports(f), DescProto)) = Len(Imports(f)) + 1 /\ Len(Imports(f)) \in Nat
          BY <4>2
        <5> QED
          BY <5>1
      <4>4. Imports(f) = <<>>
        BY <4>1, <4>3 DEF AllImports
      <4> QED
        BY <4>4 DEF Carried
    <3>3. CASE pc'[f] # "link"
      BY <1>a, <2>0, <2>4, <3>1, <3>3, CarriedQuietly, Zenon DEF Publishes, Goes
    <3> QED
      BY <3>2, <3>3
  <2>5. CASE Gives(f)
    BY <2>0, <1>a, <2>5 DEF Gives, Goes, StatusAt, Unsettled, Carried
  <2>6. CASE Awaited(f)
    <3>1. \A i \in 1..Len(Imports(f)) : i < idx[f] + 1 => i = idx[f] \/ i < idx[f]
      BY <2>0
    <3>2. /\ pc[f] = "wait" /\ Complete(f, idx[f]) /\ pc'[f] = "wait"
          /\ result'[f] = "pending" /\ idx'[f] = idx[f] + 1
      BY <2>0, <2>6 DEF Awaited, Goes, Keeps, StatusAt, Unsettled, Complete
    <3> QED
      BY <1>a, <2>0, <3>1, <3>2, Zenon DEF Carried, DepsAt
  <2>7. CASE Unblocks(f)
    <3>1. \A i \in 1..Len(Imports(f)) : i < idx[f]
      BY <2>0, <2>7 DEF Unblocks
    <3> QED
      BY <2>0, <2>7, <3>1, Zenon DEF Unblocks, Goes, Carried, DepsAt
  <2>8. CASE Takes(f)
    BY <1>a, <2>0, <2>8, Zenon DEF Takes, Goes, StatusAt, Unsettled, Carried, DepsAt
  <2>9. CASE Settles(f)
    BY <2>0, <2>9, Zenon DEF Settles, Carried, DepsAt
  <2> QED
    BY <1>0, <1>2, <2>1, <2>2, <2>3, <2>4, <2>5, <2>6, <2>7, <2>8, <2>9, TaskMoves, Zenon
<1>3. CASE MainStep \/ Cancel \/ Finished \/ UNCHANGED vars
  BY <1>0, <1>1, <1>3, MainIdle
<1>4. ASSUME NEW f \in Files, Task(f), NEW g \in Files PROVE Carried(g)
  BY <1>0, <1>1, <1>2, <1>4, OthersIdle
<1> QED
  BY <1>3, <1>4 DEF Next

\* Complete files stay complete, so what was seen stays so.
LEMMA DepsStep ==
  ASSUME ExecInv, Stable, DepsInv, [Next]_vars
  PROVE  DepsInv'
<1>1. TypeOK /\ world' = world
  BY WorldStays DEF ExecInv, TypeInv
<1>2. \A f \in Files : Imports(f)' = Imports(f)
  BY <1>1 DEF Imports
<1>3. ASSUME NEW f \in Files, NEW i \in 1..Len(Imports(f)), Complete(f, i)
      PROVE  Complete(f, i)'
  <2>1. Imports(f)[i] \in Files
    BY <1>1, WorldTypes
  <2> QED
    BY <1>2, <1>3, <2>1 DEF Complete, Stable, Settled
<1>4. ASSUME NEW f \in Files PROVE DepsAt(f)'
  <2>1. Carried(f)
    BY Carries
  <2> QED
    BY <1>1, <1>2, <1>3, <2>1, Zenon DEF Carried, DepsAt
<1> QED
  BY <1>4 DEF DepsInv

\* A file that leads to an import cycle does not become complete: one of its
\* imports leads to the cycle too.
LEMMA CompleteStep ==
  ASSUME ExecInv, DepsInv, CyclesNeverComplete, [Next]_vars
  PROVE  CyclesNeverComplete'
<1> SUFFICES ASSUME NEW f \in Files, result'[f] = "ok", LeadsToCycle(f)' PROVE FALSE
  BY DEF CyclesNeverComplete
<1>1. world' = world
  BY WorldStays DEF ExecInv, TypeInv
<1>2. \A g \in Files : Edges(g)' = Edges(g)
  BY <1>1 DEF Edges, Imports
<1>3. PICK S \in SUBSET Files : f \in S /\ \A g \in S : Edges(g) \cap S # {}
  BY <1>2 DEF LeadsToCycle
<1>4. \A g \in S : LeadsToCycle(g)
  BY <1>3 DEF LeadsToCycle
<1>5. PICK d \in Edges(f) : d \in S
  BY <1>3
<1>6. world[f].search = "source" /\ d \in Names(Imports(f))
  BY <1>5 DEF Edges
<1>7. PICK i \in 1..Len(Imports(f)) : d = Imports(f)[i]
  BY <1>6 DEF Names
<1>8. result[d] = "ok"
  BY <1>6, <1>7, Carries, Zenon DEF Carried, Complete
<1> QED
  BY <1>4, <1>5, <1>8 DEF CyclesNeverComplete

-----------------------------------------------------------------------------
(* What a task publishes and what its search reads.                        *)

\* The steps in which a task has called setBlockedOn and may still wait.
Published == {"import", "check", "release", "wait"}

\* No implicit import is added to a file.
Plain == world[DescProto].search \in {"missing", "panic", "standard"}

LEMMA PlainImports ==
  ASSUME Plain, NEW f \in Files
  PROVE  ~WantsDescriptorProto(f) /\ AllImports(f) = Imports(f)
  BY DEF Plain, WantsDescriptorProto, Overridden, AllImports

\* Only ParseDone makes a task one that has published its imports.
LEMMA PublishedBefore ==
  ASSUME TaskInv, NEW f \in Files, Task(f) \/ Idle(f), ~Publishes(f), pc'[f] \in Published
  PROVE  pc[f] \in Published
<1>1. CASE Idle(f)
  BY <1>1, Zenon DEF Idle, Stays, Begins, Published
<1>2. CASE Looks(f) \/ LoopEnds(f) \/ Skips(f) \/ Descends(f)
  BY <1>2, Zenon DEF Looks, LoopEnds, Skips, Descends, Continued, Goes, Published
<1>3. CASE Gives(f) \/ Awaited(f) \/ Unblocks(f) \/ Takes(f)
  BY <1>3, Zenon DEF Gives, Awaited, Unblocks, Takes, Goes, Published
<1>4. CASE Settles(f) \/ Panics(f) \/ Cancelled(f)
  BY <1>4, Zenon DEF Settles, Panics, Cancelled, Goes, Published
<1>5. CASE Closes(f) \/ Releases(f) \/ Recovers(f)
  BY <1>5, Zenon DEF Closes, Releases, Recovers, Goes, Published
<1> QED
  BY <1>1, <1>2, <1>3, <1>4, <1>5, TaskMoves, Zenon

\* The lists other tasks read are the imports of a file, or empty; they are
\* not empty while the task may wait.
PublishAt(f) ==
  /\ blockedOn[f] \in {<<>>, Imports(f)}
  /\ blockedOn[f] # <<>> => world[f].search = "source"
  /\ pc[f] \in Published => blockedOn[f] = Imports(f)
  /\ pc[f] \in Published \cup {"reacquire", "link"} => world[f].search = "source"
  /\ pc[f] \in {"none", "acquire", "resolve"} => checked[f] = {} /\ idx[f] = 1
PublishInv == \A f \in Files : PublishAt(f)

\* Settled or on the way out, a task has no use for what it published.
Out == {"close", "exit", "unwind", "recover", "done", "crash"}
LEMMA OutPoints ==
  ASSUME NEW p \in Out
  PROVE  p \notin Published /\ p \notin {"reacquire", "link", "none", "acquire", "resolve"}
  BY DEF Out, Published

\* What a task publishes, in every step.
LEMMA PublishStep ==
  ASSUME TaskInv, Plain, PublishInv, [Next]_vars
  PROVE  PublishInv'
<1>0. TypeOK /\ world' = world /\ \A f \in Files : PublishAt(f) /\ Imports(f)' = Imports(f)
  BY WorldStays DEF TaskInv, PublishInv, Imports
<1>1. ASSUME NEW f \in Files, Idle(f) PROVE PublishAt(f)'
  <2>1. PublishAt(f) /\ Imports(f)' = Imports(f)
    BY <1>0
  <2>2. CASE Stays(f)
    BY <1>0, <1>1, <2>1, <2>2, Zenon DEF Idle, Same, Stays, PublishAt
  <2>3. CASE Begins(f)
    <3>1. pc[f] = "none"
      BY <2>3 DEF Begins, TaskInv, StatusInv, StatusAt
    <3> QED
      BY <1>0, <1>1, <2>1, <2>3, <3>1, Zenon DEF Idle, Same, Begins, PublishAt, Published
  <2> QED
    BY <1>1, <2>2, <2>3 DEF Idle
<1>2. ASSUME NEW f \in Files, Task(f) PROVE PublishAt(f)'
  <2>0. PublishAt(f) /\ Imports(f)' = Imports(f)
    BY <1>0
  <2>1. ASSUME pc'[f] \in Out, Same(f) PROVE PublishAt(f)'
    BY <1>0, <2>0, <2>1, OutPoints, Zenon DEF Same, PublishAt
  <2>2. CASE Settles(f) \/ Panics(f) \/ Cancelled(f)
    BY <2>1, <2>2, Zenon DEF Settles, Panics, Cancelled, Goes, Out
  <2>3. CASE Closes(f) \/ Releases(f) \/ Recovers(f)
    BY <2>1, <2>3, Zenon DEF Closes, Releases, Recovers, Goes, Out
  <2>4. CASE Publishes(f)
    <3>1. AllImports(f) = Imports(f)
      BY PlainImports
    <3>2. pc'[f] \in {"link", "import"} /\ blockedOn'[f] = Imports(f) /\ world[f].search = "source"
      BY <2>4, <3>1, Zenon DEF Publishes, Goes
    <3> QED
      BY <1>0, <2>0, <3>2, Zenon DEF PublishAt
  <2>5. CASE Looks(f) \/ LoopEnds(f)
    BY <1>0, <2>0, <2>5, Zenon DEF Looks, LoopEnds, Same, Goes, PublishAt, Published
  <2>6. CASE Skips(f) \/ Descends(f)
    <3>1. pc[f] = "check" /\ pc'[f] \in {"import", "check"} /\ blockedOn'[f] = blockedOn[f]
      BY <2>6, Zenon DEF Skips, Descends, Continued, Goes
    <3> QED
      BY <1>0, <2>0, <3>1, Zenon DEF PublishAt, Published
  <2>7. CASE Gives(f) \/ Awaited(f)
    BY <1>0, <2>0, <2>7, Zenon DEF Gives, Awaited, Goes, PublishAt, Published
  <2>8. CASE Unblocks(f)
    BY <1>0, <2>0, <2>8, Zenon DEF Unblocks, Goes, PublishAt, Published
  <2>9. CASE Takes(f)
    BY <1>0, <2>0, <2>9, Zenon DEF Takes, Same, Goes, PublishAt, Published
  <2> QED
    BY <1>2, <2>2, <2>3, <2>4, <2>5, <2>6, <2>7, <2>8, <2>9, TaskMoves, Zenon
<1>3. CASE MainStep \/ Cancel \/ Finished \/ UNCHANGED vars
  BY <1>0, <1>1, <1>3, MainIdle DEF PublishInv
<1>4. ASSUME NEW f \in Files, Task(f), NEW g \in Files PROVE PublishAt(g)'
  BY <1>0, <1>1, <1>2, <1>4, OthersIdle
<1> QED
  BY <1>3, <1>4 DEF Next, PublishInv

-----------------------------------------------------------------------------
(* The path a search is on.                                                *)

\* Each frame of a search is for an import of the frame below it, and has
\* only imports of its own file left to look at.
Within(c) == Names(c.todo) \subseteq Edges(c.node)
Follows(c, e) == e.node \in Edges(c.node)
Path(s) ==
  /\ \A i \in 1..Len(s) : Within(s[i])
  /\ \A i \in 1..Len(s) - 1 : Follows(s[i], s[i + 1])

\* A search starts at the task's own file, which it never counts as visited.
PathAt(f) ==
  /\ f \notin checked[f]
  /\ pc[f] = "check" => Path(stack[f]) /\ stack[f][1].node = f
PathInv == \A f \in Files : PathAt(f)

\* A path stays one when calls return.
LEMMA ReturnedPath ==
  ASSUME Returns, NEW s \in Seq(Frame), Path(s), Returned(s) # <<>>
  PROVE  Path(Returned(s)) /\ Returned(s)[1] = s[1]
<1>1. PICK k \in 0..Len(s) : Returned(s) = SubSeq(s, 1, k)
  BY DEF Returns
<1>2. Len(s) \in Nat
  OBVIOUS
<1> DEFINE t == SubSeq(s, 1, k)
<1>3. Len(t) = k /\ \A i \in 1..k : t[i] = s[i]
  BY <1>2
<1>4. k # 0
  BY <1>1, <1>3
<1> HIDE DEF t
<1>5. Path(t)
  <2>1. ASSUME NEW i \in 1..k PROVE Within(t[i])
    BY <1>2, <1>3 DEF Path
  <2>2. ASSUME NEW i \in 1..k - 1 PROVE Follows(t[i], t[i + 1])
    BY <1>2, <1>3 DEF Path
  <2> QED
    BY <1>3, <2>1, <2>2 DEF Path
<1> QED
  BY <1>1, <1>2, <1>3, <1>4, <1>5 DEF t

\* A path stays one when its last call takes a file, which is an import of
\* the call's file.
LEMMA TakenPath ==
  ASSUME NEW s \in Seq(Frame), s # <<>>, s[Len(s)].todo # <<>>, Path(s)
  PROVE  /\ Path(Taken(s)) /\ Taken(s)[1].node = s[1].node
         /\ Head(s[Len(s)].todo) \in Edges(Taken(s)[Len(s)].node)
<1> DEFINE n == Len(s)
           u == Taken(s)
           c == s[n]
           e == u[n]
<1>1. /\ u \in Seq(Frame) /\ Len(u) = n /\ n \in Nat /\ n \in 1..n
      /\ \A i \in 1..n : i # n => u[i] = s[i]
      /\ e.node = c.node /\ e.todo = Tail(c.todo)
  <2>1. n \in Nat
    OBVIOUS
  <2> HIDE DEF n
  <2> QED
    BY <2>1, TakenFrames DEF n
<1>2. c.todo \in Seq(Files)
  <2>1. c \in Frame
    BY <1>1
  <2> HIDE DEF c
  <2> QED
    BY <2>1 DEF Frame
<1>3. Within(c)
  BY <1>1 DEF Path
<1> HIDE DEF n, u
<1>4. Head(c.todo) \in Names(c.todo) /\ Names(Tail(c.todo)) \subseteq Names(c.todo)
  BY <1>2, HeadAndTail DEF n
<1> HIDE DEF c, e
<1>5. Within(e) /\ Head(c.todo) \in Edges(e.node)
  BY <1>1, <1>3, <1>4 DEF Within
<1>6. \A b : Follows(b, e) <=> Follows(b, c)
  BY <1>1 DEF Follows
<1>7. ASSUME NEW i \in 1..n PROVE Within(u[i])
  BY <1>1, <1>5 DEF Path, n, e
<1>8. ASSUME NEW i \in 1..n - 1 PROVE Follows(u[i], u[i + 1])
  <2>1. i \in 1..n /\ i + 1 \in 1..n /\ i # n
    BY <1>1
  <2>2. Follows(u[i], s[i + 1])
    BY <1>1, <2>1 DEF Path, n
  <2>3. CASE i + 1 = n
    BY <1>6, <2>2, <2>3 DEF c, e
  <2>4. CASE i + 1 # n
    BY <1>1, <2>1, <2>2, <2>4
  <2> QED
    BY <2>3, <2>4
<1>9. Path(u)
  BY <1>1, <1>7, <1>8 DEF Path
<1>10. u[1].node = s[1].node
  <2>1. CASE n = 1
    BY <1>1, <2>1 DEF c, e
  <2>2. CASE n # 1
    BY <1>1, <2>2
  <2> QED
    BY <2>1, <2>2
<1> QED
  BY <1>5, <1>9, <1>10 DEF n, u, c, e

\* A path stays one when an import of its last file is searched in turn.
LEMMA GrownPath ==
  ASSUME NEW u \in Seq(Frame), u # <<>>, Path(u),
         NEW e \in Frame, Within(e), Follows(u[Len(u)], e)
  PROVE  /\ Append(u, e) \in Seq(Frame) /\ Path(Append(u, e))
         /\ Append(u, e)[1].node = u[1].node
<1> DEFINE n == Len(u)
           s == Append(u, e)
<1>1. n \in Nat \ {0}
  OBVIOUS
<1>2. /\ s \in Seq(Frame) /\ Len(s) = n + 1 /\ s[n + 1] = e
      /\ \A i \in 1..n : s[i] = u[i]
  OBVIOUS
<1> HIDE DEF n, s
<1>3. ASSUME NEW i \in 1..n + 1 PROVE Within(s[i])
  BY <1>1, <1>2 DEF Path, n
<1>4. ASSUME NEW i \in 1..n PROVE Follows(s[i], s[i + 1])
  <2>1. CASE i = n
    BY <1>1, <1>2, <2>1 DEF n
  <2>2. CASE i # n
    BY <1>1, <1>2, <2>2 DEF Path, n
  <2> QED
    BY <2>1, <2>2
<1>5. Path(s)
  BY <1>1, <1>2, <1>3, <1>4 DEF Path
<1>6. s[1].node = u[1].node
  BY <1>1, <1>2
<1> QED
  BY <1>2, <1>5, <1>6 DEF s
\* A list other tasks read names imports only.
LEMMA PublishedNames ==
  ASSUME PublishInv, NEW d \in Files
  PROVE  Names(blockedOn[d]) \subseteq Edges(d)
<1>1. CASE blockedOn[d] = <<>>
  BY <1>1 DEF Names
<1>2. CASE blockedOn[d] # <<>>
  BY <1>2 DEF PublishInv, PublishAt, Edges
<1> QED
  BY <1>1, <1>2

LEMMA SearchPath ==
  ASSUME TypeInv, PublishInv, NEW f \in Files, PathAt(f), pc[f] = "check"
  PROVE  /\ Stepped(f) \in Seq(Frame) /\ Path(Stepped(f)) /\ Stepped(f)[1].node = f
         /\ Append(Stepped(f), Entered(f)) \in Seq(Frame)
         /\ Path(Append(Stepped(f), Entered(f)))
         /\ Append(Stepped(f), Entered(f))[1].node = f
         /\ Next1(f) \in Edges(Top(f).node)
         /\ f \in Sequence(f)
<1> DEFINE s == stack[f]
           u == Stepped(f)
           e == Entered(f)
           d == Next1(f)
<1>1. /\ s \in Seq(Frame) /\ s # <<>> /\ s[Len(s)].todo # <<>>
      /\ u = Taken(s) /\ u \in Seq(Frame)
      /\ d \in Files /\ d = Head(s[Len(s)].todo) /\ Top(f) = s[Len(s)] /\ e \in Frame
  BY NextTypes
<1>2. Path(s) /\ s[1].node = f
  BY DEF PathAt
<1>3. e.node = d /\ e.todo = blockedOn[d]
  BY DEF Entered
<1>4. f \in Sequence(f)
  <2>1. 1 \in 1..Len(s)
    BY <1>1
  <2> QED
    BY <1>2, <2>1, Zenon DEF Sequence
<1> HIDE DEF s, e, d, u
<1>5. Names(blockedOn[d]) \subseteq Edges(d)
  BY <1>1, PublishedNames
<1>6. Len(u) = Len(s) /\ Len(s) \in 1..Len(s) /\ u[Len(s)].node = s[Len(s)].node
  BY <1>1, TakenFrames
<1>7. Path(u) /\ u[1].node = s[1].node /\ d \in Edges(u[Len(s)].node)
  BY <1>1, <1>2, TakenPath
<1>8. u # <<>>
  BY <1>6
<1>9. Within(e) /\ Follows(u[Len(u)], e)
  BY <1>3, <1>5, <1>6, <1>7 DEF Within, Follows
<1>10. /\ Append(u, e) \in Seq(Frame) /\ Path(Append(u, e))
       /\ Append(u, e)[1].node = u[1].node
  BY <1>1, <1>7, <1>8, <1>9, GrownPath
<1> QED
  BY <1>1, <1>2, <1>4, <1>6, <1>7, <1>10 DEF u, e, d

\* Every search follows imports from its task's file.
LEMMA PathStep ==
  ASSUME Returns, TypeInv, TaskInv, PublishInv, PathInv, [Next]_vars
  PROVE  PathInv'
<1>0. TypeOK /\ world' = world /\ \A f \in Files : PathAt(f) /\ PublishAt(f)
  BY WorldStays DEF TypeInv, PathInv, PublishInv
<1>1. ASSUME NEW f \in Files, f \notin checked'[f],
             pc'[f] = "check" => Path(stack'[f]) /\ stack'[f][1].node = f
      PROVE  PathAt(f)'
  <2>1. Path(stack'[f]) => Path(stack[f])'
    BY <1>0, Zenon DEF Path, Within, Follows, Edges, Imports
  <2> QED
    BY <1>1, <2>1 DEF PathAt
<1>2. ASSUME NEW f \in Files, checked'[f] = checked[f], stack'[f] = stack[f],
             pc'[f] = "check" => pc[f] = "check"
      PROVE  PathAt(f)'
  <2>1. PathAt(f)
    BY <1>0
  <2> QED
    BY <1>1, <1>2, <2>1, Zenon DEF PathAt
<1>3. ASSUME NEW f \in Files, Idle(f) PROVE PathAt(f)'
  BY <1>2, <1>3, Zenon DEF Idle, Same, Stays, Begins
<1>4. ASSUME NEW f \in Files, Task(f) PROVE PathAt(f)'
  <2>0. PathAt(f) /\ PublishAt(f)
    BY <1>0
  <2>1. CASE Takes(f) \/ LoopEnds(f) \/ Settles(f) \/ Panics(f) \/ Cancelled(f) \/ Closes(f) \/ Releases(f) \/ Recovers(f)
    <3>1. Same(f) /\ pc'[f] # "check"
      BY <2>1, Zenon DEF Takes, LoopEnds, Settles, Panics, Cancelled, Closes, Releases, Recovers, Goes
    <3> QED
      BY <1>2, <3>1, Zenon DEF Same
  <2>2. CASE Publishes(f) \/ Gives(f) \/ Awaited(f) \/ Unblocks(f)
    BY <1>2, <2>2, Zenon DEF Publishes, Gives, Awaited, Unblocks, Goes
  <2>3. CASE Looks(f)
    <3> DEFINE dep == Imports(f)[idx[f]]
               c == Root(f)
    <3>1. dep \in Names(Imports(f)) /\ world[f].search = "source"
      <4>1. idx[f] \in Nat \ {0} /\ Imports(f) \in Seq(Files)
        BY <1>0, SearchTypes, WorldTypes
      <4>2. idx[f] \in 1..Len(Imports(f))
        BY <2>3, <4>1 DEF Looks
      <4> QED
        BY <2>0, <2>3, <4>2 DEF Looks, Goes, Names, PublishAt, Published
    <3>2. Names(<<dep>>) = {dep}
      BY DEF Names
    <3>3. c.node = f /\ c.todo = <<dep>>
      BY DEF Root
    <3> HIDE DEF c, dep
    <3>4. Within(c)
      BY <3>1, <3>2, <3>3 DEF Within, Edges
    <3>5. Path(<<c>>) /\ <<c>>[1].node = f
      BY <3>3, <3>4 DEF Path
    <3>6. stack'[f] = <<c>> /\ checked'[f] = checked[f]
      BY <2>3 DEF Looks, c
    <3> QED
      BY <1>1, <2>0, <3>5, <3>6, Zenon DEF PathAt
  <2>4. ASSUME NEW s \in Seq(Frame), Path(s), s[1].node = f, Continued(f, s), f \notin checked'[f]
        PROVE  PathAt(f)'
    <3> DEFINE rest == Returned(s)
    <3>1. stack'[f] = rest /\ pc'[f] = IF rest = <<>> THEN "import" ELSE "check"
      BY <2>4, Zenon DEF Continued, Goes
    <3>2. rest # <<>> => Path(rest) /\ rest[1] = s[1]
      BY <2>4, ReturnedPath, Zenon
    <3> HIDE DEF rest
    <3> QED
      BY <1>1, <2>4, <3>1, <3>2, Zenon
  <2>5. CASE Skips(f)
    <3>1. pc[f] = "check" /\ Continued(f, Stepped(f)) /\ checked'[f] = checked[f]
      BY <2>5, Zenon DEF Skips, Continued, Goes
    <3>2. Stepped(f) \in Seq(Frame) /\ Path(Stepped(f)) /\ Stepped(f)[1].node = f
      BY <2>0, <3>1, SearchPath, Zenon
    <3> QED
      BY <2>0, <2>4, <3>1, <3>2, Zenon DEF PathAt
  <2>6. CASE Descends(f)
    <3> DEFINE s == Append(Stepped(f), Entered(f))
    <3>1. /\ pc[f] = "check" /\ Continued(f, s) /\ checked'[f] = checked[f] \cup {Next1(f)}
          /\ Next1(f) \notin Sequence(f)
      BY <2>6, Zenon DEF Descends, Continued, Goes
    <3>2. s \in Seq(Frame) /\ Path(s) /\ s[1].node = f /\ f \in Sequence(f)
      BY <2>0, <3>1, SearchPath, Zenon
    <3> HIDE DEF s
    <3> QED
      BY <2>0, <2>4, <3>1, <3>2, Zenon DEF PathAt
  <2> QED
    BY <1>4, <2>1, <2>2, <2>3, <2>5, <2>6, TaskMoves, Zenon
<1>5. CASE MainStep \/ Cancel \/ Finished \/ UNCHANGED vars
  BY <1>0, <1>3, <1>5, MainIdle DEF PathInv
<1>6. ASSUME NEW f \in Files, Task(f), NEW g \in Files PROVE PathAt(g)'
  BY <1>0, <1>3, <1>4, <1>6, OthersIdle
<1> QED
  BY <1>5, <1>6 DEF Next, PathInv

-----------------------------------------------------------------------------
(* The causes of failures.                                                 *)

\* Why a file may fail: it leads to a cycle or to a defective file.
Cause(f) == LeadsToCycle(f) \/ NeedsDefective(f)

LEMMA CauseStays ==
  ASSUME world' = world, NEW f \in Files
  PROVE  /\ Cause(f)' <=> Cause(f)
         /\ Defective(f)' <=> Defective(f)
<1>1. \A g : (Edges(g)' = Edges(g)) /\ (Defective(g)' <=> Defective(g))
  BY DEF Edges, Imports, Defective
<1>2. LeadsToCycle(f)' <=> LeadsToCycle(f)
  BY <1>1 DEF LeadsToCycle
<1>3. NeedsDefective(f)' <=> NeedsDefective(f)
  BY <1>1 DEF NeedsDefective
<1> QED
  BY <1>1, <1>2, <1>3 DEF Cause

LEMMA CauseOfDefective == ASSUME NEW f \in Files, Defective(f) PROVE Cause(f)
  BY DEF Cause, NeedsDefective

\* A file fails for what makes an import of it fail.
LEMMA CauseOfImport ==
  ASSUME NEW f \in Files, NEW d \in Edges(f), Cause(d)
  PROVE  Cause(f)
<1>1. CASE LeadsToCycle(d)
  <2>1. PICK S \in SUBSET Files : d \in S /\ \A g \in S : Edges(g) \cap S # {}
    BY <1>1 DEF LeadsToCycle
  <2> DEFINE U == S \cup {f}
  <2>2. U \in SUBSET Files /\ f \in U /\ \A g \in U : Edges(g) \cap U # {}
    BY <2>1
  <2> QED
    BY <2>2, Zenon DEF Cause, LeadsToCycle
<1>2. CASE NeedsDefective(d)
  BY <1>2 DEF Cause, NeedsDefective
<1> QED
  BY <1>1, <1>2 DEF Cause

\* A search that finds a file on its own path has found a cycle.
LEMMA CauseOfFound ==
  ASSUME TypeInv, PublishInv, PathInv, NEW f \in Files, CycleFound(f)
  PROVE  Cause(f)
<1> DEFINE s == stack[f]
           n == Len(s)
           Q == Sequence(f)
<1>1. pc[f] = "check" /\ Next1(f) \in Q
  BY DEF CycleFound
<1>2. s \in Seq(Frame) /\ s # <<>> /\ Path(s) /\ s[1].node = f
  BY <1>1, NextTypes DEF PathInv, PathAt
<1>3. n \in Nat /\ 1 \in 1..n
  BY <1>2
<1>4. ASSUME NEW i \in 1..n PROVE s[i].node \in Files
  <2>1. s[i] \in Frame
    BY <1>2
  <2> HIDE DEF s
  <2> QED
    BY <2>1 DEF Frame
<1>5. Q = {s[i].node : i \in 1..n}
  BY DEF Sequence
<1>6. Next1(f) \in Edges(s[n].node)
  BY <1>1, SearchPath DEF Top, PathInv
<1> HIDE DEF s, n, Q
<1>7. ASSUME NEW i \in 1..n PROVE Edges(s[i].node) \cap Q # {}
  <2>1. CASE i = n
    BY <1>1, <1>6, <2>1
  <2>2. CASE i # n
    <3>1. i \in 1..n - 1 /\ i + 1 \in 1..n
      BY <1>3, <2>2
    <3>2. s[i + 1].node \in Edges(s[i].node)
      BY <1>2, <3>1 DEF Path, Follows, n
    <3> QED
      BY <1>5, <3>1, <3>2
  <2> QED
    BY <2>1, <2>2
<1>8. Q \in SUBSET Files /\ f \in Q
  BY <1>2, <1>3, <1>4, <1>5
<1>9. \A g \in Q : Edges(g) \cap Q # {}
  BY <1>5, <1>7
<1> QED
  BY <1>8, <1>9 DEF Cause, LeadsToCycle

\* Every failure and every panic under way has a cause, or the context is done.
Falling == {"unwind", "recover"}
CauseAt(f) ==
  /\ result[f] \in Errors => Cause(f)
  /\ pc[f] \in Falling => Defective(f)
CauseInv == ctxDone \/ \A f \in Files : CauseAt(f)

\* A step of a task settles an error or falls for a cause only.
Blames(f) ==
  /\ result'[f] \in Errors => result[f] \in Errors \/ Cause(f)
  /\ pc'[f] \in Falling => pc[f] \in Falling \/ Defective(f)

LEMMA TaskBlames ==
  ASSUME CleanClose, TypeInv, TaskInv, CleanInv, PublishInv, PathInv, ~ctxDone,
         NEW f \in Files, Task(f), \A g \in Files : CauseAt(g)
  PROVE  Blames(f)
<1>0. /\ TypeOK /\ StatusAt(f) /\ PublishAt(f)
      /\ f \in DOMAIN pc /\ f \in DOMAIN result
  BY TaskTypes DEF TypeInv, TaskInv, StatusInv, PublishInv
<1>a. "pending" \notin Errors /\ "ok" \notin Errors /\ "close" \notin Falling /\ "exit" \notin Falling
  BY DEF Errors, Falling
<1>1. ASSUME NEW r, Settle(f, r), r \in Errors => Cause(f) PROVE Blames(f)
  BY <1>0, <1>a, <1>1, Zenon DEF Settle, Blames
<1>2. CASE Works(f)
  BY <1>a, <1>0, <1>2, WorkingPoints, Zenon DEF Works, Keeps, Blames, StatusAt, Falling
<1>3. CASE Waits(f) \/ Gives(f)
  BY <1>3, Zenon DEF Waits, Gives, Goes, Keeps, Blames, Falling
<1>4. CASE Takes(f) \/ Releases(f)
  BY <1>4, Zenon DEF Takes, Releases, Goes, Blames, Falling
<1>5. CASE Closes(f)
  <2>1. world[f].close = "ok"
    BY DEF CleanClose, CleanInv
  <2> QED
    BY <1>a, <1>5, <2>1 DEF Closes, Goes, Keeps, Blames
<1>6. CASE Recovers(f)
  <2>1. Cause(f)
    BY <1>6, CauseOfDefective DEF Recovers, CauseAt, Falling
  <2> QED
    BY <1>6, <2>1 DEF Recovers, Blames, Falling
<1>7. CASE ResolvePanic(f) \/ LinkPanic(f)
  <2>1. Defective(f)
    BY <1>0, <1>7 DEF ResolvePanic, LinkPanic, PublishAt, Defective
  <2>2. result'[f] = result[f]
    BY <1>7 DEF ResolvePanic, LinkPanic
  <2> QED
    BY <2>1, <2>2 DEF Blames
<1>8. CASE ResolveEnds(f)
  <2>1. world[f].search \in {"missing", "mismatch"} => Cause(f)
    BY CauseOfDefective DEF Defective
  <2> QED
    BY <1>1, <1>8, <2>1 DEF ResolveEnds, Errors
<1>9. CASE ParseFails(f) \/ LinkFails(f)
  <2>1. Defective(f)
    BY <1>0, <1>9 DEF ParseFails, LinkFails, PublishAt, Defective
  <2>2. Settle(f, "reported")
    BY <1>9 DEF ParseFails, LinkFails
  <2> QED
    BY <1>1, <2>1, <2>2, CauseOfDefective
<1>10. CASE SelfImport(f)
  <2>1. Imports(f) \in Seq(Files) /\ idx[f] \in Nat \ {0}
    BY <1>0, WorldTypes, SearchTypes
  <2>2. f \in Edges(f)
    BY <1>0, <1>10, <2>1 DEF SelfImport, PublishAt, Published, Edges, Names
  <2>3. {f} \in SUBSET Files /\ f \in {f} /\ \A g \in {f} : Edges(g) \cap {f} # {}
    BY <2>2
  <2>4. Cause(f)
    BY <2>3, Zenon DEF Cause, LeadsToCycle
  <2> QED
    BY <1>1, <1>10, <2>4 DEF SelfImport
<1>11. CASE CycleFound(f)
  <2>1. Cause(f)
    BY <1>11, CauseOfFound
  <2> QED
    BY <1>1, <1>11, <2>1 DEF CycleFound
<1>12. CASE WaitReady(f) /\ result[Imports(f)[idx[f]]] # "ok"
  <2> DEFINE d == Imports(f)[idx[f]]
  <2>1. Imports(f) \in Seq(Files) /\ idx[f] \in Nat \ {0}
    BY <1>0, WorldTypes, SearchTypes
  <2>2. d \in Edges(f) /\ d \in Files
    BY <1>0, <1>12, <2>1 DEF WaitReady, PublishAt, Published, Edges, Names
  <2>3. result[d] \in Errors /\ \E r : Settle(f, r)
    BY <1>12 DEF WaitReady, Settled
  <2> HIDE DEF d
  <2>4. Cause(f)
    BY <2>2, <2>3, CauseOfImport DEF CauseAt
  <2> QED
    BY <1>1, <2>3, <2>4
<1>13. CASE AcquireCancelled(f) \/ WaitCancelled(f) \/ ReacquireCancelled(f)
  BY <1>13 DEF AcquireCancelled, WaitCancelled, ReacquireCancelled
<1>14. CASE LinkOk(f)
  BY <1>1, <1>a, <1>14 DEF LinkOk
<1>15. CASE Settles(f)
  BY <1>8, <1>9, <1>10, <1>11, <1>12, <1>13, <1>14, <1>15, Zenon DEF Settles, SettleStep
<1>16. CASE Panics(f) \/ Cancelled(f)
  BY <1>7, <1>13, <1>16, Zenon DEF Panics, Cancelled
<1> QED
  BY <1>2, <1>3, <1>4, <1>5, <1>6, <1>15, <1>16, TaskChanges, Zenon

\* No step makes a file fail without a cause.
LEMMA CauseStep ==
  ASSUME CleanClose, TypeInv, TaskInv, CleanInv, PublishInv, PathInv, CauseInv, [Next]_vars
  PROVE  CauseInv'
<1> SUFFICES ASSUME ~ctxDone' PROVE \A f \in Files : CauseAt(f)'
  BY DEF CauseInv
<1>0. ~ctxDone /\ world' = world /\ TypeOK
  BY WorldStays DEF TypeInv
<1>1. \A f \in Files : CauseAt(f)
  BY <1>0 DEF CauseInv
<1>2. ASSUME NEW f \in Files, Blames(f) PROVE CauseAt(f)'
  <2>1. (Cause(f)' <=> Cause(f)) /\ (Defective(f)' <=> Defective(f))
    BY <1>0, CauseStays
  <2> QED
    BY <1>1, <1>2, <2>1, Zenon DEF Blames, CauseAt
<1>3. ASSUME NEW f \in Files, Idle(f) PROVE CauseAt(f)'
  <2>1. "pending" \notin Errors /\ "acquire" \notin Falling
    BY DEF Errors, Falling
  <2> QED
    BY <1>2, <1>3, <2>1, Zenon DEF Idle, Stays, Begins, Blames
<1>4. CASE MainStep \/ Cancel \/ Finished \/ UNCHANGED vars
  BY <1>0, <1>3, <1>4, MainIdle
<1>5. ASSUME NEW f \in Files, Task(f), NEW g \in Files PROVE CauseAt(g)'
  <2>1. Blames(f)
    BY <1>0, <1>1, <1>5, TaskBlames
  <2> QED
    BY <1>0, <1>2, <1>3, <1>5, <2>1, OthersIdle
<1> QED
  BY <1>4, <1>5 DEF Next

-----------------------------------------------------------------------------
(* What a search has seen.                                                 *)

\* The files a search has still to look at.
Pending(c) == Names(c.todo)
Todo(s) == UNION {Pending(s[i]) : i \in 1..Len(s)}

\* No call that returns leaves a file unseen.
LEMMA ReturnedTodo ==
  ASSUME Returns, NEW s \in Seq(Frame)
  PROVE  Todo(s) \subseteq Todo(Returned(s))
<1>1. PICK k \in 0..Len(s) :
        Returned(s) = SubSeq(s, 1, k) /\ \A i \in 1..Len(s) : s[i].todo # <<>> => i <= k
  BY DEF Returns
<1>2. Len(s) \in Nat
  OBVIOUS
<1> DEFINE t == SubSeq(s, 1, k)
<1>3. Len(t) = k /\ \A i \in 1..k : t[i] = s[i]
  BY <1>2
<1>4. ASSUME NEW i \in 1..Len(s), Pending(s[i]) # {} PROVE i \in 1..k
  <2>1. s[i].todo # <<>>
    BY <1>4 DEF Pending, Names
  <2> QED
    BY <1>1, <1>2, <2>1
<1> HIDE DEF t
<1>5. ASSUME NEW i \in 1..Len(s), NEW d \in Pending(s[i]) PROVE d \in Todo(t)
  BY <1>3, <1>4, Zenon DEF Todo
<1> QED
  BY <1>1, <1>5, Zenon DEF Todo, t

\* Only the file that is taken is dropped from the lists.
LEMMA TakenTodo ==
  ASSUME NEW s \in Seq(Frame), s # <<>>, s[Len(s)].todo # <<>>
  PROVE  Todo(s) \subseteq {Head(s[Len(s)].todo)} \cup Todo(Taken(s))
<1> DEFINE n == Len(s)
           u == Taken(s)
           c == s[n]
<1>1. /\ Len(u) = n /\ n \in 1..n
      /\ \A i \in 1..n : i # n => u[i] = s[i]
      /\ u[n].todo = Tail(c.todo)
  BY TakenFrames
<1>2. c.todo \in Seq(Files)
  <2>1. c \in Frame
    BY <1>1
  <2> HIDE DEF c
  <2> QED
    BY <2>1 DEF Frame
<1> HIDE DEF n, u
<1>3. Pending(c) = {Head(c.todo)} \cup Pending(u[n])
  BY <1>1, <1>2, HeadAndTail DEF Pending, n
<1> HIDE DEF c
<1>4. ASSUME NEW i \in 1..n, NEW d \in Pending(s[i]), d # Head(c.todo) PROVE d \in Todo(u)
  <2>1. d \in Pending(u[i])
    BY <1>1, <1>3, <1>4 DEF c
  <2> QED
    BY <1>1, <2>1 DEF Todo
<1> QED
  BY <1>4 DEF Todo, n, u, c

\* A call that descends adds its file's list.
LEMMA GrownTodo ==
  ASSUME NEW u \in Seq(Frame), NEW e \in Frame
  PROVE  Todo(u) \cup Pending(e) \subseteq Todo(Append(u, e))
<1> DEFINE n == Len(u)
           s == Append(u, e)
<1>1. n \in Nat
  OBVIOUS
<1>2. Len(s) = n + 1 /\ s[n + 1] = e /\ \A i \in 1..n : s[i] = u[i]
  OBVIOUS
<1> HIDE DEF n, s
<1>3. ASSUME NEW i \in 1..n, NEW d \in Pending(u[i]) PROVE d \in Todo(s)
  BY <1>1, <1>2 DEF Todo
<1>4. Pending(e) \subseteq Todo(s)
  BY <1>1, <1>2 DEF Todo
<1> QED
  BY <1>3, <1>4 DEF Todo, n, s

\* What a task's searches have visited or will look at; which of its imports
\* it has searched; the tasks that published before it and may still wait.
Known(f) == checked[f] \cup (IF pc[f] = "check" THEN Todo(stack[f]) ELSE {})
Looked(f, i) ==
  \/ pc[f] \in {"release", "wait"}
  \/ i < idx[f]
  \/ pc[f] = "check" /\ i = idx[f]
Low(rank, f) == {g \in Files : pc[g] \in Published /\ rank[g] <= rank[f]}

\* A task knows the tasks that published before it, if its imports lead to
\* them through such tasks.
RankedAt(rank, f) ==
  pc[f] \in Published =>
    /\ \A i \in 1..Len(Imports(f)) :
         Looked(f, i) /\ Imports(f)[i] \in Low(rank, f) => Imports(f)[i] \in Known(f)
    /\ \A g \in checked[f] \cap Low(rank, f) :
         Names(Imports(g)) \cap Low(rank, f) \subseteq Known(f)

RankInv ==
  \E N \in Nat : \E rank \in [Files -> 0..N] : \A f \in Files : RankedAt(rank, f)

\* A step keeps this for f when f forgets no task that may wait and has the
\* lists of the files it newly visits.
LEMMA RankKept ==
  ASSUME world' = world, NEW CONSTANT rank, NEW CONSTANT f \in Files, RankedAt(rank, f),
         \A g \in Files : pc'[g] \in Published => pc[g] \in Published,
         \A i \in 1..Len(Imports(f)) :
           Looked(f, i)' => Looked(f, i) \/ Imports(f)[i] \in Known(f)',
         \A d \in Known(f) : pc'[d] \in Published => d \in Known(f)',
         \A g \in checked'[f] :
           pc'[g] \in Published => g \in checked[f] \/ Names(Imports(g)) \subseteq Known(f)'
  PROVE  RankedAt(rank, f)'
<1>1. \A g : Imports(g)' = Imports(g)
  BY DEF Imports
<1>2. Low(rank, f)' = {g \in Files : pc'[g] \in Published /\ rank[g] <= rank[f]}
  BY DEF Low
<1>3. \A g \in Low(rank, f)' : g \in Low(rank, f) /\ pc'[g] \in Published
  BY <1>2 DEF Low
<1> DEFINE K == Known(f)'
           L == Low(rank, f)'
<1> HIDE DEF K, L
<1> SUFFICES ASSUME pc'[f] \in Published
             PROVE  /\ \A i \in 1..Len(Imports(f)) :
                         Looked(f, i)' /\ Imports(f)[i] \in L => Imports(f)[i] \in K
                    /\ \A g \in checked'[f] \cap L : Names(Imports(g)) \cap L \subseteq K
  BY <1>1 DEF RankedAt, K, L
<1>4. ASSUME NEW i \in 1..Len(Imports(f)), Looked(f, i)', Imports(f)[i] \in L
      PROVE  Imports(f)[i] \in K
  BY <1>3, <1>4, Zenon DEF RankedAt, K, L
<1>5. ASSUME NEW g \in checked'[f] \cap L, NEW d \in Names(Imports(g)) \cap L
      PROVE  d \in K
  BY <1>3, <1>5 DEF RankedAt, K, L
<1> QED
  BY <1>4, <1>5

\* The steps of others do not touch the searches of a task.
LEMMA IdleRank ==
  ASSUME world' = world, NEW CONSTANT rank, NEW CONSTANT g \in Files, RankedAt(rank, g),
         \A h \in Files : pc'[h] \in Published => pc[h] \in Published,
         Idle(g)
  PROVE  RankedAt(rank, g)'
<1>1. CASE pc'[g] \notin Published
  BY <1>1 DEF RankedAt
<1>2. CASE pc'[g] \in Published
  <2>1. pc'[g] = pc[g] /\ Same(g)
    BY <1>2, Zenon DEF Idle, Stays, Begins, Published
  <2>2. Known(g)' = Known(g) /\ \A i : Looked(g, i)' <=> Looked(g, i)
    <3>1. Known(g)' = Known(g)
      BY <2>1 DEF Same, Known
    <3>2. \A i : Looked(g, i)' <=> Looked(g, i)
      BY <2>1, Zenon DEF Same, Looked
    <3> QED
      BY <3>1, <3>2, Zenon
  <2> QED
    BY <2>1, <2>2, RankKept, Zenon DEF Same
<1> QED
  BY <1>1, <1>2

\* The search looks at one more file: it is visited, or no task that waits.
LEMMA SearchRank ==
  ASSUME Returns, TypeInv, StatusInv, PublishInv, world' = world,
         NEW CONSTANT rank, NEW CONSTANT f \in Files,
         \A g \in Files : pc'[g] \in Published => pc[g] \in Published,
         RankedAt(rank, f), Skips(f) \/ Descends(f)
  PROVE  RankedAt(rank, f)'
<1> DEFINE s == stack[f]
           u == Stepped(f)
           e == Entered(f)
           d == Next1(f)
<1>0. pc[f] = "check" /\ idx[f] \in Nat
  BY SearchTypes, Zenon DEF TypeInv, Skips, Descends, Continued, Goes
<1>1. /\ s \in Seq(Frame) /\ s # <<>> /\ s[Len(s)].todo # <<>>
      /\ u = Taken(s) /\ u \in Seq(Frame)
      /\ d \in Files /\ d = Head(s[Len(s)].todo) /\ e \in Frame
  BY <1>0, NextTypes
<1>2. Pending(e) = Names(blockedOn[d])
  BY DEF Entered, Pending
<1> HIDE DEF s, e, d, u
<1>3. Todo(s) \subseteq {d} \cup Todo(u)
  BY <1>1, TakenTodo
<1>4. ASSUME NEW t \in Seq(Frame), Continued(f, t)
      PROVE  /\ Todo(t) \cup checked'[f] \subseteq Known(f)'
             /\ \A i \in Nat : Looked(f, i)' => Looked(f, i)
  <2> DEFINE rest == Returned(t)
  <2>1. /\ stack'[f] = rest /\ idx'[f] = (IF rest = <<>> THEN idx[f] + 1 ELSE idx[f])
        /\ pc'[f] = (IF rest = <<>> THEN "import" ELSE "check")
    BY <1>4, Zenon DEF Continued, Goes
  <2>2. Todo(t) \subseteq Todo(rest)
    BY ReturnedTodo
  <2> HIDE DEF rest
  <2>3. rest = <<>> => Todo(rest) = {}
    BY DEF Todo
  <2>4. Known(f)' = checked'[f] \cup (IF pc'[f] = "check" THEN Todo(stack'[f]) ELSE {})
    BY DEF Known, Todo, Pending, Names
  <2>5. Todo(t) \cup checked'[f] \subseteq Known(f)'
    BY <2>1, <2>2, <2>3, <2>4
  <2>6. \A i \in Nat : Looked(f, i)' => Looked(f, i)
    BY <1>0, <2>1 DEF Looked
  <2> QED
    BY <2>5, <2>6
<1>5. Known(f) = checked[f] \cup Todo(s)
  BY <1>0 DEF Known, s
<1>6. \A i \in 1..Len(Imports(f)) : i \in Nat
  OBVIOUS
<1>7. CASE Skips(f)
  <2>1. Continued(f, u) /\ checked'[f] = checked[f] /\ (result[d] = "none" \/ d \in checked[f])
    BY <1>7 DEF Skips, d, u
  <2>2. pc'[d] \in Published => d \in checked[f]
    <3>1. pc[d] \in Published => result[d] # "none"
      BY <1>1 DEF StatusInv, StatusAt, Published
    <3> QED
      BY <1>1, <2>1, <3>1
  <2>3. \A g \in Known(f) : pc'[g] \in Published => g \in Known(f)'
    BY <1>1, <1>3, <1>4, <1>5, <2>1, <2>2, Zenon
  <2>4. \A i \in 1..Len(Imports(f)) : Looked(f, i)' => Looked(f, i)
    BY <1>1, <1>4, <1>6, <2>1
  <2> QED
    BY <2>1, <2>3, <2>4, RankKept, Zenon
<1>8. CASE Descends(f)
  <2>1. Continued(f, Append(u, e)) /\ checked'[f] = checked[f] \cup {d}
    BY <1>8, Zenon DEF Descends, d, e, u
  <2>2. Append(u, e) \in Seq(Frame) /\ Todo(u) \cup Pending(e) \subseteq Todo(Append(u, e))
    BY <1>1, GrownTodo
  <2>3. Todo(u) \cup Pending(e) \cup checked'[f] \subseteq Known(f)'
    BY <1>4, <2>1, <2>2, Zenon
  <2>4. pc'[d] \in Published => Names(Imports(d)) \subseteq Known(f)'
    <3>1. pc[d] \in Published => blockedOn[d] = Imports(d)
      BY <1>1, Zenon DEF PublishInv, PublishAt
    <3> QED
      BY <1>1, <1>2, <2>3, <3>1, Zenon
  <2>5. \A g \in Known(f) : pc'[g] \in Published => g \in Known(f)'
    BY <1>3, <1>5, <2>1, <2>3
  <2>6. \A i \in 1..Len(Imports(f)) : Looked(f, i)' => Looked(f, i)
    BY <1>4, <1>6, <2>1, <2>2, Zenon
  <2> QED
    BY <2>1, <2>4, <2>5, <2>6, RankKept, Zenon
<1> QED
  BY <1>7, <1>8

\* The other steps of a task that has published its imports.
LEMMA MoveRank ==
  ASSUME TypeOK, world' = world, NEW CONSTANT rank, NEW CONSTANT f \in Files, RankedAt(rank, f),
         \A g \in Files : pc'[g] \in Published => pc[g] \in Published,
         Looks(f) \/ LoopEnds(f) \/ Gives(f) \/ Awaited(f)
  PROVE  RankedAt(rank, f)'
<1>1. CASE Gives(f) \/ Awaited(f)
  <2>1. pc[f] \in {"release", "wait"} /\ checked'[f] = checked[f]
    BY <1>1, Zenon DEF Gives, Awaited, Goes
  <2>2. \A i : Looked(f, i)
    BY <2>1 DEF Looked
  <2>3. \A d \in Known(f) : d \in Known(f)'
    BY <2>1, Zenon DEF Known
  <2> QED
    BY <2>1, <2>2, <2>3, RankKept, Zenon
<1>2. CASE LoopEnds(f)
  <2>1. pc[f] = "import" /\ checked'[f] = checked[f] /\ idx[f] > Len(Imports(f))
    BY <1>2, Zenon DEF LoopEnds, Goes, Same
  <2>2. \A i \in 1..Len(Imports(f)) : i < idx[f]
    <3>1. Len(Imports(f)) \in Nat /\ idx[f] \in Nat
      BY WorldTypes, SearchTypes
    <3>2. \A m, n \in Nat : n > m => \A i \in 1..m : i < n
      OBVIOUS
    <3> QED
      BY <2>1, <3>1, <3>2, Zenon
  <2>3. \A d \in Known(f) : d \in Known(f)'
    BY <2>1 DEF Known
  <2>4. \A i \in 1..Len(Imports(f)) : Looked(f, i)
    BY <2>2 DEF Looked
  <2> QED
    BY <2>1, <2>3, <2>4, RankKept, Zenon
<1>3. CASE Looks(f)
  <2> DEFINE dep == Imports(f)[idx[f]]
             c == Root(f)
  <2>1. /\ pc[f] = "import" /\ pc'[f] = "check" /\ checked'[f] = checked[f] /\ idx'[f] = idx[f]
        /\ stack'[f] = <<c>>
    BY <1>3, Zenon DEF Looks, Goes
  <2>2. Pending(c) = {dep}
    BY DEF Pending, Names, Root
  <2> HIDE DEF c
  <2>3. Todo(<<c>>) = {dep}
    BY <2>2 DEF Todo
  <2>4. Known(f)' = checked'[f] \cup Todo(stack'[f])
    BY <2>1 DEF Known, Todo, Pending, Names
  <2>5. dep \in Known(f)' /\ \A d \in Known(f) : d \in Known(f)'
    BY <2>1, <2>3, <2>4, Zenon DEF Known
  <2>6. \A i : Looked(f, i)' => Looked(f, i) \/ i = idx[f]
    BY <2>1, Zenon DEF Looked
  <2> QED
    BY <2>1, <2>5, <2>6, RankKept, Zenon
<1> QED
  BY <1>1, <1>2, <1>3

\* A task that publishes its imports comes last.
LEMMA PublishRank ==
  ASSUME TypeOK, PublishInv, NEW CONSTANT f \in Files, Publishes(f), world' = world,
         \A g \in Files : g # f => Idle(g),
         NEW CONSTANT N \in Nat, NEW CONSTANT rank \in [Files -> 0..N],
         \A g \in Files : RankedAt(rank, g)
  PROVE  RankInv'
<1> DEFINE top == [rank EXCEPT ![f] = N + 1]
<1>0. /\ pc[f] = "resolve" /\ pc'[f] \in {"import", "link"}
      /\ checked'[f] = {} /\ idx'[f] = 1
  BY DEF Publishes, Goes, PublishInv, PublishAt
<1>1. top \in [Files -> 0..N + 1] /\ top[f] = N + 1 /\ \A g \in Files : g # f => top[g] = rank[g]
  OBVIOUS
<1>2. N + 1 \in Nat
  OBVIOUS
<1> HIDE DEF top
<1>3. RankedAt(top, f)'
  <2>1. \A i \in 1..Len(Imports(f)') : ~Looked(f, i)'
    BY <1>0 DEF Looked
  <2> QED
    BY <1>0, <2>1, Zenon DEF RankedAt
<1>4. ASSUME NEW g \in Files, g # f, pc'[g] \in Published PROVE pc'[g] = pc[g] /\ Same(g)
  BY <1>4, Zenon DEF Idle, Stays, Begins, Published
<1>5. ASSUME NEW g \in Files, g # f, pc'[g] \in Published PROVE RankedAt(top, g)'
  <2>1. Low(top, g)' \subseteq Low(rank, g)
    <3>1. ASSUME NEW h \in Files, pc'[h] \in Published, top[h] <= top[g]
          PROVE  pc[h] \in Published /\ rank[h] <= rank[g]
      <4>1. h # f
        BY <1>1, <1>5, <3>1
      <4> QED
        BY <1>1, <1>4, <1>5, <3>1, <4>1, Zenon
    <3> QED
      BY <3>1, Zenon DEF Low
  <2>2. pc'[g] = pc[g] /\ Same(g)
    BY <1>4, <1>5, Zenon
  <2>3. Known(g)' = Known(g) /\ \A i : Looked(g, i)' <=> Looked(g, i)
    BY <2>2 DEF Same, Known, Looked, Todo, Pending, Names
  <2>4. \A h : Imports(h)' = Imports(h)
    BY DEF Imports
  <2>5. RankedAt(rank, g) /\ checked'[g] = checked[g]
    BY <2>2 DEF Same
  <2> QED
    BY <1>5, <2>1, <2>2, <2>3, <2>4, <2>5, Zenon DEF RankedAt
<1>6. ASSUME NEW g \in Files PROVE RankedAt(top, g)'
  BY <1>3, <1>5, Zenon DEF RankedAt
<1> QED
  BY <1>1, <1>2, <1>6 DEF RankInv

LEMMA RankStep ==
  ASSUME Returns, TypeInv, TaskInv, PublishInv, RankInv, [Next]_vars
  PROVE  RankInv'
<1> PICK N \in Nat : \E rank \in [Files -> 0..N] : \A f \in Files : RankedAt(rank, f)
  BY DEF RankInv
<1>0. PICK rank \in [Files -> 0..N] : \A f \in Files : RankedAt(rank, f)
  OBVIOUS
<1>1. TypeOK /\ StatusInv /\ world' = world
  BY WorldStays DEF TypeInv, TaskInv
<1>2. ASSUME \A f \in Files : RankedAt(rank, f)' PROVE RankInv'
  BY <1>0, <1>2 DEF RankInv
<1>3. ASSUME NEW f \in Files, Task(f) PROVE RankInv'
  <2>0. \A g \in Files : g # f => Idle(g)
    BY <1>1, <1>3, OthersIdle
  <2>1. CASE Publishes(f)
    BY <1>0, <1>1, <2>0, <2>1, PublishRank
  <2>2. CASE ~Publishes(f)
    <3>1. \A g \in Files : pc'[g] \in Published => pc[g] \in Published
      <4>1. ASSUME NEW g \in Files, pc'[g] \in Published PROVE pc[g] \in Published
        <5>1. CASE g = f
          BY <1>3, <2>2, <4>1, <5>1, PublishedBefore
        <5>2. CASE g # f
          BY <2>0, <4>1, <5>2, Zenon DEF Idle, Stays, Begins, Published
        <5> QED
          BY <5>1, <5>2
      <4> QED
        BY <4>1
    <3>2. RankedAt(rank, f)'
      <4>1. CASE Skips(f) \/ Descends(f)
        BY <1>0, <1>1, <3>1, <4>1, SearchRank
      <4>2. CASE Looks(f) \/ LoopEnds(f) \/ Gives(f) \/ Awaited(f)
        BY <1>0, <1>1, <3>1, <4>2, MoveRank
      <4>3. CASE pc'[f] \notin Published
        BY <4>3 DEF RankedAt
      <4>4. CASE Unblocks(f) \/ Takes(f) \/ Settles(f) \/ Panics(f)
        BY <4>3, <4>4, Zenon DEF Unblocks, Takes, Settles, Panics, Goes, Published
      <4>5. CASE Cancelled(f) \/ Closes(f) \/ Releases(f) \/ Recovers(f)
        BY <4>3, <4>5, Zenon DEF Cancelled, Closes, Releases, Recovers, Goes, Published
      <4> QED
        BY <1>3, <2>2, <4>1, <4>2, <4>4, <4>5, TaskMoves, Zenon
    <3>3. ASSUME NEW g \in Files, g # f PROVE RankedAt(rank, g)'
      BY <1>0, <1>1, <2>0, <3>1, <3>3, IdleRank
    <3> QED
      BY <1>2, <3>2, <3>3
  <2> QED
    BY <2>1, <2>2
<1>4. CASE MainStep \/ Cancel \/ Finished \/ UNCHANGED vars
  <2>1. \A g \in Files : Idle(g)
    BY <1>1, <1>4, MainIdle
  <2>2. \A g \in Files : pc'[g] \in Published => pc[g] \in Published
    BY <2>1, Zenon DEF Idle, Stays, Begins, Published
  <2>3. ASSUME NEW g \in Files PROVE RankedAt(rank, g)'
    BY <1>0, <1>1, <2>1, <2>2, IdleRank
  <2> QED
    BY <1>2, <2>3
<1> QED
  BY <1>3, <1>4 DEF Next

-----------------------------------------------------------------------------
(* Circles of waiting tasks.                                               *)

\* Each task of the set waits for a task of the set.
Circle(S) == \A f \in S : Waiting(f) /\ Awaits(f) \in S

\* What the last task of a circle to publish has visited is a circle too,
\* and it never visits itself.
LEMMA SmallerCircle ==
  ASSUME TypeOK, Plain, PathInv, NEW rank, NEW S \in SUBSET Files, Circle(S),
         NEW f \in S, RankedAt(rank, f), \A g \in S : rank[g] <= rank[f]
  PROVE  \E T \in SUBSET S : T # S /\ T # {} /\ Circle(T)
<1> DEFINE T == S \cap checked[f]
<1>1. /\ \A g \in S : pc[g] = "wait" /\ Awaits(g) \in Names(Imports(g)) /\ Awaits(g) \in S
      /\ Awaits(f) = Imports(f)[idx[f]] /\ idx[f] \in 1..Len(Imports(f))
  <2>1. ASSUME NEW g \in S
        PROVE  /\ pc[g] = "wait" /\ Awaits(g) = Imports(g)[idx[g]] /\ Awaits(g) \in S
               /\ idx[g] \in 1..Len(Imports(g))
    <3>1. AllImports(g) = Imports(g) /\ idx[g] \in Nat \ {0}
      BY PlainImports, SearchTypes
    <3>2. Imports(g) \in Seq(Files)
      BY WorldTypes
    <3> QED
      BY <3>1, <3>2 DEF Circle, Waiting, Awaits
  <2> QED
    BY <2>1 DEF Names
<1>2. S \subseteq Low(rank, f) /\ pc[f] \in Published
  BY <1>1 DEF Low, Published
<1>3. Known(f) = checked[f] /\ \A i : Looked(f, i)
  BY <1>1 DEF Known, Looked
<1>4. Awaits(f) \in T
  BY <1>1, <1>2, <1>3, Zenon DEF RankedAt
<1>5. Circle(T)
  <2>1. ASSUME NEW g \in T PROVE Awaits(g) \in T
    BY <1>1, <1>2, <1>3 DEF RankedAt
  <2> QED
    BY <2>1 DEF Circle
<1>6. T # S
  BY DEF PathInv, PathAt
<1> QED
  BY <1>4, <1>5, <1>6

-----------------------------------------------------------------------------
(* Lemmas about the frames of the cycle search.                            *)

\* A non-empty set of positions of a sequence has a last one.
LEMMA LastPosition ==
  ASSUME NEW n \in Nat, NEW T, T \subseteq 1..n, T # {}
  PROVE  \E i \in T : \A j \in T : j <= i
<1> DEFINE U == {k \in Nat : n - k \in T}
<1>1. U \subseteq Nat /\ U # {}
  <2>1. PICK i \in T : TRUE
    BY Zenon
  <2>2. n - i \in Nat /\ n - (n - i) = i
    BY <2>1
  <2> QED
    BY <2>1, <2>2, Zenon
<1>2. PICK k \in U : \A m \in U : ~ (<<m, k>> \in OpToRel(<, Nat))
  <2> HIDE DEF U
  <2> QED
    BY <1>1, NatLessThanWellFounded, WFMin, Zenon
<1>3. \A m \in U : ~ (m < k)
  BY <1>1, <1>2, Zenon DEF OpToRel
<1>4. \A j \in T : j <= n - k
  <2> TAKE j \in T
  <2>1. n - j \in U
    BY DEF U
  <2> QED
    BY <1>3, <2>1
<1> QED
  BY <1>2, <1>4, Zenon

\* The calls that return leave the frames below them as they are, and are
\* those after the last one with something to look at.
LEMMA ReturnedPrefix == Returns
<1> SUFFICES ASSUME NEW s \in Seq(Frame)
             PROVE  \E k \in 0..Len(s) :
                      /\ Returned(s) = SubSeq(s, 1, k)
                      /\ k # 0 => s[k].todo # <<>>
                      /\ \A i \in 1..Len(s) : s[i].todo # <<>> => i <= k
  BY DEF Returns
<1> DEFINE open == {i \in 1..Len(s) : s[i].todo # <<>>}
<1>0. Len(s) \in Nat
  OBVIOUS
<1>1. CASE open = {}
  <2>1. Returned(s) = SubSeq(s, 1, 0)
    BY <1>0, <1>1 DEF Returned
  <2> QED
    BY <1>0, <1>1, <2>1
<1>2. CASE open # {}
  <2> DEFINE k == CHOOSE i \in open : \A j \in open : j <= i
  <2>1. k \in open /\ \A j \in open : j <= k
    <3>1. open \subseteq 1..Len(s)
      OBVIOUS
    <3> HIDE DEF open
    <3>2. \E i \in open : \A j \in open : j <= i
      BY <1>0, <1>2, <3>1, LastPosition, Zenon
    <3> QED
      BY <3>2
  <2>2. Returned(s) = SubSeq(s, 1, k)
    BY <1>2, Zenon DEF Returned
  <2> HIDE DEF k
  <2>3. k \in 1..Len(s) /\ s[k].todo # <<>>
    BY <2>1
  <2>4. k \in 0..Len(s) /\ \A i \in 1..Len(s) : s[i].todo # <<>> => i <= k
    BY <1>0, <2>1, <2>3
  <2> QED
    BY <2>2, <2>3, <2>4
<1> QED
  BY <1>1, <1>2

-----------------------------------------------------------------------------
(* Permits.                                                                *)

\* Such steps conserve the permits.
LEMMA PermitStepConserves ==
  ASSUME permits \in Nat, PermitsConserved, PermitStep
  PROVE  PermitsConserved'
<1>1. IsFiniteSet(Holders) /\ Cardinality(Holders) \in Nat
  <2>1. Holders \in SUBSET Files
    BY DEF Holders
  <2> QED
    BY <2>1, FilesAssumption, FS_Subset, FS_CardinalityType
<1>2. CASE permits' = permits /\ Holders' = Holders
  BY <1>2 DEF PermitsConserved
<1>3. ASSUME NEW f \in Files \ Holders, permits' = permits - 1, Holders' = Holders \cup {f}
      PROVE  PermitsConserved'
  <2>1. Cardinality(Holders \cup {f}) = Cardinality(Holders) + 1
    BY <1>1, FS_AddElement
  <2> QED
    BY <1>1, <1>3, <2>1 DEF PermitsConserved
<1>4. ASSUME NEW f \in Holders, permits' = permits + 1, Holders' = Holders \ {f}
      PROVE  PermitsConserved'
  <2>1. Cardinality(Holders \ {f}) = Cardinality(Holders) - 1
    BY <1>1, FS_RemoveElement
  <2> QED
    BY <1>1, <1>4, <2>1 DEF PermitsConserved
<1> QED
  BY <1>2, <1>3, <1>4 DEF PermitStep

\* Types, permits, and what tasks have settled and released.
THEOREM ExecutorInvariant == Spec => []ExecInv
<1>1. Init => ExecInv
  <2> SUFFICES ASSUME Init PROVE PermitsConserved
    BY InitType, InitTask DEF ExecInv
  <2>1. Holders = {}
    BY DEF Init, Holders, Holding, Deferred
  <2> QED
    BY <2>1, ParAssumption, FS_EmptySet DEF Init, PermitsConserved
<1>2. ExecInv /\ [Next]_vars => ExecInv'
  <2> SUFFICES ASSUME ExecInv, [Next]_vars PROVE ExecInv'
    OBVIOUS
  <2>1. TypeInv /\ TaskInv /\ permits \in Nat
    BY DEF ExecInv, TypeInv, TaskInv, TypeOK
  <2>2. PermitsConserved' /\ StatusInv' /\ ReleasedInv'
    BY <2>1, PermitStepConserves, TaskStep DEF ExecInv
  <2>3. CASE \E f \in Files : Task(f)
    BY <2>1, <2>2, <2>3, ReturnedPrefix, TaskType DEF ExecInv
  <2>4. CASE MainStep \/ Cancel \/ Finished \/ UNCHANGED vars
    BY <2>1, <2>2, <2>4, MainType DEF ExecInv
  <2> QED
    BY <2>3, <2>4 DEF Next
<1> QED
  BY <1>1, <1>2, PTL DEF Spec

\* Every variable keeps its type, and a running search always has a file to
\* look at (checkForDependencyCycle never runs off its lists).
THEOREM TypeCorrect == Spec => []TypeInv
<1>1. ExecInv => TypeInv
  BY DEF ExecInv
<1> QED
  BY <1>1, ExecutorInvariant, PTL

\* The executor's semaphore never loses a permit and never gets one back
\* twice, whichever way a task ends: normally, by an error, by a cancelled
\* Acquire or by a panic.
THEOREM PermitsAreConserved == Spec => []PermitsConserved
<1>1. ExecInv => PermitsConserved
  BY DEF ExecInv
<1> QED
  BY <1>1, ExecutorInvariant, PTL

\* A task works only while it holds a permit, so the number of tasks at work
\* never exceeds MaxParallelism.
THEOREM WorkersAreBounded == Spec => [](WorkersHoldPermits /\ Cardinality(Holders) <= Par)
<1>1. ExecInv => WorkersHoldPermits
  BY WorkingPoints DEF ExecInv, ReleasedInv, ReleasedAt, WorkersHoldPermits, Holding
<1>2. ExecInv => Cardinality(Holders) <= Par
  <2> SUFFICES ASSUME ExecInv PROVE Cardinality(Holders) <= Par
    OBVIOUS
  <2>1. Holders \in SUBSET Files
    BY DEF Holders
  <2>2. Cardinality(Holders) \in Nat
    BY <2>1, FilesAssumption, FS_Subset, FS_CardinalityType
  <2> QED
    BY <2>2, ParAssumption, TaskTypes DEF ExecInv, TypeInv, PermitsConserved
<1> QED
  BY <1>1, <1>2, ExecutorInvariant, PTL

-----------------------------------------------------------------------------
(* Settled results and complete files.                                     *)

\* Settled results, when closing a source does not panic.
LEMMA CleanInvariant == ASSUME CleanClose PROVE Spec => []CleanInv
<1>1. Init => CleanInv
  BY DEF Init, CleanInv, CleanAt
<1>2. ExecInv /\ CleanInv /\ [Next]_vars => CleanInv'
  BY NextStable
<1> QED
  BY <1>1, <1>2, ExecutorInvariant, PTL DEF Spec

\* Once ready is closed the file or error behind it never changes, so all
\* the tasks that wait for it read the same; this is where the recover
\* handler's test of r.err matters.
THEOREM SettledResultsStay == ASSUME CleanClose PROVE Spec => SettledForever
<1>1. ExecInv /\ CleanInv /\ [Next]_vars => [Stable]_vars
  BY NextStable
<1>2. [Stable]_vars <=> [\A f \in Files : result[f] \in Settled => result'[f] = result[f]]_vars
  BY DEF Stable
<1> QED
  BY <1>1, <1>2, ExecutorInvariant, CleanInvariant, PTL DEF Spec, SettledForever

\* Recovering a panic never closes a ready channel twice.
THEOREM PanicsAreContained == ASSUME CleanClose PROVE Spec => []NoCrash
<1>1. CleanInv => NoCrash
  BY DEF CleanInv, CleanAt, NoCrash
<1> QED
  BY <1>1, CleanInvariant, PTL

\* What tasks know of their imports, in every state.
LEMMA DepsInvariant == ASSUME CleanClose PROVE Spec => []DepsInv
<1>1. Init => DepsInv
  BY DEF Init, DepsInv, DepsAt
<1>2. ExecInv /\ CleanInv /\ DepsInv /\ [Next]_vars => DepsInv'
  BY NextStable, DepsStep, Zenon
<1> QED
  BY <1>1, <1>2, ExecutorInvariant, CleanInvariant, PTL DEF Spec

\* A file is complete only when all its imports are: no task links against
\* an import that failed or that is still being compiled.
THEOREM CompleteFilesAreClosed == ASSUME CleanClose PROVE Spec => []CompleteAreClosed
<1>1. DepsInv => CompleteAreClosed
  BY DEF DepsInv, DepsAt, Complete, CompleteAreClosed, Names
<1> QED
  BY <1>1, DepsInvariant, PTL

\* No file on an import cycle, and none that leads to one, ever becomes
\* complete, however the tasks interleave and however Compile ends.
THEOREM CyclicFilesNeverComplete == ASSUME CleanClose PROVE Spec => []CyclesNeverComplete
<1>1. Init => CyclesNeverComplete
  BY DEF Init, CyclesNeverComplete
<1>2. ExecInv /\ DepsInv /\ CyclesNeverComplete /\ [Next]_vars => CyclesNeverComplete'
  BY CompleteStep, Zenon
<1> QED
  BY <1>1, <1>2, ExecutorInvariant, DepsInvariant, PTL DEF Spec

-----------------------------------------------------------------------------
(* The search for cycles.                                                  *)

\* No file gets an implicit import.
LEMMA PlainInvariant == ASSUME NoOverride PROVE Spec => []Plain
<1>1. Init => Plain
  BY DEF Init, NoOverride, Plain
<1>2. ExecInv /\ Plain /\ [Next]_vars => Plain'
  BY WorldStays, Zenon DEF ExecInv, TypeInv, Plain
<1> QED
  BY <1>1, <1>2, ExecutorInvariant, PTL DEF Spec

\* The lists a search reads are the imports of files.
LEMMA PublishInvariant == ASSUME NoOverride PROVE Spec => []PublishInv
<1>1. Init => PublishInv
  BY DEF Init, PublishInv, PublishAt, Published
<1>2. ExecInv /\ Plain /\ PublishInv /\ [Next]_vars => PublishInv'
  BY PublishStep, Zenon DEF ExecInv, TypeInv, TaskInv
<1> QED
  BY <1>1, <1>2, ExecutorInvariant, PlainInvariant, PTL DEF Spec

\* A search follows imports from the file of its task.
LEMMA PathInvariant == ASSUME NoOverride PROVE Spec => []PathInv
<1>1. Init => PathInv
  BY DEF Init, PathInv, PathAt
<1>2. ExecInv /\ PublishInv /\ PathInv /\ [Next]_vars => PathInv'
  BY PathStep, ReturnedPrefix, Zenon DEF ExecInv, TypeInv, TaskInv
<1> QED
  BY <1>1, <1>2, ExecutorInvariant, PublishInvariant, PTL DEF Spec

\* A task knows the tasks that published before it and that it leads to.
LEMMA RankInvariant == ASSUME NoOverride PROVE Spec => []RankInv
<1>1. Init => RankInv
  <2> SUFFICES ASSUME Init PROVE RankInv
    OBVIOUS
  <2> DEFINE rank == [f \in Files |-> 0]
  <2>1. 0 \in Nat /\ rank \in [Files -> 0..0]
    OBVIOUS
  <2> HIDE DEF rank
  <2>2. \A f \in Files : RankedAt(rank, f)
    BY DEF Init, RankedAt, Published
  <2> QED
    BY <2>1, <2>2 DEF RankInv
<1>2. ExecInv /\ PublishInv /\ RankInv /\ [Next]_vars => RankInv'
  BY RankStep, ReturnedPrefix DEF ExecInv, TypeInv, TaskInv
<1> QED
  BY <1>1, <1>2, ExecutorInvariant, PublishInvariant, PTL DEF Spec

\* No task fails for the way it was scheduled: unless the context is done, a
\* failed file leads to an import cycle or to a file that is defective.
THEOREM FailuresHaveACause ==
  ASSUME CleanClose, NoOverride PROVE Spec => []FailuresHaveCause
<1>1. Init => CauseInv
  BY DEF Init, CauseInv, CauseAt, Errors, Falling
<1>2. ExecInv /\ CleanInv /\ PublishInv /\ PathInv /\ CauseInv /\ [Next]_vars => CauseInv'
  BY CauseStep DEF ExecInv, TypeInv, TaskInv
<1>3. CauseInv => FailuresHaveCause
  BY DEF CauseInv, CauseAt, Cause, FailuresHaveCause
<1> QED
  BY <1>1, <1>2, <1>3, ExecutorInvariant, CleanInvariant, PublishInvariant, PathInvariant, PTL
     DEF Spec

\* A non-empty circle of waiting tasks has a member of highest rank.
LEMMA LastOfCircle ==
  ASSUME NEW N \in Nat, NEW rank \in [Files -> 0..N], NEW S \in SUBSET Files, S # {}
  PROVE  \E f \in S : \A g \in S : rank[g] <= rank[f]
<1> DEFINE T == {i \in 1..N + 1 : \E f \in S : i = rank[f] + 1}
<1>1. T \subseteq 1..N + 1 /\ N + 1 \in Nat
  OBVIOUS
<1>2. ASSUME NEW f \in S PROVE rank[f] \in Nat /\ rank[f] + 1 \in T
  <2>1. rank[f] \in 0..N
    OBVIOUS
  <2>2. rank[f] + 1 \in 1..N + 1
    BY <2>1
  <2> QED
    BY <2>1, <2>2
<1>3. T # {}
  BY <1>2
<1>4. \A i \in T : \E f \in S : i = rank[f] + 1
  OBVIOUS
<1> HIDE DEF T
<1>5. PICK i \in T : \A j \in T : j <= i
  BY <1>1, <1>3, LastPosition, Zenon
<1>6. PICK f \in S : i = rank[f] + 1
  BY <1>4, <1>5
<1> QED
  BY <1>2, <1>5, <1>6

\* No circle of waiting tasks: the least one would have a smaller one in it.
LEMMA NoCircle ==
  ASSUME TypeOK, Plain, PathInv, RankInv
  PROVE  NoCircularWait
<1> SUFFICES ASSUME NEW S0 \in SUBSET Files, S0 # {}, Circle(S0) PROVE FALSE
  BY DEF NoCircularWait, Circle
<1> DEFINE Round == {S \in SUBSET Files : S # {} /\ Circle(S)}
           Sizes == {Cardinality(S) : S \in Round}
<1>1. \A S \in SUBSET Files : IsFiniteSet(S) /\ Cardinality(S) \in Nat
  BY FilesAssumption, FS_Subset, FS_CardinalityType
<1>2. Sizes \subseteq Nat /\ Sizes # {}
  BY <1>1
<1>3. PICK n \in Sizes : \A m \in Sizes : ~ (<<m, n>> \in OpToRel(<, Nat))
  <2> HIDE DEF Sizes
  <2> QED
    BY <1>2, NatLessThanWellFounded, WFMin, Zenon
<1>4. PICK S \in Round : n = Cardinality(S)
  BY <1>3, Zenon
<1>5. PICK N \in Nat : \E rank \in [Files -> 0..N] : \A f \in Files : RankedAt(rank, f)
  BY DEF RankInv
<1>6. PICK rank \in [Files -> 0..N] : \A f \in Files : RankedAt(rank, f)
  BY <1>5
<1>7. PICK f \in S : \A g \in S : rank[g] <= rank[f]
  BY <1>4, <1>5, <1>6, LastOfCircle
<1>8. PICK T \in SUBSET S : T # S /\ T # {} /\ Circle(T)
  BY <1>4, <1>6, <1>7, SmallerCircle
<1>9. T \in Round /\ Cardinality(T) \in Sizes
  BY <1>4, <1>8
<1>10. Cardinality(T) < Cardinality(S)
  BY <1>1, <1>4, <1>8, FS_Subset
<1> HIDE DEF Sizes, Round
<1>11. <<Cardinality(T), n>> \in OpToRel(<, Nat)
  BY <1>2, <1>4, <1>9, <1>10, Zenon DEF OpToRel
<1> QED
  BY <1>3, <1>9, <1>11, Zenon

\* The check for dependency cycles does prevent deadlock when nobody
\* overrides descriptor.proto: whatever the interleaving, there is never a
\* set of tasks each of which waits for the import of another of the set.
THEOREM NobodyWaitsInACircle == ASSUME NoOverride PROVE Spec => []NoCircularWait
<1>1. ExecInv /\ Plain /\ PathInv /\ RankInv => NoCircularWait
  BY NoCircle DEF ExecInv, TypeInv
<1> QED
  BY <1>1, ExecutorInvariant, PlainInvariant, PathInvariant, RankInvariant, PTL
==============================================================================
