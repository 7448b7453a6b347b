----------------------------- MODULE CompilerSteps -----------------------------
(***************************************************************************)
(* What a step of Compiler does to the task that takes it and to the       *)
(* others: the facts about actions from which CompilerProofs derives its   *)
(* lemmas and theorems.                                                    *)
(***************************************************************************)
EXTENDS Compiler, TLAPS


-----------------------------------------------------------------------------
(* Types.                                                                  *)

Result == Settled \cup {"none", "pending"}

LEMMA TaskTypes ==
  ASSUME TypeOK
  PROVE  /\ pc \in [Files -> Pcs] /\ result \in [Files -> Result]
         /\ released \in [Files -> BOOLEAN] /\ permits \in Nat
  BY DEF TypeOK, Result

LEMMA SearchTypes ==
  ASSUME TypeOK
  PROVE  /\ idx \in [Files -> Nat \ {0}] /\ blockedOn \in [Files -> Seq(Files)]
         /\ stack \in [Files -> Seq(Frame)] /\ checked \in [Files -> SUBSET Files]
  BY DEF TypeOK

LEMMA WorldTypes ==
  ASSUME TypeOK, NEW f \in Files
  PROVE  /\ Imports(f) \in Seq(Files)
         /\ AllImports(f) \in Seq(Files)
         /\ Names(Imports(f)) \subseteq Files
<1>1. Imports(f) \in Seq(Files)
  BY DEF TypeOK, Entry, Imports
<1> QED
  BY <1>1, FilesAssumption DEF AllImports, Names

-----------------------------------------------------------------------------
(* What a step leaves alone.                                               *)

\* Two functions that differ at most at f.
Only(f, v, w) == w = v \/ \E x : w = [v EXCEPT ![f] = x]

\* The files of S that have no result yet get a task.
Started(f) ==
  \E S, q : result' = StartedResult(S) /\ pc' = [StartedPc(S) EXCEPT ![f] = q]

\* A step of f's task changes what belongs to f, may start tasks, and may
\* report an error.
Reach(f) ==
  /\ world' = world /\ ctxDone' = ctxDone /\ main' = main
  /\ handler' = handler \/ \E abort \in BOOLEAN : HandleError(abort)
  /\ Started(f) \/ (Only(f, pc, pc') /\ Only(f, result, result'))
  /\ Only(f, released, released') /\ Only(f, idx, idx') /\ Only(f, blockedOn, blockedOn')
  /\ Only(f, stack, stack') /\ Only(f, checked, checked')

LEMMA TaskReach == ASSUME NEW f \in Files, Task(f) PROVE Reach(f)
<1> USE DEF Reach, Only
<1>1. CASE Acquire(f) \/ AcquireCancelled(f)
  BY <1>1, Zenon DEF Acquire, AcquireCancelled
<1>2. CASE ResolvePanic(f) \/ ResolveEnds(f)
  BY <1>2, Zenon DEF ResolvePanic, ResolveEnds, Settle
<1>3. CASE ParseFails(f) \/ ParseDone(f)
  BY <1>3, Zenon DEF ParseFails, ParseDone, Settle
<1>4. CASE SelfImport(f) \/ CycleFound(f)
  BY <1>4, Zenon DEF SelfImport, CycleFound, Settle
<1>5. CASE StartImport(f) \/ ImportsStarted(f)
  BY <1>5, Zenon DEF StartImport, ImportsStarted, Started
<1>6. CASE CycleSkip(f)
  BY <1>6, Zenon DEF CycleSkip, Continue
<1>7. CASE CycleDescend(f)
  BY <1>7, Zenon DEF CycleDescend, Continue
<1>8. CASE ReleaseToWait(f) \/ Unblock(f)
  BY <1>8, Zenon DEF ReleaseToWait, Unblock
<1>9. CASE WaitReady(f)
  BY <1>9, Zenon DEF WaitReady, Settle
<1>10. CASE WaitCancelled(f) \/ ReacquireCancelled(f)
  BY <1>10, Zenon DEF WaitCancelled, ReacquireCancelled, Settle
<1>11. CASE Reacquire(f) \/ LinkPanic(f)
  BY <1>11, Zenon DEF Reacquire, LinkPanic
<1>12. CASE LinkOk(f) \/ LinkFails(f)
  BY <1>12, Zenon DEF LinkOk, LinkFails, Settle
<1>13. CASE Close(f) \/ TaskRelease(f) \/ Recover(f)
  BY <1>13, Zenon DEF Close, TaskRelease, Recover
<1> HIDE DEF Reach, Only
<1> QED
  BY <1>1, <1>2, <1>3, <1>4, <1>5, <1>6, <1>7, <1>8, <1>9, <1>10, <1>11, <1>12, <1>13 DEF Task

\* What the search looks at is the same for f as before.
Same(f) ==
  /\ idx'[f] = idx[f] /\ blockedOn'[f] = blockedOn[f]
  /\ stack'[f] = stack[f] /\ checked'[f] = checked[f]

\* f's task does nothing, or is started.
Stays(f) == pc'[f] = pc[f] /\ result'[f] = result[f]
Begins(f) ==
  result[f] = "none" /\ result'[f] = "pending" /\ pc'[f] = "acquire"
Idle(f) == Same(f) /\ released'[f] = released[f] /\ (Stays(f) \/ Begins(f))

LEMMA StartedIdle ==
  ASSUME NEW S, NEW g \in Files, result'[g] = StartedResult(S)[g], pc'[g] = StartedPc(S)[g]
  PROVE  Stays(g) \/ Begins(g)
  BY DEF StartedResult, StartedPc, Stays, Begins

\* A step of one task leaves the others alone.
LEMMA OthersIdle ==
  ASSUME TypeOK, NEW f \in Files, Task(f), NEW g \in Files, g # f
  PROVE  Idle(g)
<1>1. Reach(f)
  BY TaskReach
<1>2. Same(g) /\ released'[g] = released[g]
  <2>1. /\ Files = DOMAIN idx /\ Files = DOMAIN blockedOn
        /\ Files = DOMAIN stack /\ Files = DOMAIN checked /\ Files = DOMAIN released
    BY TaskTypes, SearchTypes
  <2>2. idx'[g] = idx[g] /\ blockedOn'[g] = blockedOn[g]
    BY <1>1, <2>1, Zenon DEF Reach, Only
  <2>3. stack'[g] = stack[g] /\ checked'[g] = checked[g]
    BY <1>1, <2>1, Zenon DEF Reach, Only
  <2>4. released'[g] = released[g]
    BY <1>1, <2>1, Zenon DEF Reach, Only
  <2> QED
    BY <2>2, <2>3, <2>4 DEF Same
<1>3. CASE Started(f)
  <2>1. PICK S, q : result' = StartedResult(S) /\ pc' = [StartedPc(S) EXCEPT ![f] = q]
    BY <1>3, Zenon DEF Started
  <2>2. pc'[g] = StartedPc(S)[g]
    BY <2>1 DEF StartedPc
  <2> QED
    BY <1>2, <2>1, <2>2, StartedIdle, Zenon DEF Idle
<1>4. CASE Only(f, pc, pc') /\ Only(f, result, result')
  <2>1. Files = DOMAIN pc /\ Files = DOMAIN result
    BY TaskTypes
  <2>2. pc'[g] = pc[g] /\ result'[g] = result[g]
    BY <1>4, <2>1, Zenon DEF Only
  <2> QED
    BY <1>2, <2>2 DEF Idle, Stays
<1> QED
  BY <1>1, <1>3, <1>4 DEF Reach

\* Compile leaves all tasks alone, or starts some.
LEMMA MainIdle ==
  ASSUME TypeOK, MainStep \/ Cancel \/ Finished \/ UNCHANGED vars
  PROVE  world' = world /\ permits' = permits /\ \A f \in Files : Idle(f)
<1>1. CASE CompileStart
  BY <1>1, StartedIdle, Zenon DEF CompileStart, Idle, Same
<1>2. CASE CompileCollect \/ CompileReturn \/ CompileCancelled
  BY <1>2 DEF CompileCollect, CompileReturn, CompileCancelled, taskVars, Idle, Same, Stays
<1>3. CASE Cancel \/ Finished \/ UNCHANGED vars
  BY <1>3 DEF Cancel, Finished, vars, taskVars, Idle, Same, Stays
<1> QED
  BY <1>1, <1>2, <1>3 DEF MainStep

\* What the Resolver serves does not change, and the context stays done.
LEMMA WorldStays ==
  ASSUME TypeOK, [Next]_vars
  PROVE  world' = world /\ (ctxDone => ctxDone')
<1>1. CASE \E f \in Files : Task(f)
  BY <1>1, TaskReach DEF Reach
<1>2. CASE MainStep \/ Cancel \/ Finished \/ UNCHANGED vars
  <2>1. ctxDone => ctxDone'
    BY <1>2, Zenon DEF MainStep, CompileStart, CompileCollect, CompileReturn, CompileCancelled,
                Cancel, Finished, vars
  <2> QED
    BY <1>2, <2>1, MainIdle
<1> QED
  BY <1>1, <1>2 DEF Next

-----------------------------------------------------------------------------
(* What a step does to its own task.                                       *)

\* A task exists exactly when its result does; until it settles the result
\* the task is at one of these points.
Unsettled == {"acquire", "resolve", "import", "check", "release", "wait", "reacquire", "link"}
StatusAt(f) ==
  /\ result[f] = "none" <=> pc[f] = "none"
  /\ pc[f] \in Unsettled => result[f] = "pending"
  /\ pc[f] \in {"close", "exit", "done", "crash"} => result[f] \in Settled
StatusInv == \A f \in Files : StatusAt(f)

\* task.released tells whether the task has given its permit back.
ReleasedAt(f) ==
  /\ pc[f] \in Working \cup {"none", "acquire"} => ~released[f]
  /\ pc[f] \in {"wait", "reacquire"} => released[f]
ReleasedInv == \A f \in Files : ReleasedAt(f)

TaskInv == TypeOK /\ StatusInv /\ ReleasedInv

\* The point, the result and the permit of f's task.
Goes(f, p, q) == pc[f] = p /\ pc'[f] = q
Keeps(f) == result'[f] = result[f] /\ released'[f] = released[f] /\ permits' = permits

Takes(f) ==
  /\ Goes(f, "acquire", "resolve") \/ Goes(f, "reacquire", "link")
  /\ permits > 0 /\ permits' = permits - 1
  /\ released'[f] = FALSE /\ result'[f] = result[f] /\ Same(f)

Publishes(f) ==
  /\ Goes(f, "resolve", IF AllImports(f) = <<>> THEN "link" ELSE "import")
  /\ world[f].search = "source"
  /\ blockedOn'[f] = AllImports(f)
  /\ idx'[f] = idx[f] /\ stack'[f] = stack[f] /\ checked'[f] = checked[f] /\ Keeps(f)

\* The first call of a search, for the import the loop has come to.
Root(f) == [node |-> f, todo |-> <<Imports(f)[idx[f]]>>]

Looks(f) ==
  /\ Goes(f, "import", "check")
  /\ idx[f] <= Len(Imports(f))
  /\ stack'[f] = <<Root(f)>>
  /\ idx'[f] = idx[f] /\ blockedOn'[f] = blockedOn[f] /\ checked'[f] = checked[f] /\ Keeps(f)

\* The search goes on with the frames s.
Continued(f, s) ==
  /\ Goes(f, "check", IF Returned(s) = <<>> THEN "import" ELSE "check")
  /\ stack'[f] = Returned(s)
  /\ idx'[f] = IF Returned(s) = <<>> THEN idx[f] + 1 ELSE idx[f]
  /\ blockedOn'[f] = blockedOn[f] /\ Keeps(f)

Skips(f) ==
  /\ result[Next1(f)] = "none" \/ Next1(f) \in checked[f]
  /\ checked'[f] = checked[f]
  /\ Continued(f, Stepped(f))

Entered(f) == [node |-> Next1(f), todo |-> blockedOn[Next1(f)]]

Descends(f) ==
  /\ Next1(f) \notin Sequence(f)
  /\ checked'[f] = checked[f] \cup {Next1(f)}
  /\ Continued(f, Append(Stepped(f), Entered(f)))

LoopEnds(f) ==
  Goes(f, "import", "release") /\ idx[f] > Len(Imports(f)) /\ Same(f) /\ Keeps(f)

Gives(f) ==
  /\ Goes(f, "release", "wait")
  /\ permits' = permits + 1 /\ released'[f] = TRUE /\ result'[f] = result[f]
  /\ idx'[f] = 1
  /\ blockedOn'[f] = blockedOn[f] /\ stack'[f] = stack[f] /\ checked'[f] = checked[f]

Awaited(f) ==
  /\ Goes(f, "wait", "wait")
  /\ result[Imports(f)[idx[f]]] = "ok"
  /\ idx'[f] = idx[f] + 1
  /\ blockedOn'[f] = blockedOn[f] /\ stack'[f] = stack[f] /\ checked'[f] = checked[f] /\ Keeps(f)

Unblocks(f) ==
  /\ Goes(f, "wait", "reacquire")
  /\ idx[f] > Len(Imports(f))
  /\ blockedOn'[f] = <<>>
  /\ idx'[f] = idx[f] /\ stack'[f] = stack[f] /\ checked'[f] = checked[f] /\ Keeps(f)

\* The steps that settle a result before the deferred calls run.
SettleStep(f) ==
  \/ ResolveEnds(f) \/ ParseFails(f) \/ SelfImport(f) \/ CycleFound(f) \/ WaitCancelled(f)
  \/ (WaitReady(f) /\ result[Imports(f)[idx[f]]] # "ok")
  \/ ReacquireCancelled(f) \/ LinkOk(f) \/ LinkFails(f)

Settles(f) ==
  /\ SettleStep(f)
  /\ pc[f] \in Working \cup {"wait", "reacquire"} /\ pc'[f] = "close"
  /\ result'[f] \in Settled
  /\ result'[f] = "ok" => pc[f] = "link" \/ world[f].search # "source"
  /\ released'[f] = released[f] /\ permits' = permits /\ Same(f)

Panics(f) ==
  /\ ResolvePanic(f) \/ LinkPanic(f)
  /\ pc[f] \in Working /\ pc'[f] = "unwind" /\ Same(f) /\ Keeps(f)

Cancelled(f) ==
  /\ AcquireCancelled(f)
  /\ Goes(f, "acquire", "done")
  /\ result'[f] = "ctx"
  /\ released'[f] = released[f] /\ permits' = permits /\ Same(f)

Closes(f) ==
  /\ Goes(f, "close", "exit") \/ (Goes(f, "close", "unwind") /\ world[f].close = "panic")
  /\ Same(f) /\ Keeps(f)

Releases(f) ==
  /\ Goes(f, "exit", "done") \/ Goes(f, "unwind", "recover")
  /\ permits' = IF released[f] THEN permits ELSE permits + 1
  /\ released'[f] = TRUE /\ result'[f] = result[f] /\ Same(f)

Recovers(f) ==
  /\ pc[f] = "recover"
  /\ pc'[f] = IF result[f] = "ok" THEN "crash" ELSE "done"
  /\ result'[f] = IF result[f] \in Errors THEN result[f] ELSE "panic"
  /\ released'[f] = released[f] /\ permits' = permits /\ Same(f)

\* Every step of a task is one of these.
LEMMA TaskMoves ==
  ASSUME TaskInv, NEW f \in Files, Task(f)
  PROVE  \/ Takes(f) \/ Publishes(f) \/ Looks(f) \/ Skips(f) \/ Descends(f) \/ LoopEnds(f)
         \/ Gives(f) \/ Awaited(f) \/ Unblocks(f) \/ Settles(f) \/ Panics(f)
         \/ Cancelled(f) \/ Closes(f) \/ Releases(f) \/ Recovers(f)
<1>0. /\ f \in DOMAIN pc /\ f \in DOMAIN result /\ f \in DOMAIN released
      /\ f \in DOMAIN idx /\ f \in DOMAIN blockedOn /\ f \in DOMAIN stack /\ f \in DOMAIN checked
  BY TaskTypes, SearchTypes DEF TaskInv
<1>1. CASE Acquire(f) \/ Reacquire(f)
  <2>1. CASE Acquire(f)
    <3>1. released[f] = FALSE
      BY <2>1, TaskTypes DEF Acquire, TaskInv, ReleasedInv, ReleasedAt
    <3> QED
      BY <1>0, <2>1, <3>1 DEF Acquire, Takes, Goes, Same
  <2>2. CASE Reacquire(f)
    BY <1>0, <2>2 DEF Reacquire, Takes, Goes, Same
  <2> QED
    BY <1>1, <2>1, <2>2
<1>2. CASE ResolvePanic(f) \/ LinkPanic(f)
  BY <1>0, <1>2 DEF ResolvePanic, LinkPanic, Panics, Working, Keeps, Same
<1>3. ASSUME SettleStep(f), NEW r \in Settled, Settle(f, r), r = "ok" => pc[f] = "link" \/ world[f].search # "source",
             pc[f] \in Working \cup {"wait", "reacquire"},
             UNCHANGED <<permits, released, idx, blockedOn, stack, checked>>
      PROVE  Settles(f)
  BY <1>0, <1>3 DEF Settle, Settles, Same
<1>4. CASE ResolveEnds(f)
  <2>1. SettleStep(f)
    BY <1>4 DEF SettleStep
  <2> QED
    BY <1>3, <1>4, <2>1 DEF ResolveEnds, Settled, Errors, Working
<1>5. CASE ParseFails(f) \/ SelfImport(f) \/ CycleFound(f) \/ LinkFails(f)
  <2>1. "reported" \in Settled
    BY DEF Settled, Errors
  <2>2. SettleStep(f)
    BY <1>5 DEF SettleStep
  <2> QED
    BY <1>3, <1>5, <2>1, <2>2 DEF ParseFails, SelfImport, CycleFound, LinkFails, Working
<1>6. CASE WaitCancelled(f) \/ ReacquireCancelled(f) \/ LinkOk(f)
  <2>1. "ctx" \in Settled /\ "ok" \in Settled
    BY DEF Settled, Errors
  <2>2. SettleStep(f)
    BY <1>6 DEF SettleStep
  <2> QED
    BY <1>3, <1>6, <2>1, <2>2 DEF WaitCancelled, ReacquireCancelled, LinkOk, Working
<1>7. CASE ParseDone(f)
  BY <1>0, <1>7 DEF ParseDone, Publishes, Goes, Keeps
<1>8. CASE StartImport(f)
  <2>1. result[f] = "pending"
    BY <1>8 DEF StartImport, TaskInv, StatusInv, StatusAt, Unsettled
  <2> QED
    BY <1>0, <1>8, <2>1 DEF StartImport, StartedResult, StartedPc, Looks, Root, Goes, Keeps
<1>9. CASE ImportsStarted(f)
  <2>1. result[f] = "pending"
    BY <1>9 DEF ImportsStarted, TaskInv, StatusInv, StatusAt, Unsettled
  <2> QED
    BY <1>0, <1>9, <2>1 DEF ImportsStarted, StartedResult, StartedPc, LoopEnds, Goes, Keeps, Same
<1>10. CASE CycleSkip(f)
  BY <1>0, <1>10 DEF CycleSkip, Continue, Skips, Continued, Goes, Keeps
<1>11. CASE CycleDescend(f)
  BY <1>0, <1>11 DEF CycleDescend, Continue, Descends, Continued, Entered, Goes, Keeps
<1>12. CASE ReleaseToWait(f)
  BY <1>0, <1>12 DEF ReleaseToWait, Gives, Goes
<1>13. CASE WaitReady(f)
  <2> DEFINE r == result[Imports(f)[idx[f]]]
  <2>1. CASE r = "ok"
    BY <1>0, <1>13, <2>1 DEF WaitReady, Awaited, Goes, Keeps
  <2>2. CASE r # "ok"
    <3>1. (IF r = "resolve" THEN "import" ELSE r) \in Settled \ {"ok"}
      BY <1>13, <2>2 DEF WaitReady, Settled, Errors
    <3>2. SettleStep(f)
      BY <1>13, <2>2 DEF SettleStep
    <3> QED
      BY <1>3, <1>13, <2>2, <3>1, <3>2 DEF WaitReady
  <2> QED
    BY <2>1, <2>2
<1>14. CASE Unblock(f)
  BY <1>0, <1>14 DEF Unblock, Unblocks, Goes, Keeps
<1>15. CASE AcquireCancelled(f)
  BY <1>0, <1>15 DEF AcquireCancelled, Cancelled, Goes, Same
<1>16. CASE Close(f)
  <2>1. pc'[f] = "exit" \/ (pc'[f] = "unwind" /\ world[f].close = "panic")
    BY <1>0, <1>16 DEF Close
  <2> QED
    BY <1>0, <1>16, <2>1 DEF Close, Closes, Goes, Keeps, Same
<1>17. CASE TaskRelease(f)
  BY <1>0, <1>17 DEF TaskRelease, Releases, Goes, Same
<1>18. CASE Recover(f)
  BY <1>0, <1>18 DEF Recover, Recovers, Same
<1> QED
  BY <1>1, <1>2, <1>4, <1>5, <1>6, <1>7, <1>8, <1>9, <1>10, <1>11, <1>12, <1>13, <1>14, <1>15,
     <1>16, <1>17, <1>18, Zenon DEF Task

-----------------------------------------------------------------------------
(* The frames of a search.                                                 *)

\* The calls that return leave the frames below them as they are, and are
\* those after the last one with something to look at (see ReturnedPrefix).
Returns ==
  \A s \in Seq(Frame) : \E k \in 0..Len(s) :
    /\ Returned(s) = SubSeq(s, 1, k)
    /\ k # 0 => s[k].todo # <<>>
    /\ \A i \in 1..Len(s) : s[i].todo # <<>> => i <= k

\* What is left is frames, and the last of them has something to look at.
LEMMA ReturnedFrames ==
  ASSUME Returns, NEW s \in Seq(Frame)
  PROVE  /\ Returned(s) \in Seq(Frame)
         /\ Returned(s) # <<>> => Returned(s)[Len(Returned(s))].todo # <<>>
<1>1. PICK k \in 0..Len(s) : Returned(s) = SubSeq(s, 1, k) /\ (k # 0 => s[k].todo # <<>>)
  BY Zenon DEF Returns
<1>2. CASE k = 0
  BY <1>1, <1>2
<1>3. CASE k # 0
  BY <1>1, <1>3
<1> QED
  BY <1>2, <1>3

\* The first of a list and the rest of it.
LEMMA HeadAndTail ==
  ASSUME NEW q \in Seq(Files), q # <<>>
  PROVE  Names(q) = {Head(q)} \cup Names(Tail(q)) /\ Tail(q) \in Seq(Files)
<1>1. Len(q) \in Nat \ {0} /\ Head(q) = q[1]
  OBVIOUS
<1>2. /\ Tail(q) \in Seq(Files) /\ Len(Tail(q)) = Len(q) - 1
      /\ \A i \in 1..Len(Tail(q)) : Tail(q)[i] = q[i + 1]
  OBVIOUS
<1>3. Head(q) \in Names(q)
  BY <1>1 DEF Names
<1>4. Names(Tail(q)) \subseteq Names(q)
  BY <1>1, <1>2 DEF Names
<1>5. ASSUME NEW i \in 1..Len(q), i # 1 PROVE q[i] \in Names(Tail(q))
  <2>1. i - 1 \in 1..Len(Tail(q)) /\ (i - 1) + 1 = i
    BY <1>1, <1>2, <1>5
  <2>2. Tail(q)[i - 1] = q[i]
    BY <1>2, <2>1
  <2> QED
    BY <2>1, <2>2, Zenon DEF Names
<1>6. Names(q) \subseteq {Head(q)} \cup Names(Tail(q))
  BY <1>1, <1>5, Zenon DEF Names
<1> QED
  BY <1>2, <1>3, <1>4, <1>6

\* The frames of a search when its last call takes the next file of its list.
Taken(s) == [s EXCEPT ![Len(s)].todo = Tail(@)]

LEMMA TakenFrames ==
  ASSUME NEW s \in Seq(Frame), s # <<>>, s[Len(s)].todo # <<>>
  PROVE  /\ Taken(s) \in Seq(Frame) /\ Len(Taken(s)) = Len(s) /\ Len(s) \in 1..Len(s)
         /\ \A i \in 1..Len(s) : i # Len(s) => Taken(s)[i] = s[i]
         /\ Taken(s)[Len(s)].node = s[Len(s)].node
         /\ Taken(s)[Len(s)].todo = Tail(s[Len(s)].todo)
<1> DEFINE n == Len(s)
           c == s[n]
           e == [c EXCEPT !.todo = Tail(@)]
<1>1. n \in 1..n
  OBVIOUS
<1>2. c \in Frame
  BY <1>1
<1>3. Taken(s) = [s EXCEPT ![n] = e]
  BY <1>1 DEF Taken
<1>4. Tail(c.todo) \in Seq(Files)
  BY <1>2 DEF Frame
<1> HIDE DEF c
<1>5. e \in Frame /\ e.node = c.node /\ e.todo = Tail(c.todo)
  BY <1>2, <1>4, Zenon DEF Frame
<1> HIDE DEF e, n
<1>6. /\ Taken(s) \in Seq(Frame) /\ Len(Taken(s)) = n
      /\ \A i \in 1..n : Taken(s)[i] = IF i = n THEN e ELSE s[i]
  BY <1>1, <1>3, <1>5 DEF n
<1> QED
  BY <1>1, <1>5, <1>6 DEF n, c

\* A running search has a file to look at next.
SearchInv ==
  \A f \in Files : pc[f] = "check" => stack[f] # <<>> /\ Top(f).todo # <<>>

TypeInv == TypeOK /\ SearchInv

\* Types, in the search for cycles.
LEMMA NextTypes ==
  ASSUME TypeInv, NEW f \in Files, pc[f] = "check"
  PROVE  /\ stack[f] \in Seq(Frame) /\ stack[f] # <<>> /\ Top(f).todo # <<>>
         /\ Stepped(f) = Taken(stack[f]) /\ Top(f) = stack[f][Len(stack[f])]
         /\ Next1(f) \in Files /\ Next1(f) = Head(Top(f).todo)
         /\ Stepped(f) \in Seq(Frame)
         /\ Entered(f) \in Frame
<1>1. stack[f] \in Seq(Frame) /\ stack[f] # <<>> /\ Top(f).todo # <<>>
  BY SearchTypes DEF TypeInv, SearchInv
<1>2. Top(f) = stack[f][Len(stack[f])] /\ Stepped(f) = Taken(stack[f])
  BY DEF Top, Stepped, Taken
<1>3. Stepped(f) \in Seq(Frame)
  BY <1>1, <1>2, TakenFrames
<1>4. Top(f) \in Frame
  BY <1>1, <1>2
<1>5. Next1(f) \in Files /\ Next1(f) = Head(Top(f).todo)
  BY <1>1, <1>4 DEF Next1, Frame
<1>6. Entered(f) \in Frame
  BY <1>5, SearchTypes DEF TypeInv, Entered, Frame
<1> QED
  BY <1>1, <1>2, <1>3, <1>5, <1>6

-----------------------------------------------------------------------------
(* Types, in every step.                                                   *)

\* The types of what belongs to f, after a step.
PointTyped(f) == pc'[f] \in Pcs /\ result'[f] \in Result /\ released'[f] \in BOOLEAN /\ permits' \in Nat
Calm == Pcs \ {"check"}
SearchTyped(f) ==
  /\ idx'[f] \in Nat \ {0} /\ blockedOn'[f] \in Seq(Files)
  /\ stack'[f] \in Seq(Frame) /\ checked'[f] \in SUBSET Files

\* A step that leaves types right where it reaches leaves them right.
LEMMA ReachTyped ==
  ASSUME TypeOK, NEW f \in Files, Reach(f), PointTyped(f), SearchTyped(f)
  PROVE  TypeOK'
<1>1. pc' \in [Files -> Pcs] /\ result' \in [Files -> Result]
  <2>1. CASE Started(f)
    <3>1. PICK S, q : result' = StartedResult(S) /\ pc' = [StartedPc(S) EXCEPT ![f] = q]
      BY <2>1, Zenon DEF Started
    <3>2. StartedPc(S) \in [Files -> Pcs] /\ StartedResult(S) \in [Files -> Result]
      BY TaskTypes DEF StartedPc, StartedResult, Pcs, Deferred, Result
    <3> QED
      BY <3>1, <3>2 DEF PointTyped
  <2>2. CASE Only(f, pc, pc') /\ Only(f, result, result')
    BY <2>2, TaskTypes DEF Only, PointTyped
  <2> QED
    BY <2>1, <2>2 DEF Reach
<1>2. released' \in [Files -> BOOLEAN] /\ permits' \in Nat
  BY TaskTypes DEF Reach, Only, PointTyped
<1>3. idx' \in [Files -> Nat \ {0}]
  BY SearchTypes, Zenon DEF Reach, Only, SearchTyped
<1>4. blockedOn' \in [Files -> Seq(Files)]
  BY SearchTypes, Zenon DEF Reach, Only, SearchTyped
<1>5. stack' \in [Files -> Seq(Frame)]
  BY SearchTypes, Zenon DEF Reach, Only, SearchTyped
<1>6. checked' \in [Files -> SUBSET Files]
  BY SearchTypes, Zenon DEF Reach, Only, SearchTyped
<1>7. handler' \in [reported : BOOLEAN, aborted : BOOLEAN]
  <2>1. handler \in [reported : BOOLEAN, aborted : BOOLEAN]
    BY DEF TypeOK
  <2>2. CASE handler' = handler
    BY <2>1, <2>2
  <2>3. ASSUME NEW abort \in BOOLEAN, HandleError(abort)
        PROVE  handler' \in [reported : BOOLEAN, aborted : BOOLEAN]
    BY <2>1, <2>3 DEF HandleError
  <2> QED
    BY <2>2, <2>3 DEF Reach
<1>8. /\ world' \in [Files -> Entry] /\ ctxDone' \in BOOLEAN
      /\ main' \in [at : {"start", "wait", "done"}, idx : Nat \ {0},
                    firstError : Errors \cup {"nil"}, ret : Settled \cup {"nil"}]
  BY DEF Reach, TypeOK
<1> QED
  BY <1>1, <1>2, <1>3, <1>4, <1>5, <1>6, <1>7, <1>8, Zenon DEF TypeOK, Result

\* A search goes on with frames, and stops when none is left.
LEMMA ContinuedTypes ==
  ASSUME Returns, TypeOK, NEW f \in Files, NEW s \in Seq(Frame), Continued(f, s)
  PROVE  /\ idx'[f] \in Nat \ {0} /\ stack'[f] \in Seq(Frame) /\ blockedOn'[f] \in Seq(Files)
         /\ pc'[f] \in {"import", "check"}
         /\ pc'[f] = "check" => stack'[f] # <<>> /\ stack'[f][Len(stack'[f])].todo # <<>>
<1> DEFINE rest == Returned(s)
<1>1. rest \in Seq(Frame) /\ (rest # <<>> => rest[Len(rest)].todo # <<>>)
  BY ReturnedFrames, Zenon
<1> HIDE DEF rest
<1>2. /\ pc'[f] = IF rest = <<>> THEN "import" ELSE "check"
      /\ stack'[f] = rest
      /\ idx'[f] = IF rest = <<>> THEN idx[f] + 1 ELSE idx[f]
      /\ blockedOn'[f] = blockedOn[f]
  BY Zenon DEF Continued, Goes, rest
<1>3. idx[f] \in Nat \ {0} /\ idx[f] + 1 \in Nat \ {0} /\ blockedOn[f] \in Seq(Files)
  BY SearchTypes
<1> QED
  BY <1>1, <1>2, <1>3

\* Types, in steps of a task.
LEMMA TaskType ==
  ASSUME Returns, TypeInv, TaskInv, NEW f \in Files, Task(f)
  PROVE  TypeInv'
<1>0. /\ pc[f] \in Pcs /\ result[f] \in Result /\ released[f] \in BOOLEAN /\ permits \in Nat
      /\ idx[f] \in Nat \ {0} /\ blockedOn[f] \in Seq(Files)
      /\ stack[f] \in Seq(Frame) /\ checked[f] \in SUBSET Files
  BY TaskTypes, SearchTypes DEF TaskInv
<1> DEFINE Sought == pc'[f] = "check" => stack'[f] # <<>> /\ stack'[f][Len(stack'[f])].todo # <<>>
<1> SUFFICES PointTyped(f) /\ SearchTyped(f) /\ Sought
  <2>1. Reach(f) /\ \A g \in Files : g # f => Idle(g)
    BY TaskReach, OthersIdle DEF TaskInv
  <2>2. ASSUME PointTyped(f), SearchTyped(f) PROVE TypeOK'
    BY <2>1, <2>2, ReachTyped DEF TaskInv
  <2>3. ASSUME Sought, NEW g \in Files, pc'[g] = "check"
        PROVE  stack'[g] # <<>> /\ stack'[g][Len(stack'[g])].todo # <<>>
    <3>1. CASE g = f
      BY <2>3, <3>1
    <3>2. CASE g # f
      BY <2>1, <2>3, <3>2 DEF Idle, Same, Stays, Begins, TypeInv, SearchInv, Top
    <3> QED
      BY <3>1, <3>2
  <2> HIDE DEF Sought
  <2> QED
    BY <2>2, <2>3 DEF TypeInv, SearchInv, Top
<1>1. Same(f) => SearchTyped(f)
  BY <1>0 DEF Same, SearchTyped
<1>2. Keeps(f) => result'[f] \in Result /\ released'[f] \in BOOLEAN /\ permits' \in Nat
  BY <1>0 DEF Keeps
<1>3. ASSUME pc'[f] \in Calm PROVE Sought /\ pc'[f] \in Pcs
  BY <1>3 DEF Calm
<1>c. /\ {"resolve", "import", "release", "wait", "reacquire", "link"} \subseteq Calm
      /\ {"close", "exit", "unwind", "recover", "done", "crash"} \subseteq Calm
  BY DEF Calm, Pcs, Deferred
<1> HIDE DEF Sought
<1>n. permits + 1 \in Nat /\ (permits > 0 => permits - 1 \in Nat)
  BY <1>0
<1> USE DEF PointTyped, Goes
<1>4. CASE Takes(f)
  BY <1>0, <1>1, <1>3, <1>c, <1>4, <1>n, Zenon DEF Takes
<1>5. CASE Publishes(f)
  <2>1. SearchTyped(f)
    BY <1>0, <1>5, WorldTypes DEF Publishes, SearchTyped, TaskInv
  <2> QED
    BY <1>2, <1>3, <1>c, <1>5, <2>1 DEF Publishes
<1>d. "check" \in Pcs /\ "import" \in Pcs
  BY DEF Pcs, Deferred
<1>6. CASE Looks(f)
  <2>1. Imports(f) \in Seq(Files) /\ idx[f] \in Nat \ {0} /\ idx[f] <= Len(Imports(f))
    BY <1>0, <1>6, WorldTypes DEF Looks, TaskInv
  <2>2. Imports(f)[idx[f]] \in Files
    BY <2>1
  <2>3. Root(f) \in Frame /\ Root(f).todo # <<>>
    BY <2>2 DEF Root, Frame
  <2>4. stack'[f] \in Seq(Frame) /\ Sought
    BY <1>6, <2>3 DEF Looks, Sought
  <2> QED
    BY <1>0, <1>2, <1>d, <1>6, <2>4, Zenon DEF Looks, SearchTyped
<1>7. ASSUME NEW s \in Seq(Frame), Continued(f, s), checked'[f] \in SUBSET Files
      PROVE  PointTyped(f) /\ SearchTyped(f) /\ Sought
  <2>1. SearchTyped(f) /\ pc'[f] \in Pcs /\ Sought
    BY <1>d, <1>7, ContinuedTypes DEF SearchTyped, TaskInv, Sought
  <2> QED
    BY <1>2, <1>7, <2>1 DEF Continued
<1>8. CASE Skips(f)
  BY <1>0, <1>7, <1>8, NextTypes DEF Skips, Continued
<1>9. CASE Descends(f)
  <2>1. /\ Stepped(f) \in Seq(Frame) /\ Entered(f) \in Frame /\ Next1(f) \in Files
        /\ Continued(f, Append(Stepped(f), Entered(f)))
        /\ checked'[f] = checked[f] \cup {Next1(f)}
    BY <1>9, NextTypes DEF Descends, Continued
  <2>2. Append(Stepped(f), Entered(f)) \in Seq(Frame) /\ checked'[f] \in SUBSET Files
    BY <1>0, <2>1
  <2> QED
    BY <1>7, <2>1, <2>2, Zenon
<1>10. CASE LoopEnds(f)
  BY <1>1, <1>2, <1>3, <1>c, <1>10 DEF LoopEnds
<1>11. CASE Gives(f)
  <2>1. 1 \in Nat \ {0}
    OBVIOUS
  <2> QED
    BY <1>0, <1>3, <1>c, <1>11, <1>n, <2>1, Zenon DEF Gives, SearchTyped
<1>12. CASE Awaited(f)
  <2>1. idx[f] + 1 \in Nat \ {0}
    BY <1>0
  <2> QED
    BY <1>0, <1>2, <1>3, <1>c, <1>12, <2>1 DEF Awaited, SearchTyped
<1>13. CASE Unblocks(f)
  BY <1>0, <1>2, <1>3, <1>c, <1>13 DEF Unblocks, SearchTyped
<1>14. CASE Settles(f)
  BY <1>0, <1>1, <1>3, <1>c, <1>14 DEF Settles, Result
<1>15. CASE Panics(f) \/ Closes(f)
  BY <1>1, <1>2, <1>3, <1>c, <1>15 DEF Panics, Closes
<1>16. CASE Cancelled(f)
  BY <1>0, <1>1, <1>3, <1>c, <1>16 DEF Cancelled, Result, Settled, Errors
<1>17. CASE Releases(f)
  BY <1>0, <1>1, <1>3, <1>c, <1>17, <1>n, Zenon DEF Releases
<1>18. CASE Recovers(f)
  BY <1>0, <1>1, <1>3, <1>c, <1>18 DEF Recovers, Result, Settled, Errors
<1> QED
  BY <1>4, <1>5, <1>6, <1>8, <1>9, <1>10, <1>11, <1>12, <1>13, <1>14, <1>15, <1>16, <1>17, <1>18,
     TaskMoves, Zenon

\* Types, at the beginning.
LEMMA InitType == Init => TypeInv
<1> SUFFICES ASSUME Init PROVE TypeInv
  OBVIOUS
<1>1. main \in [at : {"start", "wait", "done"}, idx : Nat \ {0},
                firstError : Errors \cup {"nil"}, ret : Settled \cup {"nil"}]
  BY DEF Init
<1>2. pc \in [Files -> Pcs] /\ SearchInv
  BY DEF Init, Pcs, Deferred, SearchInv
<1>3. world \in [Files -> Entry] /\ permits \in Nat /\ ctxDone \in BOOLEAN
  BY ParAssumption, WorldsAssumption, Zenon DEF Init
<1>4. handler \in [reported : BOOLEAN, aborted : BOOLEAN]
  BY DEF Init
<1>5. /\ result \in [Files -> Settled \cup {"none", "pending"}]
      /\ released \in [Files -> BOOLEAN]
      /\ checked \in [Files -> SUBSET Files]
  BY DEF Init
<1>6. blockedOn \in [Files -> Seq(Files)] /\ stack \in [Files -> Seq(Frame)]
  BY DEF Init
<1>7. idx \in [Files -> Nat \ {0}]
  BY DEF Init
<1> QED
  BY <1>1, <1>2, <1>3, <1>4, <1>5, <1>6, <1>7 DEF TypeInv, TypeOK

\* Types, in steps of Compile.
LEMMA MainType ==
  ASSUME TypeInv, MainStep \/ Cancel \/ Finished \/ UNCHANGED vars
  PROVE  TypeInv'
<1> DEFINE Record == [at : {"start", "wait", "done"}, idx : Nat \ {0},
                      firstError : Errors \cup {"nil"}, ret : Settled \cup {"nil"}]
<1>0. TypeOK
  BY DEF TypeInv
<1>1. main' \in Record
  <2>1. main \in Record
    BY <1>0 DEF TypeOK
  <2>2. CASE CompileStart
    BY <2>1, <2>2 DEF CompileStart
  <2>3. CASE CompileCollect
    <3>1. main.idx + 1 \in Nat \ {0}
      BY <2>1
    <3> QED
      BY <2>1, <2>3, <3>1, Zenon DEF CompileCollect
  <2>4. CASE CompileReturn
    BY <2>1, <2>4, Zenon DEF CompileReturn, Settled, Errors
  <2>5. CASE CompileCancelled
    BY <2>1, <2>5, Zenon DEF CompileCancelled, Settled, Errors
  <2>6. CASE Cancel \/ Finished \/ UNCHANGED vars
    BY <2>1, <2>6 DEF Cancel, Finished, vars
  <2> QED
    BY <2>2, <2>3, <2>4, <2>5, <2>6 DEF MainStep
<1>2. /\ ctxDone' \in {ctxDone, TRUE}
      /\ UNCHANGED <<world, permits, handler, released, idx, blockedOn, stack, checked>>
      /\ \/ UNCHANGED <<pc, result>>
         \/ pc' = StartedPc(Names(Explicit)) /\ result' = StartedResult(Names(Explicit))
  <2>1. CASE CompileStart
    BY <2>1 DEF CompileStart
  <2>2. CASE CompileCollect \/ CompileReturn \/ CompileCancelled
    BY <2>2, Zenon DEF CompileCollect, CompileReturn, CompileCancelled, taskVars
  <2>3. CASE Cancel \/ Finished \/ UNCHANGED vars
    BY <2>3, Zenon DEF Cancel, Finished, vars, taskVars
  <2> QED
    BY <2>1, <2>2, <2>3, Zenon DEF MainStep
<1>3. pc' \in [Files -> Pcs] /\ result' \in [Files -> Result]
  BY <1>0, <1>2, TaskTypes DEF StartedPc, StartedResult, Pcs, Deferred, Result
<1>4. TypeOK'
  BY <1>0, <1>1, <1>2, <1>3, Zenon DEF TypeOK, Result
<1>5. \A f \in Files : pc'[f] = "check" => pc[f] = "check"
  BY <1>2 DEF StartedPc
<1>6. SearchInv'
  BY <1>2, <1>5 DEF TypeInv, SearchInv, Top
<1> QED
  BY <1>4, <1>6 DEF TypeInv

-----------------------------------------------------------------------------
(* Where tasks are, what they have settled and what they hold.             *)

\* What a step may do to the permit of f's task: nothing, hand it one when it
\* has none, or take back the one it has.
PermitMove(f) ==
  \/ permits' = permits /\ (Holding(f)' <=> Holding(f))
  \/ permits' = permits - 1 /\ ~Holding(f) /\ Holding(f)'
  \/ permits' = permits + 1 /\ Holding(f) /\ ~Holding(f)'

LEMMA InitTask == Init => StatusInv /\ ReleasedInv
  BY DEF Init, StatusInv, StatusAt, ReleasedInv, ReleasedAt, Unsettled, Working

\* Steps in which the task goes on working, or waiting.
Works(f) == pc[f] \in Working /\ pc'[f] \in Working /\ Keeps(f)
Waits(f) == pc[f] = "wait" /\ pc'[f] \in {"wait", "reacquire"} /\ Keeps(f)

\* The steps of a task, by what they do to its point, its result and its permit.
LEMMA TaskChanges ==
  ASSUME TaskInv, NEW f \in Files, Task(f)
  PROVE  \/ Works(f) \/ Waits(f) \/ Takes(f) \/ Gives(f) \/ Settles(f) \/ Panics(f)
         \/ Cancelled(f) \/ Closes(f) \/ Releases(f) \/ Recovers(f)
<1>1. CASE Publishes(f) \/ Looks(f) \/ LoopEnds(f)
  BY <1>1, Zenon DEF Publishes, Looks, LoopEnds, Goes, Works, Working
<1>2. CASE Skips(f) \/ Descends(f)
  BY <1>2, Zenon DEF Skips, Descends, Continued, Goes, Works, Working
<1>3. CASE Awaited(f) \/ Unblocks(f)
  BY <1>3, Zenon DEF Awaited, Unblocks, Goes, Waits
<1> QED
  BY <1>1, <1>2, <1>3, TaskMoves, Zenon

LEMMA WorkingPoints ==
  ASSUME NEW p \in Working
  PROVE  /\ p \in Unsettled /\ p \in Deferred
         /\ p \notin {"none", "wait", "reacquire", "close", "exit", "done", "crash"}
         /\ p \notin {"unwind", "recover"}
  BY DEF Working, Unsettled, Deferred

\* A task that is left alone, or starts.
LEMMA IdleTask ==
  ASSUME TypeOK, NEW f \in Files, StatusAt(f), ReleasedAt(f), Idle(f)
  PROVE  StatusAt(f)' /\ ReleasedAt(f)' /\ (Holding(f)' <=> Holding(f))
<1>1. CASE Stays(f)
  BY <1>1 DEF Idle, Stays, StatusAt, ReleasedAt, Holding
<1>2. CASE Begins(f)
  BY <1>2, Zenon
     DEF Idle, Begins, StatusAt, ReleasedAt, Holding, Unsettled, Working, Deferred
<1> QED
  BY <1>1, <1>2 DEF Idle

\* A task that takes a step.
LEMMA OwnTask ==
  ASSUME TaskInv, NEW f \in Files, Task(f)
  PROVE  StatusAt(f)' /\ ReleasedAt(f)' /\ PermitMove(f)
<1>0. /\ released[f] \in BOOLEAN /\ permits \in Nat /\ StatusAt(f) /\ ReleasedAt(f)
  BY TaskTypes DEF TaskInv, StatusInv, ReleasedInv
<1>a. "pending" # "none" /\ "pending" \notin Settled /\ "none" \notin Settled
  BY DEF Settled, Errors
<1>1. CASE Works(f)
  <2>1. result'[f] = "pending" /\ ~released[f] /\ released'[f] = released[f] /\ permits' = permits
    BY <1>0, <1>1, WorkingPoints DEF Works, Keeps, StatusAt, ReleasedAt
  <2> QED
    BY <1>a, <1>1, <2>1, WorkingPoints, Zenon DEF Works, StatusAt, ReleasedAt, PermitMove, Holding
<1> USE <1>0 DEF StatusAt, ReleasedAt, PermitMove, Holding, Unsettled, Working, Deferred
<1>2. CASE Waits(f)
  BY <1>2 DEF Waits, Keeps
<1>3. CASE Takes(f)
  BY <1>3 DEF Takes, Goes
<1>4. CASE Gives(f)
  BY <1>4 DEF Gives, Goes
<1>5. CASE Settles(f)
  BY <1>a, <1>5, Zenon DEF Settles
<1>6. CASE Panics(f)
  BY <1>6 DEF Panics, Keeps
<1>7. CASE Cancelled(f)
  BY <1>7 DEF Cancelled, Goes, Settled, Errors
<1>8. CASE Closes(f)
  BY <1>a, <1>8 DEF Closes, Goes, Keeps
<1>9. CASE Releases(f)
  BY <1>a, <1>9 DEF Releases, Goes
<1>10. CASE Recovers(f)
  BY <1>10 DEF Recovers, Settled, Errors
<1> HIDE DEF StatusAt, ReleasedAt, PermitMove, Holding
<1> QED
  BY <1>1, <1>2, <1>3, <1>4, <1>5, <1>6, <1>7, <1>8, <1>9, <1>10, TaskChanges, Zenon

\* What a step may do to the semaphore: nothing, hand a permit to a task that
\* has none, or take one back from a task that has one.
PermitStep ==
  \/ permits' = permits /\ Holders' = Holders
  \/ \E f \in Files \ Holders : permits' = permits - 1 /\ Holders' = Holders \cup {f}
  \/ \E f \in Holders : permits' = permits + 1 /\ Holders' = Holders \ {f}

LEMMA TaskStep ==
  ASSUME TaskInv, [Next]_vars
  PROVE  (StatusInv /\ ReleasedInv)' /\ PermitStep
<1>0. \A f \in Files : StatusAt(f) /\ ReleasedAt(f)
  BY DEF TaskInv, StatusInv, ReleasedInv
<1>1. ASSUME NEW f \in Files, Task(f)
      PROVE  (StatusInv /\ ReleasedInv)' /\ PermitStep
  <2>1. StatusAt(f)' /\ ReleasedAt(f)' /\ PermitMove(f)
    BY <1>1, OwnTask
  <2>2. \A g \in Files : g # f => StatusAt(g)' /\ ReleasedAt(g)' /\ (Holding(g)' <=> Holding(g))
    BY <1>0, <1>1, IdleTask, OthersIdle DEF TaskInv
  <2>3. \A g \in Files : StatusAt(g)' /\ ReleasedAt(g)'
    BY <2>1, <2>2
  <2>4. CASE Holding(f)' <=> Holding(f)
    <3>1. Holders' = Holders
      BY <2>2, <2>4, Zenon DEF Holders
    <3> QED
      BY <2>1, <2>3, <2>4, <3>1 DEF PermitMove, PermitStep, StatusInv, ReleasedInv
  <2>5. CASE permits' = permits - 1 /\ ~Holding(f) /\ Holding(f)'
    <3>1. Holders' = Holders \cup {f} /\ f \notin Holders
      BY <2>2, <2>5, Zenon DEF Holders
    <3> QED
      BY <2>3, <2>5, <3>1 DEF PermitStep, StatusInv, ReleasedInv
  <2>6. CASE permits' = permits + 1 /\ Holding(f) /\ ~Holding(f)'
    <3>1. Holders' = Holders \ {f} /\ f \in Holders
      BY <2>2, <2>6, Zenon DEF Holders
    <3> QED
      BY <2>3, <2>6, <3>1 DEF PermitStep, StatusInv, ReleasedInv
  <2> QED
    BY <2>1, <2>4, <2>5, <2>6 DEF PermitMove
<1>2. CASE MainStep \/ Cancel \/ Finished \/ UNCHANGED vars
  <2>1. permits' = permits /\ \A f \in Files : Idle(f)
    BY <1>2, MainIdle DEF TaskInv
  <2>2. \A g \in Files : StatusAt(g)' /\ ReleasedAt(g)' /\ (Holding(g)' <=> Holding(g))
    BY <1>0, <2>1, IdleTask DEF TaskInv
  <2>3. Holders' = Holders
    BY <2>2, Zenon DEF Holders
  <2> QED
    BY <2>1, <2>2, <2>3 DEF PermitStep, StatusInv, ReleasedInv
<1> QED
  BY <1>1, <1>2 DEF Next

\* The inductive invariant of the executor.
ExecInv == TypeInv /\ StatusInv /\ ReleasedInv /\ PermitsConserved

-----------------------------------------------------------------------------
(* Settled results.                                                        *)

\* With sources that close without a panic, a task that unwinds has not yet
\* settled its result.
CleanAt(f) ==
  /\ pc[f] \in {"unwind", "recover"} => result[f] = "pending"
  /\ pc[f] # "crash"
CleanInv == world \in Worlds /\ \A f \in Files : CleanAt(f)

\* What is settled stays.
Stable == \A f \in Files : result[f] \in Settled => result'[f] = result[f]

\* Every step leaves settled results alone.
LEMMA NextStable ==
  ASSUME CleanClose, ExecInv, CleanInv, [Next]_vars
  PROVE  Stable /\ CleanInv'
<1> DEFINE Fixed(f) == result[f] \in Settled => result'[f] = result[f]
<1>0. TypeOK /\ TaskInv /\ \A f \in Files : CleanAt(f) /\ StatusAt(f)
  BY DEF ExecInv, TypeInv, TaskInv, CleanInv, StatusInv
<1>a. "pending" \notin Settled /\ "none" \notin Settled
  BY DEF Settled, Errors
<1>1. ASSUME NEW f \in Files, Idle(f) PROVE Fixed(f) /\ CleanAt(f)'
  BY <1>0, <1>a, <1>1, Zenon DEF Idle, Stays, Begins, CleanAt
<1>2. ASSUME NEW f \in Files, Task(f) PROVE Fixed(f) /\ CleanAt(f)'
  <2>0. StatusAt(f) /\ CleanAt(f)
    BY <1>0
  <2>1. CASE Works(f)
    BY <1>a, <2>0, <2>1, WorkingPoints, Zenon DEF Works, Keeps, StatusAt, CleanAt
  <2> USE DEF StatusAt, CleanAt, Unsettled
  <2>2. CASE Waits(f)
    BY <2>0, <2>2 DEF Waits, Keeps
  <2>3. CASE Takes(f)
    BY <1>a, <2>0, <2>3 DEF Takes, Goes
  <2>4. CASE Gives(f)
    BY <2>0, <2>4 DEF Gives, Goes
  <2>5. CASE Settles(f)
    BY <1>a, <2>0, <2>5 DEF Settles, Working
  <2>6. CASE Panics(f)
    BY <2>0, <2>6 DEF Panics, Keeps, Working
  <2>7. CASE Cancelled(f)
    BY <1>a, <2>0, <2>7 DEF Cancelled, Goes
  <2>8. CASE Closes(f)
    BY <2>0, <2>8 DEF Closes, Goes, Keeps, CleanInv, CleanClose
  <2>9. CASE Releases(f)
    BY <2>0, <2>9 DEF Releases, Goes
  <2>10. CASE Recovers(f)
    BY <1>a, <2>0, <2>10 DEF Recovers
  <2> HIDE DEF Fixed, StatusAt, CleanAt
  <2> QED
    BY <1>0, <1>2, <2>1, <2>2, <2>3, <2>4, <2>5, <2>6, <2>7, <2>8, <2>9, <2>10, TaskChanges, Zenon
<1> HIDE DEF Fixed
<1>3. \A f \in Files : Fixed(f) /\ CleanAt(f)'
  <2>1. CASE MainStep \/ Cancel \/ Finished \/ UNCHANGED vars
    BY <1>0, <1>1, <2>1, MainIdle
  <2>2. ASSUME NEW f \in Files, Task(f), NEW g \in Files PROVE Fixed(g) /\ CleanAt(g)'
    BY <1>0, <1>1, <1>2, <2>2, OthersIdle
  <2> QED
    BY <2>1, <2>2 DEF Next
<1>4. world' = world
  BY <1>0, WorldStays
<1> QED
  BY <1>3, <1>4 DEF Stable, CleanInv, Fixed
==============================================================================
