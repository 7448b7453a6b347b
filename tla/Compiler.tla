------------------------------- MODULE Compiler -------------------------------
(***************************************************************************)
(* The task executor of compiler.go: Compiler.Compile starts one goroutine *)
(* (a task) for every requested file; a task resolves and parses its file, *)
(* starts the tasks of its imports, gives its semaphore permit back while  *)
(* it waits for them, takes one again and links.  One result per file name *)
(* is shared by all the tasks that want it.                                *)
(*                                                                         *)
(* What a file holds is data: the model keeps how the Resolver answers,    *)
(* which files it imports, and how linking it ends.                        *)
(***************************************************************************)
EXTENDS Naturals, Sequences, FiniteSets

CONSTANTS
  Files,      \* the file names there are
  DescProto,  \* the name google/protobuf/descriptor.proto
  Explicit,   \* the names passed to Compile, in order
  Par,        \* MaxParallelism: the weight of the semaphore
  Worlds,     \* the file trees the Resolver may serve
  CanCancel   \* whether the caller's context may be cancelled

\* The answers of Resolver.FindFileByPath that asFile tells apart: no such
\* file; a panic; the built-in descriptor.proto; another descriptor or an
\* already linked result; an artifact for another path; source that does
\* not parse; something to be linked (source, AST, parse result, proto).
Searches == {"missing", "panic", "standard", "desc", "mismatch", "badparse", "source"}

\* How linking and option interpretation end when every import is there.
Links == {"ok", "bad", "panic"}

Entry == [search : Searches, imports : Seq(Files), link : Links, close : {"ok", "panic"}]

ASSUME FilesAssumption == IsFiniteSet(Files) /\ DescProto \in Files
ASSUME ParAssumption == Par \in Nat \ {0}
ASSUME ExplicitAssumption == Explicit \in Seq(Files) /\ Explicit # <<>>
ASSUME WorldsAssumption == Worlds \subseteq [Files -> Entry]
ASSUME CanCancelAssumption == CanCancel \in BOOLEAN

VARIABLES
  world,      \* what the Resolver serves; never changes
  permits,    \* free weight of the semaphore e.s
  ctxDone,    \* the context derived in Compile is cancelled
  handler,    \* the root reporter.Handler e.h
  result,     \* e.results: state of the result of each name
  blockedOn,  \* result.blockedOn
  pc,         \* where each task is
  released,   \* task.released
  idx,        \* loop index over the imports of a task
  stack,      \* frames of checkForDependencyCycle in progress
  checked,    \* its set of visited names
  main        \* Compile itself: where it is, firstError, what it returned

taskVars == <<pc, released, idx, stack, checked>>
vars == <<world, permits, ctxDone, handler, result, blockedOn, taskVars, main>>

Errors == {"ctx", "resolve", "import", "mismatch", "reported", "panic"}
Settled == Errors \cup {"ok"}

\* Between a successful first Acquire and the deferred release.
Deferred == {"resolve", "import", "check", "release", "wait",
             "reacquire", "link", "close", "exit", "unwind"}
Pcs == Deferred \cup {"none", "acquire", "recover", "done", "crash"}

\* The steps in which a task does the work MaxParallelism limits.
Working == {"resolve", "import", "check", "release", "link"}

Holding(f) == pc[f] \in Deferred /\ ~released[f]
Holders == {f \in Files : Holding(f)}

Frame == [node : Files, todo : Seq(Files)]

TypeOK ==
  /\ world \in [Files -> Entry]
  /\ permits \in Nat
  /\ ctxDone \in BOOLEAN
  /\ handler \in [reported : BOOLEAN, aborted : BOOLEAN]
  /\ result \in [Files -> Settled \cup {"none", "pending"}]
  /\ blockedOn \in [Files -> Seq(Files)]
  /\ pc \in [Files -> Pcs]
  /\ released \in [Files -> BOOLEAN]
  /\ idx \in [Files -> Nat \ {0}]
  /\ stack \in [Files -> Seq(Frame)]
  /\ checked \in [Files -> SUBSET Files]
  /\ main \in [at : {"start", "wait", "done"}, idx : Nat \ {0},
               firstError : Errors \cup {"nil"}, ret : Settled \cup {"nil"}]

Init ==
  /\ world \in Worlds
  /\ permits = Par
  /\ ctxDone = FALSE
  /\ handler = [reported |-> FALSE, aborted |-> FALSE]
  /\ result = [f \in Files |-> "none"]
  /\ blockedOn = [f \in Files |-> <<>>]
  /\ pc = [f \in Files |-> "none"]
  /\ released = [f \in Files |-> FALSE]
  /\ idx = [f \in Files |-> 1]
  /\ stack = [f \in Files |-> <<>>]
  /\ checked = [f \in Files |-> {}]
  /\ main = [at |-> "start", idx |-> 1, firstError |-> "nil", ret |-> "nil"]

-----------------------------------------------------------------------------
Imports(f) == world[f].imports
Names(s) == {s[i] : i \in 1..Len(s)}

\* hasOverrideDescriptorProto: a panic of the resolver counts as no override.
Overridden == world[DescProto].search \notin {"missing", "panic", "standard"}

\* A file gets the overriding descriptor.proto as a dependency unless it is
\* that file or imports it.
WantsDescriptorProto(f) ==
  /\ Overridden
  /\ f # DescProto
  /\ DescProto \notin Names(Imports(f))

\* The list asFile passes to setBlockedOn.
AllImports(f) ==
  IF WantsDescriptorProto(f) THEN Append(Imports(f), DescProto) ELSE Imports(f)

\* Handler.HandleError with a positioned error; abort is the reporter's answer.
HandleError(abort) ==
  handler' = IF handler.aborted THEN handler
                                ELSE [reported |-> TRUE, aborted |-> abort]

\* compileLocked: the first caller creates the result and starts its task.
StartedResult(fs) ==
  [f \in Files |-> IF f \in fs /\ result[f] = "none" THEN "pending" ELSE result[f]]
StartedPc(fs) ==
  [f \in Files |-> IF f \in fs /\ result[f] = "none" THEN "acquire" ELSE pc[f]]

\* r.fail or r.complete in doCompile; the deferred Close and release follow.
Settle(f, r) ==
  /\ result' = [result EXCEPT ![f] = r]
  /\ pc' = [pc EXCEPT ![f] = "close"]

-----------------------------------------------------------------------------
(* Compile.                                                                *)

\* All explicit results are created in one critical section of e.mu.
CompileStart ==
  /\ main.at = "start"
  /\ result' = StartedResult(Names(Explicit))
  /\ pc' = StartedPc(Names(Explicit))
  /\ main' = [main EXCEPT !.at = "wait"]
  /\ UNCHANGED <<world, permits, ctxDone, handler, blockedOn, released, idx, stack, checked>>

\* The loop over results: one iteration, once r.ready is closed.
CompileCollect ==
  /\ main.at = "wait"
  /\ main.idx <= Len(Explicit)
  /\ LET r == result[Explicit[main.idx]] IN
     /\ r \in Settled
     /\ main' = [main EXCEPT !.idx = @ + 1,
                             !.firstError = IF r \in Errors /\ @ = "nil" THEN r ELSE @]
  /\ UNCHANGED <<world, permits, ctxDone, handler, result, blockedOn, taskVars>>

\* h.Error() wins over firstError; the deferred cancel runs on every return.
CompileReturn ==
  /\ main.at = "wait"
  /\ main.idx > Len(Explicit)
  /\ main' = [main EXCEPT !.at = "done",
                !.ret = IF handler.reported THEN "reported"
                        ELSE IF main.firstError # "nil" THEN main.firstError ELSE "ok"]
  /\ ctxDone' = TRUE
  /\ UNCHANGED <<world, permits, handler, result, blockedOn, taskVars>>

CompileCancelled ==
  /\ main.at = "wait"
  /\ main.idx <= Len(Explicit)
  /\ ctxDone
  /\ main' = [main EXCEPT !.at = "done", !.ret = "ctx"]
  /\ UNCHANGED <<world, permits, ctxDone, handler, result, blockedOn, taskVars>>

\* The caller cancels the context it passed to Compile.
Cancel ==
  /\ CanCancel
  /\ ~ctxDone
  /\ ctxDone' = TRUE
  /\ UNCHANGED <<world, permits, handler, result, blockedOn, taskVars, main>>

-----------------------------------------------------------------------------
(* doCompile and asFile, one task per file.                                *)

\* semaphore.Weighted.Acquire: it takes a permit, in whatever order, or
\* returns the error of a context that is done.
Acquire(f) ==
  /\ pc[f] = "acquire"
  /\ permits > 0
  /\ ~ctxDone
  /\ permits' = permits - 1
  /\ pc' = [pc EXCEPT ![f] = "resolve"]
  /\ UNCHANGED <<world, ctxDone, handler, result, blockedOn, released, idx, stack, checked, main>>

\* The first Acquire fails before anything is deferred.
AcquireCancelled(f) ==
  /\ pc[f] = "acquire"
  /\ ctxDone
  /\ result' = [result EXCEPT ![f] = "ctx"]
  /\ pc' = [pc EXCEPT ![f] = "done"]
  /\ UNCHANGED <<world, permits, ctxDone, handler, blockedOn, released, idx, stack, checked, main>>

\* FindFileByPath panics: only release is deferred so far.
ResolvePanic(f) ==
  /\ pc[f] = "resolve"
  /\ world[f].search = "panic"
  /\ pc' = [pc EXCEPT ![f] = "unwind"]
  /\ UNCHANGED <<world, permits, ctxDone, handler, result, blockedOn, released, idx, stack, checked, main>>

\* FindFileByPath fails, or answers with an artifact that asFile returns or
\* refuses without looking at imports.
ResolveEnds(f) ==
  /\ pc[f] = "resolve"
  /\ world[f].search \in {"missing", "mismatch", "standard", "desc"}
  /\ Settle(f, CASE world[f].search = "missing" -> "resolve"
                 [] world[f].search = "mismatch" -> "mismatch"
                 [] OTHER -> "ok")
  /\ UNCHANGED <<world, permits, ctxDone, handler, blockedOn, released, idx, stack, checked, main>>

\* parser.Parse or ResultFromAST reports to the task's handler and fails.
ParseFails(f) ==
  /\ pc[f] = "resolve"
  /\ world[f].search = "badparse"
  /\ \E abort \in BOOLEAN : HandleError(abort)
  /\ Settle(f, "reported")
  /\ UNCHANGED <<world, permits, ctxDone, blockedOn, released, idx, stack, checked, main>>

\* Mutant: the imports are never published.
ParseDoneUnpublished(f) ==
  /\ pc[f] = "resolve"
  /\ world[f].search = "source"
  /\ pc' = [pc EXCEPT ![f] = IF AllImports(f) = <<>> THEN "link" ELSE "import"]
  /\ UNCHANGED <<world, permits, ctxDone, handler, result, blockedOn, released, idx, stack, checked, main>>

\* There is a parse result: publish what the task is about to wait for, or
\* go on to link at once.
ParseDone(f) ==
  /\ pc[f] = "resolve"
  /\ world[f].search = "source"
  /\ blockedOn' = [blockedOn EXCEPT ![f] = AllImports(f)]
  /\ pc' = [pc EXCEPT ![f] = IF AllImports(f) = <<>> THEN "link" ELSE "import"]
  /\ UNCHANGED <<world, permits, ctxDone, handler, result, released, idx, stack, checked, main>>

\* The import loop: a file that imports itself is reported at once.
SelfImport(f) ==
  /\ pc[f] = "import"
  /\ idx[f] <= Len(Imports(f))
  /\ Imports(f)[idx[f]] = f
  /\ \E abort \in BOOLEAN : HandleError(abort)
  /\ Settle(f, "reported")
  /\ UNCHANGED <<world, permits, ctxDone, blockedOn, released, idx, stack, checked, main>>

\* The import loop: start the import's task; the cycle check comes next.
\* The root frame stands for the call with sequence <<name, dep>>.
StartImport(f) ==
  /\ pc[f] = "import"
  /\ idx[f] <= Len(Imports(f))
  /\ LET dep == Imports(f)[idx[f]] IN
     /\ dep # f
     /\ result' = StartedResult({dep})
     /\ pc' = [StartedPc({dep}) EXCEPT ![f] = "check"]
     /\ stack' = [stack EXCEPT ![f] = << [node |-> f, todo |-> <<dep>>] >>]
  /\ UNCHANGED <<world, permits, ctxDone, handler, blockedOn, released, idx, checked, main>>

-----------------------------------------------------------------------------
(* checkForDependencyCycle: a depth-first search over the blockedOn lists  *)
(* of the other tasks, each read under its own lock while they move on.    *)

Top(f) == stack[f][Len(stack[f])]
Sequence(f) == {stack[f][i].node : i \in 1..Len(stack[f])}

\* The calls that return once the top one has nothing left to look at.
Returned(s) ==
  LET open == {i \in 1..Len(s) : s[i].todo # <<>>}
  IN  IF open = {} THEN <<>>
      ELSE SubSeq(s, 1, CHOOSE i \in open : \A j \in open : j <= i)

\* The search goes on with the frames s; when none is left the loop of
\* asFile moves to the next import.
Continue(f, s) ==
  LET rest == Returned(s) IN
  /\ stack' = [stack EXCEPT ![f] = rest]
  /\ idx' = [idx EXCEPT ![f] = IF rest = <<>> THEN @ + 1 ELSE @]
  /\ pc' = [pc EXCEPT ![f] = IF rest = <<>> THEN "import" ELSE "check"]

Next1(f) == Head(Top(f).todo)
Stepped(f) == [stack[f] EXCEPT ![Len(stack[f])].todo = Tail(@)]

\* Mutant: a file visited before is taken for a cycle.
CycleFoundVisited(f) ==
  /\ pc[f] = "check"
  /\ Next1(f) \in Sequence(f) \cup checked[f]
  /\ \E abort \in BOOLEAN : HandleError(abort)
  /\ Settle(f, "reported")
  /\ UNCHANGED <<world, permits, ctxDone, blockedOn, released, idx, stack, checked, main>>

\* dep is in the sequence: the cycle is reported on e.h and the task fails.
CycleFound(f) ==
  /\ pc[f] = "check"
  /\ Next1(f) \in Sequence(f)
  /\ \E abort \in BOOLEAN : HandleError(abort)
  /\ Settle(f, "reported")
  /\ UNCHANGED <<world, permits, ctxDone, blockedOn, released, idx, stack, checked, main>>

\* dep has no result yet, or was visited before.
CycleSkip(f) ==
  /\ pc[f] = "check"
  /\ Next1(f) \notin Sequence(f)
  /\ result[Next1(f)] = "none" \/ Next1(f) \in checked[f]
  /\ Continue(f, Stepped(f))
  /\ UNCHANGED <<world, permits, ctxDone, handler, result, blockedOn, released, checked, main>>

\* The recursive call for dep reads its blockedOn list.
CycleDescend(f) ==
  /\ pc[f] = "check"
  /\ Next1(f) \notin Sequence(f)
  /\ result[Next1(f)] # "none"
  /\ Next1(f) \notin checked[f]
  /\ checked' = [checked EXCEPT ![f] = @ \cup {Next1(f)}]
  /\ Continue(f, Append(Stepped(f), [node |-> Next1(f), todo |-> blockedOn[Next1(f)]]))
  /\ UNCHANGED <<world, permits, ctxDone, handler, result, blockedOn, released, main>>

-----------------------------------------------------------------------------
\* After the loop an overriding descriptor.proto is started too, without a
\* cycle check.
ImportsStarted(f) ==
  /\ pc[f] = "import"
  /\ idx[f] > Len(Imports(f))
  /\ LET wanted == IF WantsDescriptorProto(f) THEN {DescProto} ELSE {} IN
     /\ result' = StartedResult(wanted)
     /\ pc' = [StartedPc(wanted) EXCEPT ![f] = "release"]
  /\ UNCHANGED <<world, permits, ctxDone, handler, blockedOn, released, idx, stack, checked, main>>

\* Mutant: the permit is kept while waiting.
ReleaseToWaitKeepsPermit(f) ==
  /\ pc[f] = "release"
  /\ idx' = [idx EXCEPT ![f] = 1]
  /\ pc' = [pc EXCEPT ![f] = "wait"]
  /\ UNCHANGED <<world, permits, ctxDone, handler, result, blockedOn, released, stack, checked, main>>

\* Give the permit back before waiting for the imports.
ReleaseToWait(f) ==
  /\ pc[f] = "release"
  /\ permits' = permits + 1
  /\ released' = [released EXCEPT ![f] = TRUE]
  /\ idx' = [idx EXCEPT ![f] = 1]
  /\ pc' = [pc EXCEPT ![f] = "wait"]
  /\ UNCHANGED <<world, ctxDone, handler, result, blockedOn, stack, checked, main>>

\* Mutants: the error of an import is dropped; an import is not waited for.
WaitReadyDropsError(f) ==
  /\ pc[f] = "wait"
  /\ idx[f] <= Len(Imports(f))
  /\ result[Imports(f)[idx[f]]] \in Settled
  /\ idx' = [idx EXCEPT ![f] = @ + 1]
  /\ UNCHANGED <<world, permits, ctxDone, handler, result, blockedOn, pc, released, stack, checked, main>>

WaitReadyNoWait(f) ==
  /\ pc[f] = "wait"
  /\ idx[f] <= Len(Imports(f))
  /\ idx' = [idx EXCEPT ![f] = @ + 1]
  /\ UNCHANGED <<world, permits, ctxDone, handler, result, blockedOn, pc, released, stack, checked, main>>

\* One import is ready: take its file, or fail with its error; a failure to
\* resolve becomes an error at the import statement.
WaitReady(f) ==
  /\ pc[f] = "wait"
  /\ idx[f] <= Len(Imports(f))
  /\ LET r == result[Imports(f)[idx[f]]] IN
     /\ r \in Settled
     /\ IF r = "ok"
        THEN idx' = [idx EXCEPT ![f] = @ + 1] /\ UNCHANGED <<result, pc>>
        ELSE Settle(f, IF r = "resolve" THEN "import" ELSE r) /\ UNCHANGED idx
  /\ UNCHANGED <<world, permits, ctxDone, handler, blockedOn, released, stack, checked, main>>

\* Either select of the wait takes its ctx.Done case.
WaitCancelled(f) ==
  /\ pc[f] = "wait"
  /\ idx[f] <= Len(AllImports(f))
  /\ ctxDone
  /\ Settle(f, "ctx")
  /\ UNCHANGED <<world, permits, ctxDone, handler, blockedOn, released, idx, stack, checked, main>>

\* The implicit descriptor.proto is waited for last and its failure is
\* ignored; nothing blocks the task any more.
Unblock(f) ==
  /\ pc[f] = "wait"
  /\ idx[f] > Len(Imports(f))
  /\ WantsDescriptorProto(f) => result[DescProto] \in Settled
  /\ blockedOn' = [blockedOn EXCEPT ![f] = <<>>]
  /\ pc' = [pc EXCEPT ![f] = "reacquire"]
  /\ UNCHANGED <<world, permits, ctxDone, handler, result, released, idx, stack, checked, main>>

Reacquire(f) ==
  /\ pc[f] = "reacquire"
  /\ permits > 0
  /\ ~ctxDone
  /\ permits' = permits - 1
  /\ released' = [released EXCEPT ![f] = FALSE]
  /\ pc' = [pc EXCEPT ![f] = "link"]
  /\ UNCHANGED <<world, ctxDone, handler, result, blockedOn, idx, stack, checked, main>>

ReacquireCancelled(f) ==
  /\ pc[f] = "reacquire"
  /\ ctxDone
  /\ Settle(f, "ctx")
  /\ UNCHANGED <<world, permits, ctxDone, handler, blockedOn, released, idx, stack, checked, main>>

\* task.link: linker.Link, InterpretOptions, ValidateOptions and the rest.
LinkOk(f) ==
  /\ pc[f] = "link"
  /\ world[f].link = "ok"
  /\ Settle(f, "ok")
  /\ UNCHANGED <<world, permits, ctxDone, handler, blockedOn, released, idx, stack, checked, main>>

LinkFails(f) ==
  /\ pc[f] = "link"
  /\ world[f].link = "bad"
  /\ \E abort \in BOOLEAN : HandleError(abort)
  /\ Settle(f, "reported")
  /\ UNCHANGED <<world, permits, ctxDone, blockedOn, released, idx, stack, checked, main>>

LinkPanic(f) ==
  /\ pc[f] = "link"
  /\ world[f].link = "panic"
  /\ pc' = [pc EXCEPT ![f] = "unwind"]
  /\ UNCHANGED <<world, permits, ctxDone, handler, result, blockedOn, released, idx, stack, checked, main>>

\* The deferred Close of the source, if the resolver returned one.
Close(f) ==
  /\ pc[f] = "close"
  /\ pc' = [pc EXCEPT ![f] = IF /\ world[f].search \in {"badparse", "source"}
                                /\ world[f].close = "panic"
                             THEN "unwind" ELSE "exit"]
  /\ UNCHANGED <<world, permits, ctxDone, handler, result, blockedOn, released, idx, stack, checked, main>>

\* Mutant: a permit given back already is released again.
TaskReleaseTwice(f) ==
  /\ pc[f] \in {"exit", "unwind"}
  /\ permits' = permits + 1
  /\ released' = [released EXCEPT ![f] = TRUE]
  /\ pc' = [pc EXCEPT ![f] = IF @ = "unwind" THEN "recover" ELSE "done"]
  /\ UNCHANGED <<world, ctxDone, handler, result, blockedOn, idx, stack, checked, main>>

\* The deferred task.release, on a normal return and while a panic unwinds.
TaskRelease(f) ==
  /\ pc[f] \in {"exit", "unwind"}
  /\ permits' = IF released[f] THEN permits ELSE permits + 1
  /\ released' = [released EXCEPT ![f] = TRUE]
  /\ pc' = [pc EXCEPT ![f] = IF @ = "unwind" THEN "recover" ELSE "done"]
  /\ UNCHANGED <<world, ctxDone, handler, result, blockedOn, idx, stack, checked, main>>

\* Mutant: the recover handler does not look at r.err.
RecoverAlwaysFails(f) ==
  /\ pc[f] = "recover"
  /\ result' = [result EXCEPT ![f] = "panic"]
  /\ pc' = [pc EXCEPT ![f] = IF result[f] \in Settled THEN "crash" ELSE "done"]
  /\ UNCHANGED <<world, permits, ctxDone, handler, blockedOn, released, idx, stack, checked, main>>

\* The goroutine's recover: r.err = nil is taken to mean that the result was
\* not settled; r.fail closes r.ready, which panics if it is closed already.
Recover(f) ==
  /\ pc[f] = "recover"
  /\ result' = [result EXCEPT ![f] = IF @ \in Errors THEN @ ELSE "panic"]
  /\ pc' = [pc EXCEPT ![f] = IF result[f] = "ok" THEN "crash" ELSE "done"]
  /\ UNCHANGED <<world, permits, ctxDone, handler, blockedOn, released, idx, stack, checked, main>>

-----------------------------------------------------------------------------
MainStep == CompileStart \/ CompileCollect \/ CompileReturn \/ CompileCancelled

Task(f) ==
  \/ Acquire(f) \/ AcquireCancelled(f)
  \/ ResolvePanic(f) \/ ResolveEnds(f) \/ ParseFails(f) \/ ParseDone(f)
  \/ SelfImport(f) \/ StartImport(f)
  \/ CycleFound(f) \/ CycleSkip(f) \/ CycleDescend(f)
  \/ ImportsStarted(f) \/ ReleaseToWait(f)
  \/ WaitReady(f) \/ WaitCancelled(f) \/ Unblock(f)
  \/ Reacquire(f) \/ ReacquireCancelled(f)
  \/ LinkOk(f) \/ LinkFails(f) \/ LinkPanic(f)
  \/ Close(f) \/ TaskRelease(f) \/ Recover(f)

\* Compile has returned and every goroutine it started has ended.
Finished ==
  /\ main.at = "done"
  /\ \A f \in Files : pc[f] \in {"none", "done"}
  /\ UNCHANGED vars

Next == MainStep \/ Cancel \/ (\E f \in Files : Task(f)) \/ Finished

Spec == Init /\ [][Next]_vars

\* The Go scheduler runs every goroutine that can run.  A task acquires the
\* semaphore at most twice, so weak fairness is enough for its waiters.
Fairness == WF_vars(MainStep) /\ \A f \in Files : WF_vars(Task(f))

FairSpec == Spec /\ Fairness

-----------------------------------------------------------------------------
(* Properties.                                                             *)

\* No permit is lost and none is released twice: the free permits and the
\* tasks between an Acquire and its Release add up to MaxParallelism.
PermitsConserved == permits + Cardinality(Holders) = Par

\* A task resolves, parses, starts imports and links only while it holds a
\* permit, so at most Par tasks do so at a time.
WorkersHoldPermits == \A f \in Files : pc[f] \in Working => Holding(f)

\* A file is complete only when each of its imports is.
CompleteAreClosed ==
  \A f \in Files :
    result[f] = "ok" /\ world[f].search = "source" =>
      \A d \in Names(Imports(f)) : result[d] = "ok"

\* What linking a file needs: the files it imports.
Edges(f) == IF world[f].search = "source" THEN Names(Imports(f)) ELSE {}

\* The file is on an import cycle or leads to one: there is a way to follow
\* imports from it that never ends.
LeadsToCycle(f) ==
  \E S \in SUBSET Files : f \in S /\ \A g \in S : Edges(g) \cap S # {}

\* No file that is on an import cycle, or that leads to one, is ever
\* complete, however the tasks of the cycle interleave: the last of them to
\* call setBlockedOn sees the others' lists.
CyclesNeverComplete == \A f \in Files : result[f] = "ok" => ~LeadsToCycle(f)

\* A file that cannot be compiled by itself.
Defective(f) ==
  \/ world[f].search \in {"missing", "panic", "mismatch", "badparse"}
  \/ world[f].search = "source" /\ world[f].link # "ok"

\* f or a file that it imports, directly or not, is defective: every set of
\* files that has f and the imports of its members has such a file.
NeedsDefective(f) ==
  \A S \in SUBSET Files :
    f \in S /\ (\A g \in S : Edges(g) \subseteq S) => \E g \in S : Defective(g)

\* A failure always has a cause in the file or in what it imports: no task
\* fails because of how it was scheduled, unless the context is cancelled.
FailuresHaveCause ==
  ctxDone \/ \A f \in Files :
    result[f] \in Errors => LeadsToCycle(f) \/ NeedsDefective(f)

\* The file whose readiness a waiting task is blocked on.
Awaits(f) == AllImports(f)[idx[f]]
Waiting(f) == pc[f] = "wait" /\ idx[f] <= Len(AllImports(f)) /\ result[Awaits(f)] = "pending"

\* compiler.go checks for dependency cycles "to prevent deadlock": there is
\* never a set of tasks each of which waits for another one of the set.
NoCircularWait ==
  \A S \in (SUBSET Files) \ {{}} : \E f \in S : ~(Waiting(f) /\ Awaits(f) \in S)

\* A panic of a task ends in its result or nowhere; it never ends the program
\* by closing a ready channel a second time.
NoCrash == \A f \in Files : pc[f] # "crash"

\* No source the Resolver returns panics when it is closed.
CleanClose == \A w \in Worlds : \A f \in Files : w[f].close = "ok"

\* No file tree overrides descriptor.proto.
NoOverride == \A w \in Worlds : w[DescProto].search \in {"missing", "panic", "standard"}

\* A settled result never changes: those who saw ready closed and those who
\* look later read the same file or error.
SettledForever == [][\A f \in Files : result[f] \in Settled => result'[f] = result[f]]_vars

\* Compile returns and every task started ends, also those Compile did not
\* wait for: nobody waits for a permit or for an import for ever.
CompilationEnds ==
  /\ <>(main.at = "done")
  /\ \A f \in Files : pc[f] = "acquire" ~> pc[f] = "done"
=============================================================================
