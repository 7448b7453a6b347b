------------------------------ MODULE Incremental ------------------------------
(***************************************************************************)
(* The incremental query executor (experimental/incremental): Run, Resolve,*)
(* the memoising task.run with its leader election, waitUntilDone and      *)
(* checkCycle, the global semaphore, cancellation, panics and eviction.    *)
(*                                                                         *)
(* A process is a call of task.run: the path <<run, i, j, ...>> is the     *)
(* call made for the j-th query of the Resolve of the call <<run, i>>, and *)
(* <<run>> is the root Task of a Run.  The record of a call holds the Task *)
(* it becomes when it leads (holding, the Resolve it is in) and the result *)
(* it creates (done, fatal, val).  A task object is <<key, n>>: the n-th   *)
(* task made for that key, eviction making room for the next one.          *)
(***************************************************************************)
EXTENDS Integers, Sequences, FiniteSets

CONSTANTS Queries,   \* the keys
          Programs,  \* what Query.Execute does, see Program
          Asked,     \* Asked[r]: the queries passed to the r-th call of Run
          Par,       \* WithParallelism
          CanCancel, \* whether the caller of Run may cancel its context
          Evictions, \* the sets of keys that are passed to EvictWithCleanup
          MaxEvicts  \* bound: calls of EvictWithCleanup

Runs == 1..Len(Asked)

\* deps: what Execute resolves, in one call of Resolve.  panics: the queries
\* whose Execute may panic.
Program == [deps : [Queries -> Seq(Queries)], panics : SUBSET Queries]

ASSUME QueriesAssumption == IsFiniteSet(Queries)
ASSUME ParAssumption == Par \in Nat \ {0}
ASSUME AskedAssumption == Asked \in Seq(Seq(Queries))
ASSUME ProgramsAssumption == Programs \subseteq Program
ASSUME EvictAssumption ==
  CanCancel \in BOOLEAN /\ Evictions \subseteq SUBSET Queries /\ MaxEvicts \in Nat

Obj == Queries \X (1..MaxEvicts + 1)
Nil == <<>>   \* the nil *result, and the nil *task of a root

VARIABLES
  program,
  permits,   \* free weight of Executor.sema
  cause,     \* cause[r]: context.Cause of the r-th Run
  readers,   \* the Runs that hold Executor.dirty for reading
  evict,     \* the state of EvictWithCleanup
  tasks,     \* Executor.tasks: the number of the key's task, 0 if it has none
  made,      \* tasks made for the key so far
  version,   \* what each query reads: changed by the cleanup function
  result,    \* task.result: the call that made the result, or Nil
  deps,      \* task.deps
  callers,   \* task.callers
  call       \* the calls of task.run and the roots

vars == <<program, permits, cause, readers, evict, tasks, made, version, result,
          deps, callers, call>>

Caller(c) == SubSeq(c, 1, Len(c) - 1)
RunOf(c) == c[1]
IsRoot(c) == Len(c) = 1
Cancelled(c) == cause[RunOf(c)] # "nil"
Done(r) == r # Nil /\ call[r].done
Wanted(c) == IF IsRoot(c) THEN Asked[c[1]] ELSE program.deps[call[c].obj[1]]

\* A call that has just been made, for a task object.
Fresh(o, async, pc) ==
  [obj |-> o, async |-> async, pc |-> pc, holding |-> FALSE, panicking |-> FALSE,
   idx |-> 1, todo |-> <<>>, got |-> <<>>, joined |-> 0, needWait |-> FALSE,
   ret |-> Nil, queue |-> <<>>, seen |-> {},
   done |-> FALSE, fatal |-> "nil", val |-> {}]

Init ==
  /\ program \in Programs
  /\ permits = Par
  /\ cause = [r \in Runs |-> "nil"]
  /\ readers = {}
  /\ evict = [at |-> "idle", keys |-> {}, found |-> {}, count |-> 0]
  /\ tasks = [q \in Queries |-> 0] /\ made = [q \in Queries |-> 0]
  /\ version = [q \in Queries |-> 0]
  /\ result = [o \in Obj |-> Nil]
  /\ deps = [o \in Obj |-> {}] /\ callers = [o \in Obj |-> {}]
  /\ call = [c \in {<<r>> : r \in Runs} |-> Fresh(Nil, FALSE, "idle")]

NoAnswer == [fatal |-> "nil", val |-> {}]

Goto(c, pc) == call' = [call EXCEPT ![c] = [@ EXCEPT !.pc = pc]]

-----------------------------------------------------------------------------
(* The semaphore: acquire, release and transferFrom of Task.               *)

\* abort records its error as the cause of a context that has none yet.
AbortIf(c, bad) == [cause EXCEPT ![RunOf(c)] = IF bad /\ @ = "nil" THEN "abort" ELSE @]

\* Acquire succeeds only while the context lives, and fails only after it; it
\* aborts when the Task has a hold already.
Acquires(c) ==
  /\ ~Cancelled(c) /\ permits > 0
  /\ permits' = permits - 1
  /\ cause' = AbortIf(c, call[c].holding)
AcquireFails(c) == Cancelled(c) /\ UNCHANGED <<permits, cause>>

\* The weight that a Task has to give back.
Hold(c) == IF call[c].holding THEN 1 ELSE 0

\* release: without a hold it is a no-op after a cancellation, and aborts before.
Releases(c) ==
  /\ permits' = permits + Hold(c)
  /\ cause' = AbortIf(c, ~call[c].holding)

-----------------------------------------------------------------------------
(* Run.                                                                    *)

\* dirty.RLock, which waits for a writer that is already waiting.
RunStart(r) ==
  /\ call[<<r>>].pc = "idle" /\ evict.at # "lock"
  /\ readers' = readers \cup {r}
  /\ Goto(<<r>>, "rootAcquire")
  /\ UNCHANGED <<program, permits, cause, evict, tasks, made, version, result, deps, callers>>

RootAcquire(r) ==
  /\ call[<<r>>].pc = "rootAcquire" /\ Acquires(<<r>>)
  /\ call' = [call EXCEPT ![<<r>>] = [@ EXCEPT !.pc = "register", !.holding = TRUE]]
  /\ UNCHANGED <<program, readers, evict, tasks, made, version, result, deps, callers>>

RootAcquireFails(r) ==
  /\ call[<<r>>].pc = "rootAcquire" /\ AcquireFails(<<r>>)
  /\ call' = [call EXCEPT ![<<r>>] = [@ EXCEPT !.pc = "gone", !.fatal = "ctx"]]
  /\ readers' = readers \ {r}
  /\ UNCHANGED <<program, evict, tasks, made, version, result, deps, callers>>

\* The objects reached from S along edges, by rounds.
Reach(S, edges) ==
  LET Grown[n \in Nat, T \in SUBSET DOMAIN edges] ==
        LET U == T \cup UNION {edges[o] : o \in T}
        IN  IF n = 0 \/ U = T THEN T ELSE Grown[n - 1, U]
  IN  Grown[Cardinality(DOMAIN edges), S]

Current(keys) == {<<q, tasks[q]>> : q \in {k \in keys : tasks[k] # 0}}

Requested(r) == {Asked[r][i] : i \in DOMAIN Asked[r]}

\* Mutant: only the tasks of the queries themselves.
CollectedShallow(r) == Current(Requested(r))

\* The tasks whose diagnostics Run collects.
Collected(r) == Reach(Current(Requested(r)), deps)

\* The return of Run: an error if the context has expired, otherwise the
\* results and the diagnostics of every task reached from the queries; the
\* deferred calls release the hold, cancel the context and unlock.
RunReturn(r) ==
  /\ call[<<r>>].pc = "resolved"
  /\ call' = [call EXCEPT ![<<r>>] = [@ EXCEPT !.pc = "gone", !.holding = FALSE,
                                               !.fatal = IF Cancelled(<<r>>) THEN "ctx" ELSE "nil",
                                               !.seen = IF Cancelled(<<r>>) THEN {} ELSE Collected(r)]]
  /\ permits' = permits + Hold(<<r>>)
  /\ cause' = [cause EXCEPT ![r] = IF @ # "nil" THEN @ ELSE IF call[<<r>>].holding THEN "cancel" ELSE "abort"]
  /\ readers' = readers \ {r}
  /\ UNCHANGED <<program, evict, tasks, made, version, result, deps, callers>>

\* The caller of Run cancels the context it passed.
Cancel(r) ==
  /\ CanCancel /\ call[<<r>>].pc \notin {"idle", "gone"} /\ cause[r] = "nil"
  /\ cause' = [cause EXCEPT ![r] = "cancel"]
  /\ UNCHANGED <<program, permits, readers, evict, tasks, made, version, result, deps, callers, call>>

-----------------------------------------------------------------------------
(* Resolve.                                                                *)

\* getOrCreateTask: the task of the key, a new one if it has none.
TaskOf(q) == <<q, IF tasks[q] = 0 THEN made[q] + 1 ELSE tasks[q]>>

\* The edges both ways between a Task and what it resolves: a root has none.
Linked(c, o) ==
  /\ deps' = IF IsRoot(c) THEN deps ELSE [deps EXCEPT ![call[c].obj] = @ \cup {o}]
  /\ callers' = IF IsRoot(c) THEN callers ELSE [callers EXCEPT ![o] = @ \cup {call[c].obj}]

\* A call with one more task to resolve.
Asks(k, o) ==
  [k EXCEPT !.todo = Append(@, o), !.idx = @ + 1, !.got = Append(@, NoAnswer)]

\* One round of the first loop.
Register(c) ==
  /\ call[c].pc = "register" /\ call[c].idx <= Len(Wanted(c))
  /\ LET o == TaskOf(Wanted(c)[call[c].idx])
     IN  /\ tasks' = [tasks EXCEPT ![o[1]] = o[2]]
         /\ made' = [made EXCEPT ![o[1]] = IF o[2] > @ THEN o[2] ELSE @]
         /\ Linked(c, o)
         /\ call' = [call EXCEPT ![c] = Asks(@, o)]
  /\ UNCHANGED <<program, permits, cause, readers, evict, version, result>>

\* The end of the first loop: the second one starts at the last query.  No
\* queries: Resolve returns at once.
Registered(c) ==
  /\ call[c].pc = "register" /\ call[c].idx > Len(Wanted(c))
  /\ call' = [call EXCEPT ![c] = [@ EXCEPT !.pc = IF Wanted(c) = <<>> THEN "resolved" ELSE "start",
                                           !.idx = Len(Wanted(c))]]
  /\ UNCHANGED <<program, permits, cause, readers, evict, tasks, made, version, result, deps, callers>>

\* Where the loop over slices.Backward(deps) goes after query i.
AfterStart(i, needWait) == IF i > 1 THEN "start" ELSE IF needWait THEN "release" ELSE "resolved"

\* done(r): what the caller learns of a result at this moment.
Answer(r) ==
  IF r = Nil THEN NoAnswer
  ELSE [fatal |-> call[r].fatal, val |-> call[r].val]

\* start, for a result that is complete: the cached value is used at once.
StartCached(c) ==
  /\ call[c].pc = "start"
  /\ LET i == call[c].idx
         r == result[call[c].todo[i]]
     IN  /\ Done(r)
         /\ call' = [call EXCEPT ![c] = [@ EXCEPT !.got[i] = Answer(r), !.joined = @ + 1,
                                                  !.idx = i - 1,
                                                  !.pc = AfterStart(i, call[c].needWait)]]
  /\ UNCHANGED <<program, permits, cause, readers, evict, tasks, made, version, result, deps, callers>>

\* start, for any other: the zeroth query is run by this goroutine, the
\* others by goroutines of their own.
StartRun(c) ==
  /\ call[c].pc = "start"
  /\ LET i == call[c].idx
         o == call[c].todo[i]
     IN  /\ ~Done(result[o])
         /\ call' = [d \in DOMAIN call \cup {Append(c, i)} |->
                       IF d = c THEN [call[c] EXCEPT !.idx = i - 1,
                                                     !.pc = IF i = 1 THEN "sync" ELSE "start",
                                                     !.needWait = @ \/ i # 1]
                       ELSE IF d = Append(c, i) THEN Fresh(o, i # 1, "load")
                       ELSE call[d]]
  /\ UNCHANGED <<program, permits, cause, readers, evict, tasks, made, version, result, deps, callers>>

\* A caller with the answer to its i-th query.
Learns(k, i, a, pc) == [k EXCEPT !.got[i] = a, !.joined = @ + 1, !.pc = pc]

\* done at the end of a call: the caller gets its answer, unless it has left
\* its Resolve, and goes on if it ran the call itself.
Deliver(c) ==
  /\ call[c].pc = "deliver"
  /\ LET p == Caller(c)
         i == c[Len(c)]
         r == call[c].ret
         gone == [call EXCEPT ![c] = [@ EXCEPT !.pc = "gone", !.ret = Nil]]
         pc == IF call[c].async THEN call[p].pc ELSE AfterStart(1, call[p].needWait)
     IN  IF call[p].pc \in {"start", "sync", "release", "join"}
         THEN call' = [gone EXCEPT ![p] = Learns(@, i, Answer(r), pc)]
         ELSE call' = gone
  /\ UNCHANGED <<program, permits, cause, readers, evict, tasks, made, version, result, deps, callers>>

\* Some query runs elsewhere: give the hold back before sleeping.
ReleaseToJoin(c) ==
  /\ call[c].pc = "release"
  /\ Releases(c)
  /\ call' = [call EXCEPT ![c] = [@ EXCEPT !.pc = "join", !.holding = FALSE]]
  /\ UNCHANGED <<program, readers, evict, tasks, made, version, result, deps, callers>>

\* Every query has called done.
Joined(c) ==
  /\ call[c].pc = "join" /\ ~Cancelled(c) /\ call[c].joined = Len(Wanted(c))
  /\ Goto(c, "rejoin")
  /\ UNCHANGED <<program, permits, cause, readers, evict, tasks, made, version, result, deps, callers>>

\* Both waits end with the cause of the context when it expires.
JoinCancelled(c) ==
  /\ call[c].pc \in {"join", "rejoin"} /\ AcquireFails(c)
  /\ Goto(c, "resolved")
  /\ UNCHANGED <<program, readers, evict, tasks, made, version, result, deps, callers>>

Rejoin(c) ==
  /\ call[c].pc = "rejoin" /\ Acquires(c)
  /\ call' = [call EXCEPT ![c] = [@ EXCEPT !.pc = "resolved", !.holding = TRUE]]
  /\ UNCHANGED <<program, readers, evict, tasks, made, version, result, deps, callers>>

-----------------------------------------------------------------------------
(* task.run: one leader computes the result, the others wait for it.       *)

\* The first look at the result.
Load(c) ==
  /\ call[c].pc = "load"
  /\ LET r == result[call[c].obj]
     IN  call' = [call EXCEPT ![c] = [@ EXCEPT !.ret = r,
                                               !.pc = IF r = Nil THEN "cas"
                                                      ELSE IF Done(r) THEN "deliver" ELSE "check",
                                               !.queue = IF r = Nil \/ Done(r) THEN <<>> ELSE <<call[c].obj>>]]
  /\ UNCHANGED <<program, permits, cause, readers, evict, tasks, made, version, result, deps, callers>>

\* Mutant: a plain store in place of CompareAndSwap.
CanLeadAlways(c) == TRUE

\* What CompareAndSwap compares.
CanLead(c) == result[call[c].obj] = Nil

\* CompareAndSwap makes this call the leader, with the hold of its caller if
\* it runs on its goroutine.
Lead(c) ==
  /\ call[c].pc = "cas" /\ CanLead(c)
  /\ result' = [result EXCEPT ![call[c].obj] = c]
  /\ IF call[c].async
     THEN UNCHANGED cause /\ call' = [call EXCEPT ![c] = [@ EXCEPT !.pc = "lead", !.ret = c]]
     ELSE /\ cause' = AbortIf(c, ~call[Caller(c)].holding)
          /\ call' = [call EXCEPT ![c] = [@ EXCEPT !.pc = "execute", !.ret = c,
                                                   !.holding = call[Caller(c)].holding],
                                  ![Caller(c)] = [@ EXCEPT !.holding = FALSE]]
  /\ UNCHANGED <<program, permits, readers, evict, tasks, made, version, deps, callers>>

LoseLead(c) ==
  /\ call[c].pc = "cas" /\ ~CanLead(c)
  /\ Goto(c, "lost")
  /\ UNCHANGED <<program, permits, cause, readers, evict, tasks, made, version, result, deps, callers>>

\* The load after a failed CompareAndSwap: nil when that leader panicked.
LoadLeader(c) ==
  /\ call[c].pc = "lost"
  /\ LET r == result[call[c].obj]
     IN  call' = [call EXCEPT ![c] = [@ EXCEPT !.ret = r,
                                               !.pc = IF r = Nil THEN "deliver" ELSE "check",
                                               !.queue = IF r = Nil THEN <<>> ELSE <<call[c].obj>>]]
  /\ UNCHANGED <<program, permits, cause, readers, evict, tasks, made, version, result, deps, callers>>

LeadAcquire(c) ==
  /\ call[c].pc = "lead" /\ Acquires(c)
  /\ call' = [call EXCEPT ![c] = [@ EXCEPT !.pc = "execute", !.holding = TRUE]]
  /\ UNCHANGED <<program, readers, evict, tasks, made, version, result, deps, callers>>

\* The leader cannot get a hold: run returns nil, through the deferred
\* function, which neither recovers a panic nor has an output to complete.
LeadAcquireFails(c) ==
  /\ call[c].pc = "lead" /\ AcquireFails(c)
  /\ call' = [call EXCEPT ![c] = [@ EXCEPT !.pc = "settle", !.ret = Nil]]
  /\ UNCHANGED <<program, readers, evict, tasks, made, version, result, deps, callers>>

\* Execute reads what it depends on outside of the executor, then resolves.
Execute(c) ==
  /\ call[c].pc = "execute"
  /\ LET q == call[c].obj[1]
     IN  call' = [call EXCEPT ![c] = [@ EXCEPT !.pc = "register", !.val = {<<q, version[q]>>}]]
  /\ UNCHANGED <<program, permits, cause, readers, evict, tasks, made, version, result, deps, callers>>

\* Execute returns: the cause of the context, the fatal error of a dependency,
\* or a value made of those of the dependencies.
ExecuteReturn(c) ==
  /\ call[c].pc = "resolved" /\ ~IsRoot(c)
  /\ LET got == {call[c].got[i] : i \in DOMAIN call[c].got}
         failed == \E g \in got : g.fatal # "nil"
     IN  call' = [call EXCEPT ![c] = [@ EXCEPT !.pc = "unwind",
                                               !.fatal = IF Cancelled(c) THEN "ctx"
                                                         ELSE IF failed THEN "dep" ELSE "nil",
                                               !.val = @ \cup UNION {g.val : g \in got},
                                               !.todo = <<>>, !.got = <<>>, !.joined = 0]]
  /\ UNCHANGED <<program, permits, cause, readers, evict, tasks, made, version, result, deps, callers>>

ExecutePanic(c) ==
  /\ call[c].pc \in {"execute", "resolved"} /\ ~IsRoot(c) /\ call[c].obj[1] \in program.panics
  /\ call' = [call EXCEPT ![c] = [@ EXCEPT !.pc = "unwind", !.panicking = TRUE, !.todo = <<>>,
                                           !.got = <<>>, !.joined = 0]]
  /\ UNCHANGED <<program, permits, cause, readers, evict, tasks, made, version, result, deps, callers>>

\* The deferred release of a leader that runs on its own goroutine.
UnwindAsync(c) ==
  /\ call[c].pc = "unwind" /\ call[c].async
  /\ Releases(c)
  /\ call' = [call EXCEPT ![c] = [@ EXCEPT !.pc = "settle", !.holding = FALSE]]
  /\ UNCHANGED <<program, readers, evict, tasks, made, version, result, deps, callers>>

\* Mutant: the callee still believes that it holds.
UnwindSyncKeepsHold(c) ==
  /\ call[c].pc = "unwind" /\ ~call[c].async
  /\ cause' = AbortIf(c, ~call[c].holding)
  /\ call' = [call EXCEPT ![c] = [@ EXCEPT !.pc = "settle", !.panicking = @ \/ ~call[c].holding],
                          ![Caller(c)] = [@ EXCEPT !.holding = call[c].holding]]
  /\ UNCHANGED <<program, permits, readers, evict, tasks, made, version, result, deps, callers>>

\* The deferred transfer of the hold back to the caller: without one to give
\* back, transferFrom panics.
UnwindSync(c) ==
  /\ call[c].pc = "unwind" /\ ~call[c].async
  /\ cause' = AbortIf(c, ~call[c].holding)
  /\ call' = [call EXCEPT ![c] = [@ EXCEPT !.pc = "settle", !.holding = FALSE,
                                           !.panicking = @ \/ ~call[c].holding],
                          ![Caller(c)] = [@ EXCEPT !.holding = call[c].holding]]
  /\ UNCHANGED <<program, permits, readers, evict, tasks, made, version, result, deps, callers>>

\* The deferred function: a panic, or an abort, takes the result back; a
\* panic cancels the Run; otherwise the result is complete.
Settle(c) ==
  /\ call[c].pc = "settle"
  /\ LET drop == call[c].panicking \/ cause[RunOf(c)] = "abort"
         o == call[c].obj
     IN  /\ result' = [result EXCEPT ![o] = IF drop /\ @ = c THEN Nil ELSE @]
         /\ cause' = [cause EXCEPT ![RunOf(c)] = IF call[c].panicking /\ @ = "nil" THEN "panic" ELSE @]
         /\ call' = [call EXCEPT ![c] = [@ EXCEPT !.pc = "deliver",
                                                  !.ret = IF drop THEN Nil ELSE @,
                                                  !.done = ~drop /\ call[c].ret # Nil]]
  /\ UNCHANGED <<program, permits, readers, evict, tasks, made, version, deps, callers>>

-----------------------------------------------------------------------------
(* waitUntilDone.                                                          *)

Own(c) == call[Caller(c)].obj

\* Mutant: the cycle ends the wait without an error.
CycleFoundSilent(c) ==
  /\ call[c].pc = "check" /\ call[c].queue # <<>> /\ Head(call[c].queue) = Own(c)
  /\ call' = [call EXCEPT ![c] = [@ EXCEPT !.pc = "deliver", !.queue = <<>>, !.seen = {}]]
  /\ UNCHANGED <<program, permits, cause, readers, evict, tasks, made, version, result, deps, callers>>

\* checkCycle meets the task of the caller: the result, which another call is
\* computing, gets the error and is the answer.
CycleFound(c) ==
  /\ call[c].pc = "check" /\ call[c].queue # <<>> /\ Head(call[c].queue) = Own(c)
  /\ LET failed == [call EXCEPT ![call[c].ret] = [@ EXCEPT !.fatal = "cycle"]]
     IN  call' = [failed EXCEPT ![c] = [@ EXCEPT !.pc = "deliver", !.queue = <<>>, !.seen = {}]]
  /\ UNCHANGED <<program, permits, cause, readers, evict, tasks, made, version, result, deps, callers>>

\* The elements of a set in some order, as the dependencies of a task.
Listed(S) == CHOOSE s \in [1..Cardinality(S) -> S] : {s[i] : i \in DOMAIN s} = S

\* One round of the search: the dependencies not seen before join the queue.
CycleVisit(c) ==
  /\ call[c].pc = "check" /\ call[c].queue # <<>> /\ Head(call[c].queue) # Own(c)
  /\ LET new == deps[Head(call[c].queue)] \ call[c].seen
     IN  call' = [call EXCEPT ![c] = [@ EXCEPT !.queue = Tail(@) \o Listed(new),
                                               !.seen = @ \cup new]]
  /\ UNCHANGED <<program, permits, cause, readers, evict, tasks, made, version, result, deps, callers>>

\* Mutant: sleeps with the hold of the caller.
NoCycleKeepsHold(c) ==
  /\ call[c].pc = "check" /\ call[c].queue = <<>>
  /\ call' = [call EXCEPT ![c] = [@ EXCEPT !.pc = "wait", !.seen = {}]]
  /\ UNCHANGED <<program, permits, cause, readers, evict, tasks, made, version, result, deps, callers>>

\* Mutant: gives the hold of the caller back on whichever goroutine.
NoCycleAlwaysReleases(c) ==
  /\ call[c].pc = "check" /\ call[c].queue = <<>>
  /\ Releases(Caller(c))
  /\ call' = [call EXCEPT ![c] = [@ EXCEPT !.pc = "wait", !.seen = {}],
                          ![Caller(c)] = [@ EXCEPT !.holding = FALSE]]
  /\ UNCHANGED <<program, readers, evict, tasks, made, version, result, deps, callers>>

\* No cycle: a call on its caller's goroutine gives the caller's hold back
\* before it sleeps.
NoCycle(c) ==
  /\ call[c].pc = "check" /\ call[c].queue = <<>>
  /\ IF call[c].async
     THEN /\ UNCHANGED <<permits, cause>>
          /\ call' = [call EXCEPT ![c] = [@ EXCEPT !.pc = "wait", !.seen = {}]]
     ELSE /\ Releases(Caller(c))
          /\ call' = [call EXCEPT ![c] = [@ EXCEPT !.pc = "wait", !.seen = {}],
                                  ![Caller(c)] = [@ EXCEPT !.holding = FALSE]]
  /\ UNCHANGED <<program, readers, evict, tasks, made, version, result, deps, callers>>

WaitOver(c) ==
  /\ call[c].pc = "wait" /\ (call[call[c].ret].done \/ Cancelled(c))
  /\ Goto(c, IF call[c].async THEN "reload" ELSE "reacquire")
  /\ UNCHANGED <<program, permits, cause, readers, evict, tasks, made, version, result, deps, callers>>

Reacquire(c) ==
  /\ call[c].pc = "reacquire" /\ Acquires(Caller(c))
  /\ call' = [call EXCEPT ![c] = [@ EXCEPT !.pc = "reload"],
                          ![Caller(c)] = [@ EXCEPT !.holding = TRUE]]
  /\ UNCHANGED <<program, readers, evict, tasks, made, version, result, deps, callers>>

ReacquireFails(c) ==
  /\ call[c].pc = "reacquire" /\ AcquireFails(c)
  /\ call' = [call EXCEPT ![c] = [@ EXCEPT !.pc = "deliver", !.ret = Nil]]
  /\ UNCHANGED <<program, readers, evict, tasks, made, version, result, deps, callers>>

Reload(c) ==
  /\ call[c].pc = "reload"
  /\ call' = [call EXCEPT ![c] = [@ EXCEPT !.pc = "deliver", !.ret = result[call[c].obj]]]
  /\ UNCHANGED <<program, permits, cause, readers, evict, tasks, made, version, result, deps, callers>>

-----------------------------------------------------------------------------
(* EvictWithCleanup: the tasks are looked up before the lock is taken.     *)

EvictLookup ==
  /\ evict.at = "idle" /\ evict.count < MaxEvicts
  /\ \E K \in Evictions : evict' = [evict EXCEPT !.at = "found", !.keys = K, !.found = Current(K), !.count = @ + 1]
  /\ UNCHANGED <<program, permits, cause, readers, tasks, made, version, result, deps, callers, call>>

EvictLock ==
  /\ evict.at = "found"
  /\ evict' = [evict EXCEPT !.at = "lock"]
  /\ UNCHANGED <<program, permits, cause, readers, tasks, made, version, result, deps, callers, call>>

\* Mutant: the callers stay.
EvictedDirect == evict.found

\* The tasks to evict: those found and, transitively, their callers.
Evicted == Reach(evict.found, callers)

\* Under the lock: the tasks found and, transitively, their callers leave the
\* map, by key, and the callers of their dependencies; then cleanup changes
\* what the evicted queries read.
EvictTasks ==
  /\ evict.at = "lock" /\ readers = {}
  /\ tasks' = [q \in Queries |-> IF \E o \in Evicted : o[1] = q THEN 0 ELSE tasks[q]]
  /\ callers' = [o \in Obj |-> callers[o] \ {g \in Evicted : o \in deps[g]}]
  /\ version' = [q \in Queries |-> version[q] + (IF q \in evict.keys THEN 1 ELSE 0)]
  /\ evict' = [evict EXCEPT !.at = "idle", !.keys = {}, !.found = {}]
  /\ UNCHANGED <<program, permits, cause, readers, made, result, deps, call>>

-----------------------------------------------------------------------------
RootStep(r) == RunStart(r) \/ RootAcquire(r) \/ RootAcquireFails(r) \/ RunReturn(r)

ResolveStep(c) ==
  \/ Register(c) \/ Registered(c) \/ StartCached(c) \/ StartRun(c)
  \/ ReleaseToJoin(c) \/ Joined(c) \/ JoinCancelled(c) \/ Rejoin(c)

CallStep(c) ==
  \/ Load(c) \/ Lead(c) \/ LoseLead(c) \/ LoadLeader(c) \/ LeadAcquire(c) \/ LeadAcquireFails(c)
  \/ Execute(c) \/ ExecuteReturn(c) \/ ExecutePanic(c) \/ UnwindAsync(c) \/ UnwindSync(c) \/ Settle(c)
  \/ CycleFound(c) \/ CycleVisit(c) \/ NoCycle(c) \/ WaitOver(c) \/ Reacquire(c) \/ ReacquireFails(c)
  \/ Reload(c) \/ Deliver(c)

Step ==
  \/ \E r \in Runs : RootStep(r)
  \/ \E c \in DOMAIN call : ResolveStep(c) \/ CallStep(c)
  \/ EvictLock \/ EvictTasks

Finished == \A r \in Runs : call[<<r>>].pc = "gone"

Next ==
  \/ Step
  \/ EvictLookup
  \/ \E r \in Runs : Cancel(r)
  \/ Finished /\ UNCHANGED vars

Spec == Init /\ [][Next]_vars

\* Every goroutine keeps running, and an eviction that has begun ends.
FairSpec == Spec /\ WF_vars(Step)

-----------------------------------------------------------------------------
(* Properties.                                                             *)

Pcs == {"idle", "rootAcquire", "register", "start", "sync", "release", "join", "rejoin", "resolved",
        "load", "cas", "lost", "lead", "execute", "unwind", "settle", "check", "wait", "reacquire",
        "reload", "deliver", "gone"}

\* Every variable of the executor keeps its type: the map only names tasks
\* that were made, and edges only join tasks.
TypeOK ==
  /\ permits \in 0..Par
  /\ cause \in [Runs -> {"nil", "cancel", "panic", "abort"}]
  /\ readers \subseteq Runs
  /\ \A q \in Queries : tasks[q] \in 0..made[q] /\ made[q] \in 0..MaxEvicts + 1
  /\ result \in [Obj -> DOMAIN call \cup {Nil}]
  /\ deps \in [Obj -> SUBSET Obj] /\ callers \in [Obj -> SUBSET Obj]
  /\ \A c \in DOMAIN call :
       /\ call[c].pc \in Pcs /\ call[c].obj \in Obj \cup {Nil}
       /\ call[c].ret \in DOMAIN call \cup {Nil}
       /\ call[c].fatal \in {"nil", "ctx", "dep", "cycle"}

Holders == {c \in DOMAIN call : call[c].holding}

\* A hold on the semaphore is neither lost nor made up: the Tasks that hold
\* one and the free weight add up to the parallelism, through release, the
\* transfers between caller and callee, panics and cancellation.
PermitsConserved == permits + Cardinality(Holders) = Par

\* "internal error: this is a bug in protocompile": no Task acquires a hold
\* that it has, or gives back or passes on one that it has not, in any
\* interleaving of its Resolve, its callees, panics and cancellation.
NeverAborts == \A r \in Runs : cause[r] # "abort"

\* Only one result is ever completed for a task: the queries of all Runs that
\* ask for it get that one.
MemoizedOnce ==
  \A c, d \in DOMAIN call :
    call[c].obj = call[d].obj /\ call[c].done /\ call[d].done => c = d

EdgesOf(p) == [q \in Queries |-> {p.deps[q][i] : i \in DOMAIN p.deps[q]}]
OnCycle(q) == q \in Reach(EdgesOf(program)[q], EdgesOf(program))
Below(q) == Reach({q}, EdgesOf(program))

\* Without panics and cancellation, and with queries that pass fatal errors
\* on, a complete result is fatal exactly when the query depends on a cycle:
\* whichever goroutine detects the cycle, and however many of them race.
FatalIffCyclic ==
  \A o \in Obj : Done(result[o]) =>
    (call[result[o]].fatal # "nil" <=> \E q \in Below(o[1]) : OnCycle(q))

\* Run collects the diagnostics of each query and of all that it depends on,
\* transitively, and each of these is complete.
ReportIsTransitive ==
  \A r \in Runs :
    call[<<r>>].pc = "gone" /\ call[<<r>>].fatal = "nil" =>
      {o[1] : o \in call[<<r>>].seen} = UNION {Below(Asked[r][i]) : i \in DOMAIN Asked[r]}

\* A memoised result depends on memoised results only: eviction takes the
\* callers of what it evicts, transitively, out of the cache.
CacheClosed ==
  \A o \in Current(Queries) : Done(result[o]) => deps[o] \subseteq Current(Queries)

\* A Run that starts after EvictWithCleanup sees the values the cleanup wrote:
\* when no Run and no eviction is under way, nothing memoised is stale.
CacheFresh ==
  readers = {} /\ evict.at = "idle" =>
    \A o \in Current(Queries) : Done(result[o]) =>
      \A v \in call[result[o]].val : v[2] = version[v[1]]

\* Every call of Run returns.
RunsReturn == \A r \in Runs : (call[<<r>>].pc # "idle") ~> (call[<<r>>].pc = "gone")
==============================================================================
