--------------------------- MODULE IncrementalSteps ----------------------------
(***************************************************************************)
(* What the steps of Incremental do to the tree of calls, for every set of *)
(* queries, every program, every number of Runs and every parallelism: the *)
(* lemmas that IncrementalProofs rests on.                                 *)
(***************************************************************************)
EXTENDS Incremental, TLAPS

-----------------------------------------------------------------------------
(* Calls.                                                                  *)

Fields == {"obj", "async", "pc", "holding", "panicking", "idx", "todo", "got", "joined",
           "needWait", "ret", "queue", "seen", "done", "fatal", "val"}

Index(c) == c[Len(c)]

\* The calls are a tree below the roots; the one for the zeroth query of a
\* Resolve is on the goroutine of its caller.
ShapeAt(c) ==
  /\ c \in Seq(Nat) /\ c # <<>> /\ RunOf(c) \in Runs /\ DOMAIN call[c] = Fields
  /\ call[c].holding \in BOOLEAN /\ call[c].async \in BOOLEAN
  /\ ~IsRoot(c) => Caller(c) \in DOMAIN call /\ (call[c].async <=> Index(c) # 1)

ShapeInv == (\A r \in Runs : <<r>> \in DOMAIN call) /\ \A c \in DOMAIN call : ShapeAt(c)

\* Where a call has not called another yet.
Early == {"idle", "rootAcquire", "load", "cas", "lost", "lead", "execute", "register", "check",
          "wait", "reacquire", "reload"}
RootPcs == {"idle", "rootAcquire", "register", "start", "sync", "release", "join", "rejoin",
            "resolved", "gone"}
\* Where a Task has a hold, unless its context is done.
HoldPcs == {"register", "start", "sync", "release", "resolved", "execute", "unwind"}
\* Where a call on its caller's goroutine has taken the caller's hold.
Borrowed == {"execute", "register", "start", "sync", "release", "join", "rejoin", "resolved",
             "unwind", "wait", "reacquire"}

\* Where a call is computing the result of its task.
Leading == {"lead", "execute", "register", "start", "sync", "release", "join", "rejoin", "resolved",
            "unwind", "settle"}

\* What a call and its caller know of each other.
CalleeAt(c) ==
  LET p == Caller(c)
  IN  /\ call[c].pc \notin {"idle", "rootAcquire"}
      /\ (call[c].pc = "lead" => call[c].async) /\ (call[c].pc = "reacquire" => ~call[c].async)
      /\ call[p].pc \notin Early
      /\ call[p].pc = "start" => call[p].idx < Index(c)
      /\ ~call[c].async /\ call[c].pc # "gone" => call[p].pc = "sync"
      /\ ~call[c].async /\ call[c].pc \in Borrowed => ~call[p].holding

PathAt(c) ==
  /\ call[c].holding => call[c].pc \in HoldPcs
  /\ IsRoot(c) => call[c].pc \in RootPcs
  /\ ~IsRoot(c) => CalleeAt(c)

PathInv == \A c \in DOMAIN call : PathAt(c)

-----------------------------------------------------------------------------
(* What the steps do to the calls.                                         *)

\* Only the record of c changes.
Touches(c) ==
  /\ DOMAIN call' = DOMAIN call
  /\ \A d \in DOMAIN call : d # c => call'[d] = call[d]
  /\ DOMAIN call'[c] = Fields /\ call'[c].async = call[c].async /\ call'[c].obj = call[c].obj

Steady(c) ==
  /\ call'[c].holding = call[c].holding
  /\ call'[c].done = call[c].done /\ call'[c].val = call[c].val

Listless(c) == call'[c].idx = call[c].idx /\ call'[c].todo = call[c].todo

\* The steps that only go from one point to another.
Moves(c) == Touches(c) /\ Steady(c) /\ Listless(c)

LEMMA GotoMoves ==
  ASSUME NEW c \in DOMAIN call, DOMAIN call[c] = Fields, NEW pc, Goto(c, pc)
  PROVE  Moves(c) /\ call'[c].pc = pc
  BY Zenon DEF Goto, Moves, Touches, Steady, Listless, Fields

LEMMA RunMoves ==
  ASSUME NEW c \in DOMAIN call, DOMAIN call[c] = Fields
  PROVE  /\ Load(c) => Moves(c) /\ call'[c].pc \in {"cas", "deliver", "check"}
         /\ LoadLeader(c) => Moves(c) /\ call'[c].pc \in {"deliver", "check"}
         /\ LeadAcquireFails(c) => Moves(c) /\ call'[c].pc = "settle"
         /\ CycleVisit(c) => Moves(c) /\ call'[c].pc = "check"
         /\ ReacquireFails(c) => Moves(c) /\ call'[c].pc = "deliver"
         /\ Reload(c) => Moves(c) /\ call'[c].pc = "deliver"
<1> USE DEF Moves, Touches, Steady, Listless, Fields
<1>1. ASSUME Load(c) PROVE Moves(c) /\ call'[c].pc \in {"cas", "deliver", "check"}
  BY <1>1, Zenon DEF Load
<1>2. ASSUME LoadLeader(c) PROVE Moves(c) /\ call'[c].pc \in {"deliver", "check"}
  BY <1>2, Zenon DEF LoadLeader
<1>3. ASSUME LeadAcquireFails(c) PROVE Moves(c) /\ call'[c].pc = "settle"
  BY <1>3, Zenon DEF LeadAcquireFails
<1>4. ASSUME CycleVisit(c) PROVE Moves(c) /\ call'[c].pc = "check"
  BY <1>4, Zenon DEF CycleVisit
<1>5. ASSUME ReacquireFails(c) PROVE Moves(c) /\ call'[c].pc = "deliver"
  BY <1>5, Zenon DEF ReacquireFails
<1>6. ASSUME Reload(c) PROVE Moves(c) /\ call'[c].pc = "deliver"
  BY <1>6, Zenon DEF Reload
<1> QED
  BY <1>1, <1>2, <1>3, <1>4, <1>5, <1>6, Zenon

LEMMA AsksRecord ==
  ASSUME NEW k, DOMAIN k = Fields, NEW o
  PROVE  /\ DOMAIN Asks(k, o) = Fields /\ Asks(k, o).async = k.async /\ Asks(k, o).obj = k.obj
         /\ Asks(k, o).pc = k.pc /\ Asks(k, o).holding = k.holding /\ Asks(k, o).done = k.done
         /\ Asks(k, o).val = k.val /\ Asks(k, o).idx = k.idx + 1
         /\ Asks(k, o).todo = Append(k.todo, o)
<1> DEFINE t == Append(k.todo, o)
           g == Append(k.got, NoAnswer)
           i == k.idx + 1
<1>1. Asks(k, o) = [k EXCEPT !.todo = t, !.idx = i, !.got = g]
  BY DEF Asks
<1> HIDE DEF t, g, i
<1>2. /\ DOMAIN Asks(k, o) = Fields /\ Asks(k, o).async = k.async /\ Asks(k, o).obj = k.obj
      /\ Asks(k, o).pc = k.pc /\ Asks(k, o).holding = k.holding /\ Asks(k, o).done = k.done
      /\ Asks(k, o).val = k.val /\ Asks(k, o).idx = i /\ Asks(k, o).todo = t
  BY <1>1 DEF Fields
<1> QED
  BY <1>2, Zenon DEF t, i

LEMMA RegisterAsks ==
  ASSUME NEW c \in DOMAIN call, DOMAIN call[c] = Fields, Register(c)
  PROVE  /\ Touches(c) /\ Steady(c) /\ call'[c].pc = "register" /\ call'[c].idx = call[c].idx + 1
         /\ call'[c].todo = Append(call[c].todo, TaskOf(Wanted(c)[call[c].idx]))
<1> DEFINE q == Asks(call[c], TaskOf(Wanted(c)[call[c].idx]))
<1>1. call' = [call EXCEPT ![c] = q]
  BY Zenon DEF Register
<1>2. call[c].pc = "register"
  BY DEF Register
<1> HIDE DEF q
<1>3. DOMAIN call' = DOMAIN call /\ call'[c] = q /\ \A d \in DOMAIN call : d # c => call'[d] = call[d]
  BY <1>1
<1>4. /\ DOMAIN q = Fields /\ q.async = call[c].async /\ q.obj = call[c].obj
      /\ q.pc = call[c].pc /\ q.holding = call[c].holding /\ q.done = call[c].done
      /\ q.val = call[c].val /\ q.idx = call[c].idx + 1
      /\ q.todo = Append(call[c].todo, TaskOf(Wanted(c)[call[c].idx]))
  BY AsksRecord, Zenon DEF q
<1> QED
  BY <1>2, <1>3, <1>4, Zenon DEF Touches, Steady

LEMMA OtherMoves ==
  ASSUME NEW c \in DOMAIN call, DOMAIN call[c] = Fields
  PROVE  /\ Registered(c) => /\ Touches(c) /\ Steady(c) /\ call'[c].todo = call[c].todo
                             /\ call'[c].idx = Len(Wanted(c))
                             /\ call'[c].pc = (IF Wanted(c) = <<>> THEN "resolved" ELSE "start")
         /\ StartCached(c) => /\ Touches(c) /\ Steady(c) /\ call'[c].todo = call[c].todo
                              /\ call'[c].idx = call[c].idx - 1
                              /\ call'[c].pc = AfterStart(call[c].idx, call[c].needWait)
         /\ Execute(c) => /\ Touches(c) /\ Listless(c) /\ call'[c].pc = "register"
                          /\ call'[c].holding = call[c].holding /\ call'[c].done = call[c].done
         /\ ExecuteReturn(c) => /\ Touches(c) /\ call'[c].pc = "unwind" /\ call'[c].todo = <<>>
                                /\ call'[c].idx = call[c].idx
                                /\ call'[c].holding = call[c].holding /\ call'[c].done = call[c].done
         /\ ExecutePanic(c) => /\ Touches(c) /\ Steady(c) /\ call'[c].pc = "unwind"
                               /\ call'[c].todo = <<>> /\ call'[c].idx = call[c].idx
         /\ Settle(c) => /\ Touches(c) /\ Listless(c) /\ call'[c].pc = "deliver"
                         /\ call'[c].holding = call[c].holding /\ call'[c].val = call[c].val
<1> USE DEF Touches, Steady, Listless, Fields
<1>1. ASSUME Registered(c)
      PROVE  /\ Touches(c) /\ Steady(c) /\ call'[c].todo = call[c].todo
             /\ call'[c].idx = Len(Wanted(c))
             /\ call'[c].pc = (IF Wanted(c) = <<>> THEN "resolved" ELSE "start")
  BY <1>1, Zenon DEF Registered
<1>2. ASSUME StartCached(c)
      PROVE  /\ Touches(c) /\ Steady(c) /\ call'[c].todo = call[c].todo
             /\ call'[c].idx = call[c].idx - 1
             /\ call'[c].pc = AfterStart(call[c].idx, call[c].needWait)
  BY <1>2, Zenon DEF StartCached
<1>3. ASSUME Execute(c)
      PROVE  /\ Touches(c) /\ Listless(c) /\ call'[c].pc = "register"
             /\ call'[c].holding = call[c].holding /\ call'[c].done = call[c].done
  BY <1>3, Zenon DEF Execute
<1>4. ASSUME ExecuteReturn(c)
      PROVE  /\ Touches(c) /\ call'[c].pc = "unwind" /\ call'[c].todo = <<>> /\ call'[c].idx = call[c].idx
             /\ call'[c].holding = call[c].holding /\ call'[c].done = call[c].done
  BY <1>4, Zenon DEF ExecuteReturn
<1>5. ASSUME ExecutePanic(c)
      PROVE  /\ Touches(c) /\ Steady(c) /\ call'[c].pc = "unwind" /\ call'[c].todo = <<>>
             /\ call'[c].idx = call[c].idx
  BY <1>5, Zenon DEF ExecutePanic
<1>6. ASSUME Settle(c)
      PROVE  /\ Touches(c) /\ Listless(c) /\ call'[c].pc = "deliver"
             /\ call'[c].holding = call[c].holding /\ call'[c].val = call[c].val
  BY <1>6, Zenon DEF Settle
<1> QED
  BY <1>1, <1>2, <1>3, <1>4, <1>5, <1>6, Zenon

LEMMA HoldMoves ==
  ASSUME NEW c \in DOMAIN call, DOMAIN call[c] = Fields
  PROVE  /\ Rejoin(c) => /\ Touches(c) /\ Listless(c) /\ call'[c].pc = "resolved"
                         /\ call'[c].holding = TRUE /\ call'[c].done = call[c].done /\ call'[c].val = call[c].val
         /\ LeadAcquire(c) => /\ Touches(c) /\ Listless(c) /\ call'[c].pc = "execute"
                              /\ call'[c].holding = TRUE /\ call'[c].done = call[c].done /\ call'[c].val = call[c].val
         /\ ReleaseToJoin(c) => /\ Touches(c) /\ Listless(c) /\ call'[c].pc = "join"
                                /\ call'[c].holding = FALSE /\ call'[c].done = call[c].done /\ call'[c].val = call[c].val
         /\ UnwindAsync(c) => /\ Touches(c) /\ Listless(c) /\ call'[c].pc = "settle"
                              /\ call'[c].holding = FALSE /\ call'[c].done = call[c].done /\ call'[c].val = call[c].val
<1> USE DEF Touches, Listless, Fields
<1>1. ASSUME Rejoin(c) 
      PROVE  /\ Touches(c) /\ Listless(c) /\ call'[c].pc = "resolved"
             /\ call'[c].holding = TRUE /\ call'[c].done = call[c].done /\ call'[c].val = call[c].val
  BY <1>1, Zenon DEF Rejoin
<1>2. ASSUME LeadAcquire(c)
      PROVE  /\ Touches(c) /\ Listless(c) /\ call'[c].pc = "execute"
             /\ call'[c].holding = TRUE /\ call'[c].done = call[c].done /\ call'[c].val = call[c].val
  BY <1>2, Zenon DEF LeadAcquire
<1>3. ASSUME ReleaseToJoin(c)
      PROVE  /\ Touches(c) /\ Listless(c) /\ call'[c].pc = "join"
             /\ call'[c].holding = FALSE /\ call'[c].done = call[c].done /\ call'[c].val = call[c].val
  BY <1>3, Zenon DEF ReleaseToJoin
<1>4. ASSUME UnwindAsync(c)
      PROVE  /\ Touches(c) /\ Listless(c) /\ call'[c].pc = "settle"
             /\ call'[c].holding = FALSE /\ call'[c].done = call[c].done /\ call'[c].val = call[c].val
  BY <1>4, Zenon DEF UnwindAsync
<1> QED
  BY <1>1, <1>2, <1>3, <1>4, Zenon

LEMMA RootMoves ==
  ASSUME NEW r \in Runs, <<r>> \in DOMAIN call, DOMAIN call[<<r>>] = Fields
  PROVE  /\ RootAcquire(r) => /\ Touches(<<r>>) /\ Listless(<<r>>) /\ call'[<<r>>].pc = "register"
                              /\ call'[<<r>>].holding = TRUE /\ call'[<<r>>].done = call[<<r>>].done
                              /\ call'[<<r>>].val = call[<<r>>].val
         /\ RunReturn(r) => /\ Touches(<<r>>) /\ Listless(<<r>>) /\ call'[<<r>>].pc = "gone"
                            /\ call'[<<r>>].holding = FALSE /\ call'[<<r>>].done = call[<<r>>].done
                            /\ call'[<<r>>].val = call[<<r>>].val
         /\ RootAcquireFails(r) => Moves(<<r>>) /\ call'[<<r>>].pc = "gone"
<1> DEFINE c == <<r>>
<1>1. ASSUME RootAcquire(r) 
      PROVE  /\ Touches(c) /\ Listless(c) /\ call'[c].pc = "register"
             /\ call'[c].holding = TRUE /\ call'[c].done = call[c].done /\ call'[c].val = call[c].val
  BY <1>1, Zenon DEF RootAcquire, Touches, Listless, Fields
<1>2. ASSUME RunReturn(r)
      PROVE  /\ Touches(c) /\ Listless(c) /\ call'[c].pc = "gone"
             /\ call'[c].holding = FALSE /\ call'[c].done = call[c].done /\ call'[c].val = call[c].val
  BY <1>2, Zenon DEF RunReturn, Touches, Listless, Fields
<1>3. ASSUME RootAcquireFails(r)
      PROVE  Moves(c) /\ call'[c].pc = "gone"
  BY <1>3, Zenon DEF RootAcquireFails, Moves, Touches, Listless, Steady, Fields
<1> QED
  BY <1>1, <1>2, <1>3, Zenon

\* The record of c and the hold of its caller change.
Couple(c) ==
  /\ DOMAIN call' = DOMAIN call
  /\ \A d \in DOMAIN call : d # c /\ d # Caller(c) => call'[d] = call[d]
  /\ \A d \in {c, Caller(c)} :
       /\ DOMAIN call'[d] = Fields /\ call'[d].async = call[d].async /\ call'[d].obj = call[d].obj
       /\ call'[d].done = call[d].done /\ call'[d].val = call[d].val /\ Listless(d)
  /\ call'[Caller(c)].pc = call[Caller(c)].pc

LEMMA CoupleMoves ==
  ASSUME NEW c \in DOMAIN call, DOMAIN call[c] = Fields,
         Caller(c) \in DOMAIN call, DOMAIN call[Caller(c)] = Fields, Caller(c) # c,
         call[c].async = FALSE
  PROVE  /\ Lead(c) => /\ Couple(c) /\ call'[c].pc = "execute"
                       /\ call'[c].holding = call[Caller(c)].holding /\ call'[Caller(c)].holding = FALSE
         /\ UnwindSync(c) => /\ Couple(c) /\ call'[c].pc = "settle"
                             /\ call'[c].holding = FALSE /\ call'[Caller(c)].holding = call[c].holding
         /\ NoCycle(c) => /\ Couple(c) /\ call'[c].pc = "wait"
                          /\ call'[c].holding = call[c].holding /\ call'[Caller(c)].holding = FALSE
         /\ Reacquire(c) => /\ Couple(c) /\ call'[c].pc = "reload"
                            /\ call'[c].holding = call[c].holding /\ call'[Caller(c)].holding = TRUE
<1> USE DEF Couple, Listless, Fields
<1>1. ASSUME Lead(c)
      PROVE  /\ Couple(c) /\ call'[c].pc = "execute"
             /\ call'[c].holding = call[Caller(c)].holding /\ call'[Caller(c)].holding = FALSE
  <2>1. call' = [call EXCEPT ![c] = [@ EXCEPT !.pc = "execute", !.ret = c,
                                              !.holding = call[Caller(c)].holding],
                             ![Caller(c)] = [@ EXCEPT !.holding = FALSE]]
    <3> HIDE DEF Couple, Listless, Fields
    <3> QED
      BY <1>1, Zenon DEF Lead
  <2> QED
    BY <2>1, Zenon
<1>2. ASSUME UnwindSync(c)
      PROVE  /\ Couple(c) /\ call'[c].pc = "settle"
             /\ call'[c].holding = FALSE /\ call'[Caller(c)].holding = call[c].holding
  BY <1>2, Zenon DEF UnwindSync
<1>3. ASSUME NoCycle(c)
      PROVE  /\ Couple(c) /\ call'[c].pc = "wait"
             /\ call'[c].holding = call[c].holding /\ call'[Caller(c)].holding = FALSE
  <2>1. /\ call' = [call EXCEPT ![c] = [@ EXCEPT !.pc = "wait", !.seen = {}],
                                ![Caller(c)] = [@ EXCEPT !.holding = FALSE]]
    <3> HIDE DEF Couple, Listless, Fields
    <3> QED
      BY <1>3, Zenon DEF NoCycle
  <2> QED
    BY <2>1, Zenon
<1>4. ASSUME Reacquire(c)
      PROVE  /\ Couple(c) /\ call'[c].pc = "reload"
             /\ call'[c].holding = call[c].holding /\ call'[Caller(c)].holding = TRUE
  BY <1>4, Zenon DEF Reacquire
<1> QED
  BY <1>1, <1>2, <1>3, <1>4, Zenon

LEMMA AsyncMoves ==
  ASSUME NEW c \in DOMAIN call, DOMAIN call[c] = Fields, call[c].async
  PROVE  /\ Lead(c) => Moves(c) /\ call'[c].pc = "lead"
         /\ NoCycle(c) => Moves(c) /\ call'[c].pc = "wait"
<1>1. ASSUME Lead(c) PROVE Moves(c) /\ call'[c].pc = "lead"
  <2>1. call' = [call EXCEPT ![c] = [@ EXCEPT !.pc = "lead", !.ret = c]]
    BY <1>1, Zenon DEF Lead
  <2> QED
    BY <2>1, Zenon DEF Moves, Touches, Steady, Listless, Fields
<1>2. ASSUME NoCycle(c) PROVE Moves(c) /\ call'[c].pc = "wait"
  <2>1. call' = [call EXCEPT ![c] = [@ EXCEPT !.pc = "wait", !.seen = {}]]
    BY <1>2, Zenon DEF NoCycle
  <2> QED
    BY <2>1, Zenon DEF Moves, Touches, Steady, Listless, Fields
<1> QED
  BY <1>1, <1>2

\* What a step says of a call that it does not touch.
Same(d) ==
  /\ DOMAIN call'[d] = Fields /\ call'[d].async = call[d].async /\ call'[d].obj = call[d].obj
  /\ call'[d].pc = call[d].pc /\ call'[d].holding = call[d].holding
  /\ call'[d].idx = call[d].idx /\ call'[d].todo = call[d].todo
  /\ call'[d].done = call[d].done /\ call'[d].val = call[d].val

LEMMA CycleMoves ==
  ASSUME NEW c \in DOMAIN call, \A d \in DOMAIN call : DOMAIN call[d] = Fields, CycleFound(c)
  PROVE  /\ DOMAIN call' = DOMAIN call
         /\ \A d \in DOMAIN call : d # c => Same(d)
         /\ DOMAIN call'[c] = Fields /\ call'[c].async = call[c].async /\ call'[c].obj = call[c].obj
         /\ Steady(c) /\ Listless(c) /\ call'[c].pc = "deliver"
<1> DEFINE r == call[c].ret
           k == [call EXCEPT ![r] = [@ EXCEPT !.fatal = "cycle"]]
<1>1. DOMAIN k = DOMAIN call
  OBVIOUS
<1>2. ASSUME NEW d \in DOMAIN call
      PROVE  /\ DOMAIN k[d] = Fields /\ k[d].async = call[d].async /\ k[d].obj = call[d].obj
             /\ k[d].pc = call[d].pc /\ k[d].holding = call[d].holding /\ k[d].idx = call[d].idx
             /\ k[d].todo = call[d].todo /\ k[d].done = call[d].done /\ k[d].val = call[d].val
  <2> HIDE DEF r
  <2>1. CASE d = r
    BY <2>1, Zenon DEF Fields
  <2>2. CASE d # r
    BY <2>2, Zenon
  <2> QED
    BY <2>1, <2>2
<1>3. call' = [k EXCEPT ![c] = [@ EXCEPT !.pc = "deliver", !.queue = <<>>, !.seen = {}]]
  BY Zenon DEF CycleFound
<1> HIDE DEF k
<1>4. /\ DOMAIN call' = DOMAIN call
      /\ \A d \in DOMAIN call : d # c => call'[d] = k[d]
      /\ call'[c] = [k[c] EXCEPT !.pc = "deliver", !.queue = <<>>, !.seen = {}]
  BY <1>1, <1>3, Zenon
<1>5. ASSUME NEW d \in DOMAIN call, d # c PROVE Same(d)
  <2>1. call'[d] = k[d]
    BY <1>4, <1>5
  <2> QED
    BY <1>2, <2>1, Zenon DEF Same
<1>6. /\ DOMAIN call'[c] = Fields /\ call'[c].async = k[c].async /\ call'[c].obj = k[c].obj
      /\ call'[c].holding = k[c].holding /\ call'[c].done = k[c].done /\ call'[c].val = k[c].val
      /\ call'[c].idx = k[c].idx /\ call'[c].todo = k[c].todo /\ call'[c].pc = "deliver"
  BY <1>2, <1>4, Zenon DEF Fields
<1> QED
  BY <1>2, <1>4, <1>5, <1>6, Zenon DEF Steady, Listless

\* A record that differs from another in what no invariant is about.
Like(q, k) ==
  /\ DOMAIN q = Fields /\ q.async = k.async /\ q.obj = k.obj /\ q.holding = k.holding
  /\ q.idx = k.idx /\ q.todo = k.todo /\ q.done = k.done /\ q.val = k.val

LEMMA DeliverMoves ==
  ASSUME NEW c \in DOMAIN call, DOMAIN call[c] = Fields, Deliver(c),
         NEW p \in DOMAIN call, p = Caller(c), DOMAIN call[p] = Fields, p # c
  PROVE  /\ DOMAIN call' = DOMAIN call
         /\ \A d \in DOMAIN call : d # c /\ d # p => call'[d] = call[d]
         /\ Like(call'[c], call[c]) /\ Like(call'[p], call[p])
         /\ call'[c].pc = "gone"
         /\ \/ call'[p].pc = call[p].pc
            \/ ~call[c].async /\ call'[p].pc \in {"release", "resolved"}
         /\ call[p].pc = "sync" /\ ~call[c].async => call'[p].pc # "sync"
<1> DEFINE gone == [call EXCEPT ![c] = [@ EXCEPT !.pc = "gone", !.ret = Nil]]
           pc == IF call[c].async THEN call[p].pc ELSE AfterStart(1, call[p].needWait)
<1>1. /\ DOMAIN gone = DOMAIN call
      /\ \A d \in DOMAIN call : d # c => gone[d] = call[d]
      /\ gone[c] = [call[c] EXCEPT !.pc = "gone", !.ret = Nil]
  BY Zenon
<1>2. Like(gone[c], call[c]) /\ gone[c].pc = "gone"
  <2> HIDE DEF gone
  <2> QED
    BY <1>1, Zenon DEF Like, Fields
<1>3. gone[p] = call[p] /\ Like(call[p], call[p])
  BY <1>1, Zenon DEF Like
<1>4. \/ call' = gone /\ call[p].pc # "sync"
      \/ \E i, a : call' = [gone EXCEPT ![p] = Learns(@, i, a, pc)]
  BY Zenon DEF Deliver
<1>5. pc = call[p].pc \/ (~call[c].async /\ pc \in {"release", "resolved"})
  BY DEF AfterStart
<1>6. call[p].pc = "sync" /\ ~call[c].async => pc # "sync"
  BY DEF AfterStart
<1> HIDE DEF gone, pc
<1>7. CASE call' = gone /\ call[p].pc # "sync"
  BY <1>1, <1>2, <1>3, <1>7, Zenon
<1>8. ASSUME NEW i, NEW a, call' = [gone EXCEPT ![p] = Learns(@, i, a, pc)]
      PROVE  /\ DOMAIN call' = DOMAIN call
             /\ \A d \in DOMAIN call : d # c /\ d # p => call'[d] = call[d]
             /\ Like(call'[c], call[c]) /\ Like(call'[p], call[p])
             /\ call'[c].pc = "gone" /\ call'[p].pc = pc
  <2> DEFINE q == Learns(call[p], i, a, pc)
  <2>1. Like(q, call[p]) /\ q.pc = pc
    BY Zenon DEF Learns, Fields, Like
  <2> HIDE DEF q
  <2>2. /\ DOMAIN call' = DOMAIN call /\ call'[p] = q
        /\ \A d \in DOMAIN call : d # p => call'[d] = gone[d]
    BY <1>1, <1>3, <1>8, Zenon DEF q
  <2> QED
    BY <1>1, <1>2, <2>1, <2>2, Zenon
<1> QED
  BY <1>4, <1>5, <1>6, <1>7, <1>8, Zenon

\* A call that has just been made.
New(k, o, i) ==
  /\ DOMAIN k = Fields /\ k.obj = o /\ k.async \in BOOLEAN /\ (k.async <=> i # 1)
  /\ k.pc = "load" /\ k.holding = FALSE /\ k.done = FALSE /\ k.idx = 1 /\ k.todo = <<>>

\* The new call, and the record of its caller.
Calls(c, i, n) ==
  /\ DOMAIN call' = DOMAIN call \cup {n}
  /\ \A d \in DOMAIN call : d # c /\ d # n => call'[d] = call[d]
  /\ DOMAIN call'[c] = Fields /\ call'[c].async = call[c].async /\ call'[c].obj = call[c].obj
  /\ Steady(c) /\ call'[c].todo = call[c].todo /\ call'[c].idx = i - 1
  /\ call'[c].pc = (IF i = 1 THEN "sync" ELSE "start")
  /\ New(call'[n], call[c].todo[i], i)

LEMMA StartMoves ==
  ASSUME NEW c \in DOMAIN call, DOMAIN call[c] = Fields, StartRun(c),
         Append(c, call[c].idx) # c
  PROVE  Calls(c, call[c].idx, Append(c, call[c].idx))
<1> SUFFICES ASSUME NEW i, i = call[c].idx, NEW n, n = Append(c, i), n # c
             PROVE  Calls(c, i, n)
  BY Zenon
<1> DEFINE q == [call[c] EXCEPT !.idx = i - 1, !.pc = IF i = 1 THEN "sync" ELSE "start",
                                !.needWait = @ \/ i # 1]
<1>1. call' = [d \in DOMAIN call \cup {n} |->
                 IF d = c THEN q
                 ELSE IF d = n THEN Fresh(call[c].todo[i], i # 1, "load")
                 ELSE call[d]]
  BY Zenon DEF StartRun
<1>2. /\ DOMAIN q = Fields /\ q.async = call[c].async /\ q.obj = call[c].obj
      /\ q.holding = call[c].holding /\ q.done = call[c].done /\ q.val = call[c].val
      /\ q.todo = call[c].todo /\ q.idx = i - 1 /\ q.pc = (IF i = 1 THEN "sync" ELSE "start")
  BY Zenon DEF Fields
<1> HIDE DEF q
<1> QED
  <2>1. New(Fresh(call[c].todo[i], i # 1, "load"), call[c].todo[i], i)
    BY Zenon DEF Fresh, New, Fields
  <2> QED
    BY <1>1, <1>2, <2>1, Zenon DEF Calls, Steady

-----------------------------------------------------------------------------
(* The tree of calls.                                                      *)

LEMMA CallerOf ==
  ASSUME NEW c \in Seq(Nat), c # <<>>, ~IsRoot(c)
  PROVE  /\ Caller(c) \in Seq(Nat) /\ Caller(c) # <<>> /\ Caller(c) # c
         /\ c = Append(Caller(c), Index(c)) /\ Index(c) \in Nat
         /\ RunOf(Caller(c)) = RunOf(c)
<1>1. Len(c) \in Nat /\ Len(c) >= 2
  <2>1. Len(c) \in Nat /\ Len(c) # 1
    BY DEF IsRoot
  <2>2. Len(c) # 0
    OBVIOUS
  <2>3. \A n \in Nat : n # 0 /\ n # 1 => n >= 2
    OBVIOUS
  <2> QED
    BY <2>1, <2>2, <2>3, Zenon
<1>2. Caller(c) \in Seq(Nat) /\ Len(Caller(c)) = Len(c) - 1
  BY <1>1 DEF Caller
<1>3. c = Append(Caller(c), Index(c)) /\ Index(c) \in Nat
  BY <1>1, <1>2 DEF Caller, Index
<1>4. RunOf(Caller(c)) = RunOf(c)
  BY <1>1, <1>2 DEF Caller, RunOf
<1> QED
  BY <1>1, <1>2, <1>3, <1>4

LEMMA CalleeOf ==
  ASSUME NEW c \in Seq(Nat), c # <<>>, NEW i \in Nat
  PROVE  /\ Append(c, i) \in Seq(Nat) /\ Append(c, i) # <<>> /\ Append(c, i) # c
         /\ ~IsRoot(Append(c, i)) /\ Caller(Append(c, i)) = c /\ Index(Append(c, i)) = i
         /\ RunOf(Append(c, i)) = RunOf(c)
  BY DEF IsRoot, Caller, Index, RunOf

\* A caller has one callee on its goroutine.
LEMMA OneSync ==
  ASSUME ShapeInv, NEW c \in DOMAIN call, NEW d \in DOMAIN call, ~IsRoot(c), ~IsRoot(d),
         ~call[c].async, ~call[d].async, Caller(c) = Caller(d)
  PROVE  c = d
<1>1. Index(c) = 1 /\ Index(d) = 1 /\ c \in Seq(Nat) /\ d \in Seq(Nat) /\ c # <<>> /\ d # <<>>
  BY Zenon DEF ShapeInv, ShapeAt
<1> QED
  BY <1>1, CallerOf, Zenon

\* The shape of a caller, and where it is.
LEMMA CallerShape ==
  ASSUME ShapeInv, NEW c \in DOMAIN call, ~IsRoot(c)
  PROVE  /\ Caller(c) \in DOMAIN call /\ Caller(c) # c /\ RunOf(Caller(c)) = RunOf(c)
         /\ c = Append(Caller(c), Index(c)) /\ DOMAIN call[Caller(c)] = Fields
<1>1. c \in Seq(Nat) /\ c # <<>> /\ Caller(c) \in DOMAIN call
  BY Zenon DEF ShapeInv, ShapeAt
<1> QED
  BY <1>1, CallerOf, Zenon DEF ShapeInv, ShapeAt

-----------------------------------------------------------------------------
(* Steps of one call.                                                      *)

Alone(c) ==
  /\ DOMAIN call' = DOMAIN call
  /\ \A d \in DOMAIN call : d # c => Same(d)
  /\ DOMAIN call'[c] = Fields /\ call'[c].async = call[c].async /\ call'[c].obj = call[c].obj

LEMMA TouchesAlone ==
  ASSUME ShapeInv, NEW c \in DOMAIN call, Touches(c)
  PROVE  Alone(c)
<1>1. ASSUME NEW d \in DOMAIN call, d # c PROVE Same(d)
  <2>1. call'[d] = call[d] /\ DOMAIN call[d] = Fields
    BY <1>1, Zenon DEF Touches, ShapeInv, ShapeAt
  <2> QED
    BY <2>1, Zenon DEF Same
<1> QED
  BY <1>1, Zenon DEF Touches, Alone

\* A step from a to b does not disturb the callees and the caller.
Goes(c, a, b) ==
  /\ a \notin {"sync", "gone", "deliver"} /\ b # "sync"
  /\ b \in Early => a \in Early
  /\ b = "start" => a \in Early \/ (a = "start" /\ call'[c].idx < call[c].idx)
  /\ IsRoot(c) => b \in RootPcs
  /\ ~IsRoot(c) => b \notin {"idle", "rootAcquire"}
  /\ (b = "lead" => call[c].async) /\ (b = "reacquire" => ~call[c].async)
  /\ ~IsRoot(c) /\ b \in Borrowed => a \in Borrowed \/ call[c].async
  /\ ~IsRoot(c) /\ a \in Borrowed => b \in Borrowed \/ call[c].async \/ Cancelled(c)

\* What it does to the hold, to the semaphore and to the context.
Keeps(c, a, b) ==
  /\ permits' = permits /\ call'[c].holding = call[c].holding
  /\ a \in HoldPcs => b \in HoldPcs
  /\ b \in HoldPcs => a \in HoldPcs \/ Cancelled(c)
  /\ cause' = cause \/ Settle(c)
Takes(c, a, b) ==
  /\ permits > 0 /\ permits' = permits - 1 /\ call'[c].holding = TRUE
  /\ a \notin HoldPcs /\ b \in HoldPcs
  /\ cause' = AbortIf(c, call[c].holding)
Gives(c, a, b) ==
  /\ permits' = permits + Hold(c) /\ call'[c].holding = FALSE
  /\ a \in HoldPcs /\ b \notin HoldPcs
  /\ cause' = AbortIf(c, ~call[c].holding) \/ \E r \in Runs : c = <<r>> /\ RunReturn(r)
Spends(c, a, b) == Keeps(c, a, b) \/ Takes(c, a, b) \/ Gives(c, a, b)

\* What it does to the list of tasks to resolve.
Lists(c, a, b) ==
  \/ Listless(c) /\ b # "start" /\ (b \in Early => a \in Early \ {"register"})
  \/ call'[c].todo = <<>> /\ call'[c].idx = call[c].idx /\ b = "unwind"
  \/ Register(c) \/ Registered(c) \/ StartCached(c)

\* What it does to the results.
Writes(c, a, b) ==
  \/ /\ result' = result /\ call'[c].done = call[c].done
     /\ ~IsRoot(c) /\ b \in Leading => a \in Leading
  \/ Lead(c) /\ call'[c].done = call[c].done
  \/ Settle(c)

Single(c) ==
  LET a == call[c].pc
      b == call'[c].pc
  IN  Alone(c) /\ Goes(c, a, b) /\ Spends(c, a, b) /\ Lists(c, a, b) /\ Writes(c, a, b)

LEMMA SingleRoots ==
  ASSUME ShapeInv, NEW r \in Runs, RootStep(r)
  PROVE  Single(<<r>>)
<1> DEFINE c == <<r>>
<1>1. c \in DOMAIN call /\ DOMAIN call[c] = Fields /\ IsRoot(c)
  BY DEF ShapeInv, ShapeAt, IsRoot
<1> HIDE DEF c
<1> SUFFICES Single(c)
  BY DEF c
<1>2. CASE RunStart(r)
  <2>1. call[c].pc = "idle" /\ Goto(c, "rootAcquire") /\ UNCHANGED <<permits, cause, result>>
    BY <1>2 DEF RunStart, c
  <2>2. Moves(c) /\ call'[c].pc = "rootAcquire"
    BY <1>1, <2>1, GotoMoves, Zenon
  <2> QED
    BY <1>1, <2>1, <2>2, TouchesAlone
       DEF Single, Moves, Steady, Listless, Goes, Spends, Keeps, Takes, Gives, Lists, Writes,
           Early, RootPcs, HoldPcs, Borrowed, Leading
<1>3. CASE RootAcquire(r)
  <2>1. /\ call[c].pc = "rootAcquire" /\ permits > 0 /\ permits' = permits - 1
        /\ cause' = AbortIf(c, call[c].holding) /\ result' = result
    BY <1>3 DEF RootAcquire, Acquires, c
  <2>2. /\ Touches(c) /\ Listless(c) /\ call'[c].pc = "register" /\ call'[c].holding = TRUE
        /\ call'[c].done = call[c].done
    BY <1>1, <1>3, RootMoves, Zenon DEF c
  <2> QED
    BY <1>1, <2>1, <2>2, TouchesAlone
       DEF Single, Moves, Steady, Listless, Goes, Spends, Keeps, Takes, Gives, Lists, Writes,
           Early, RootPcs, HoldPcs, Borrowed, Leading
<1>4. CASE RootAcquireFails(r)
  <2>1. call[c].pc = "rootAcquire" /\ UNCHANGED <<permits, cause, result>>
    BY <1>4 DEF RootAcquireFails, AcquireFails, c
  <2>2. Moves(c) /\ call'[c].pc = "gone"
    BY <1>1, <1>4, RootMoves, Zenon DEF c
  <2> QED
    BY <1>1, <2>1, <2>2, TouchesAlone
       DEF Single, Moves, Steady, Listless, Goes, Spends, Keeps, Takes, Gives, Lists, Writes,
           Early, RootPcs, HoldPcs, Borrowed, Leading
<1>5. CASE RunReturn(r)
  <2>1. call[c].pc = "resolved" /\ permits' = permits + Hold(c) /\ result' = result
    BY <1>5 DEF RunReturn, c
  <2>2. /\ Touches(c) /\ Listless(c) /\ call'[c].pc = "gone" /\ call'[c].holding = FALSE
        /\ call'[c].done = call[c].done
    BY <1>1, <1>5, RootMoves, Zenon DEF c
  <2> QED
    BY <1>1, <1>5, <2>1, <2>2, TouchesAlone
       DEF Single, Moves, Steady, Listless, Goes, Spends, Keeps, Takes, Gives, Lists, Writes,
           Early, RootPcs, HoldPcs, Borrowed, Leading, c
<1> QED
  BY <1>2, <1>3, <1>4, <1>5 DEF RootStep

\* The steps of Resolve.
LEMMA SingleResolve ==
  ASSUME ShapeInv, PathInv, NEW c \in DOMAIN call, call[c].idx \in Int,
         Register(c) \/ Registered(c) \/ StartCached(c) \/ ReleaseToJoin(c) \/ Joined(c)
         \/ JoinCancelled(c) \/ Rejoin(c)
  PROVE  Single(c)
<1>0. /\ DOMAIN call[c] = Fields /\ (IsRoot(c) => call[c].pc \in RootPcs)
      /\ ~IsRoot(c) => call[c].pc \notin {"idle", "rootAcquire"}
      /\ ~IsRoot(c) /\ call[c].pc = "lead" => call[c].async
  BY Zenon DEF ShapeInv, ShapeAt, PathInv, PathAt, CalleeAt, RootPcs
<1>1. CASE Register(c)
  <2>1. call[c].pc = "register" /\ UNCHANGED <<permits, cause, result>>
    BY <1>1 DEF Register
  <2>2. Touches(c) /\ Steady(c) /\ call'[c].pc = "register"
    BY <1>0, <1>1, <2>1, RegisterAsks, Zenon
  <2> QED
    BY <1>0, <1>1, <2>1, <2>2, TouchesAlone
       DEF Single, Moves, Steady, Listless, Goes, Spends, Keeps, Takes, Gives, Lists, Writes,
           Early, RootPcs, HoldPcs, Borrowed, Leading
<1>2. CASE Registered(c)
  <2>1. call[c].pc = "register" /\ UNCHANGED <<permits, cause, result>>
    BY <1>2 DEF Registered
  <2>2. Touches(c) /\ Steady(c) /\ call'[c].pc \in {"start", "resolved"}
    BY <1>0, <1>2, <2>1, OtherMoves, Zenon
  <2> QED
    BY <1>0, <1>2, <2>1, <2>2, TouchesAlone
       DEF Single, Moves, Steady, Listless, Goes, Spends, Keeps, Takes, Gives, Lists, Writes,
           Early, RootPcs, HoldPcs, Borrowed, Leading
<1>3. CASE StartCached(c)
  <2>1. call[c].pc = "start" /\ UNCHANGED <<permits, cause, result>>
    BY <1>3 DEF StartCached
  <2>2. /\ Touches(c) /\ Steady(c) /\ call'[c].idx = call[c].idx - 1
        /\ call'[c].pc = AfterStart(call[c].idx, call[c].needWait)
    BY <1>0, <1>3, <2>1, OtherMoves, Zenon
  <2> QED
    BY <1>0, <1>3, <2>1, <2>2, TouchesAlone
       DEF Single, Moves, Steady, Listless, Goes, Spends, Keeps, Takes, Gives, Lists, Writes,
           Early, RootPcs, HoldPcs, Borrowed, Leading, AfterStart
<1>4. CASE ReleaseToJoin(c)
  <2>1. /\ call[c].pc = "release" /\ permits' = permits + Hold(c)
        /\ cause' = AbortIf(c, ~call[c].holding) /\ result' = result
    BY <1>4 DEF ReleaseToJoin, Releases
  <2>2. /\ Touches(c) /\ Listless(c) /\ call'[c].pc = "join" /\ call'[c].holding = FALSE
        /\ call'[c].done = call[c].done
    BY <1>0, <1>4, <2>1, HoldMoves, Zenon
  <2> QED
    BY <1>0, <2>1, <2>2, TouchesAlone
       DEF Single, Moves, Steady, Listless, Goes, Spends, Keeps, Takes, Gives, Lists, Writes,
           Early, RootPcs, HoldPcs, Borrowed, Leading
<1>5. CASE Joined(c)
  <2>1. call[c].pc = "join" /\ Goto(c, "rejoin") /\ UNCHANGED <<permits, cause, result>>
    BY <1>5 DEF Joined
  <2>2. Moves(c) /\ call'[c].pc = "rejoin"
    BY <1>0, <1>5, <2>1, GotoMoves, Zenon
  <2> QED
    BY <1>0, <2>1, <2>2, TouchesAlone
       DEF Single, Moves, Steady, Listless, Goes, Spends, Keeps, Takes, Gives, Lists, Writes,
           Early, RootPcs, HoldPcs, Borrowed, Leading
<1>6. CASE JoinCancelled(c)
  <2>1. /\ call[c].pc \in {"join", "rejoin"} /\ Goto(c, "resolved") /\ Cancelled(c)
        /\ UNCHANGED <<permits, cause, result>>
    BY <1>6 DEF JoinCancelled, AcquireFails
  <2>2. Moves(c) /\ call'[c].pc = "resolved"
    BY <1>0, <1>6, <2>1, GotoMoves, Zenon
  <2> QED
    BY <1>0, <2>1, <2>2, TouchesAlone
       DEF Single, Moves, Steady, Listless, Goes, Spends, Keeps, Takes, Gives, Lists, Writes,
           Early, RootPcs, HoldPcs, Borrowed, Leading
<1>7. CASE Rejoin(c)
  <2>1. /\ call[c].pc = "rejoin" /\ permits > 0 /\ permits' = permits - 1
        /\ cause' = AbortIf(c, call[c].holding) /\ result' = result
    BY <1>7 DEF Rejoin, Acquires
  <2>2. /\ Touches(c) /\ Listless(c) /\ call'[c].pc = "resolved" /\ call'[c].holding = TRUE
        /\ call'[c].done = call[c].done
    BY <1>0, <1>7, <2>1, HoldMoves, Zenon
  <2> QED
    BY <1>0, <2>1, <2>2, TouchesAlone, Zenon
       DEF Single, Moves, Steady, Listless, Goes, Spends, Keeps, Takes, Gives, Lists, Writes,
           Early, RootPcs, HoldPcs, Borrowed, Leading
<1> QED
  BY <1>1, <1>2, <1>3, <1>4, <1>5, <1>6, <1>7, Zenon

\* The steps of task.run that lead.
LEMMA SingleLead ==
  ASSUME ShapeInv, PathInv, NEW c \in DOMAIN call,
         Load(c) \/ LoseLead(c) \/ LoadLeader(c) \/ LeadAcquire(c) \/ LeadAcquireFails(c)
         \/ Execute(c) \/ ExecuteReturn(c) \/ ExecutePanic(c) \/ UnwindAsync(c) \/ Settle(c)
  PROVE  Single(c)
<1>0. /\ DOMAIN call[c] = Fields /\ (IsRoot(c) => call[c].pc \in RootPcs)
      /\ ~IsRoot(c) => call[c].pc \notin {"idle", "rootAcquire"}
      /\ ~IsRoot(c) /\ call[c].pc = "lead" => call[c].async
  BY Zenon DEF ShapeInv, ShapeAt, PathInv, PathAt, CalleeAt, RootPcs
<1>1. CASE Load(c)
  <2>1. call[c].pc = "load" /\ UNCHANGED <<permits, cause, result>>
    BY <1>1 DEF Load
  <2>2. Moves(c) /\ call'[c].pc \in {"cas", "deliver", "check"}
    BY <1>0, <1>1, <2>1, RunMoves, Zenon
  <2> QED
    BY <1>0, <2>1, <2>2, TouchesAlone
       DEF Single, Moves, Steady, Listless, Goes, Spends, Keeps, Takes, Gives, Lists, Writes,
           Early, RootPcs, HoldPcs, Borrowed, Leading
<1>2. CASE LoseLead(c)
  <2>1. call[c].pc = "cas" /\ Goto(c, "lost") /\ UNCHANGED <<permits, cause, result>>
    BY <1>2, Zenon DEF LoseLead
  <2>2. Moves(c) /\ call'[c].pc = "lost"
    BY <1>0, <1>2, <2>1, GotoMoves, Zenon
  <2> QED
    BY <1>0, <2>1, <2>2, TouchesAlone, Zenon
       DEF Single, Moves, Steady, Listless, Goes, Spends, Keeps, Takes, Gives, Lists, Writes,
           Early, RootPcs, HoldPcs, Borrowed, Leading
<1>3. CASE LoadLeader(c)
  <2>1. call[c].pc = "lost" /\ UNCHANGED <<permits, cause, result>>
    BY <1>3 DEF LoadLeader
  <2>2. Moves(c) /\ call'[c].pc \in {"deliver", "check"}
    BY <1>0, <1>3, <2>1, RunMoves, Zenon
  <2> QED
    BY <1>0, <2>1, <2>2, TouchesAlone, Zenon
       DEF Single, Moves, Steady, Listless, Goes, Spends, Keeps, Takes, Gives, Lists, Writes,
           Early, RootPcs, HoldPcs, Borrowed, Leading
<1>4. CASE LeadAcquire(c)
  <2>1. /\ call[c].pc = "lead" /\ permits > 0 /\ permits' = permits - 1
        /\ cause' = AbortIf(c, call[c].holding) /\ result' = result
    BY <1>4 DEF LeadAcquire, Acquires
  <2>2. /\ Touches(c) /\ Listless(c) /\ call'[c].pc = "execute" /\ call'[c].holding = TRUE
        /\ call'[c].done = call[c].done
    BY <1>0, <1>4, <2>1, HoldMoves, Zenon
  <2> QED
    BY <1>0, <2>1, <2>2, TouchesAlone
       DEF Single, Moves, Steady, Listless, Goes, Spends, Keeps, Takes, Gives, Lists, Writes,
           Early, RootPcs, HoldPcs, Borrowed, Leading
<1>5. CASE LeadAcquireFails(c)
  <2>1. call[c].pc = "lead" /\ UNCHANGED <<permits, cause, result>>
    BY <1>5 DEF LeadAcquireFails, AcquireFails
  <2>2. Moves(c) /\ call'[c].pc = "settle"
    BY <1>0, <1>5, <2>1, RunMoves, Zenon
  <2> QED
    BY <1>0, <2>1, <2>2, TouchesAlone
       DEF Single, Moves, Steady, Listless, Goes, Spends, Keeps, Takes, Gives, Lists, Writes,
           Early, RootPcs, HoldPcs, Borrowed, Leading
<1>6. CASE Execute(c)
  <2>1. call[c].pc = "execute" /\ UNCHANGED <<permits, cause, result>>
    BY <1>6 DEF Execute
  <2>2. /\ Touches(c) /\ Listless(c) /\ call'[c].pc = "register"
        /\ call'[c].holding = call[c].holding /\ call'[c].done = call[c].done
    BY <1>0, <1>6, <2>1, OtherMoves, Zenon
  <2> QED
    BY <1>0, <2>1, <2>2, TouchesAlone
       DEF Single, Moves, Steady, Listless, Goes, Spends, Keeps, Takes, Gives, Lists, Writes,
           Early, RootPcs, HoldPcs, Borrowed, Leading
<1>7. CASE ExecuteReturn(c)
  <2>1. call[c].pc = "resolved" /\ ~IsRoot(c) /\ UNCHANGED <<permits, cause, result>>
    BY <1>7 DEF ExecuteReturn
  <2>2. /\ Touches(c) /\ call'[c].pc = "unwind" /\ call'[c].todo = <<>> /\ call'[c].idx = call[c].idx
        /\ call'[c].holding = call[c].holding /\ call'[c].done = call[c].done
    BY <1>0, <1>7, <2>1, OtherMoves, Zenon
  <2> QED
    BY <1>0, <2>1, <2>2, TouchesAlone
       DEF Single, Moves, Steady, Listless, Goes, Spends, Keeps, Takes, Gives, Lists, Writes,
           Early, RootPcs, HoldPcs, Borrowed, Leading
<1>8. CASE ExecutePanic(c)
  <2>1. /\ call[c].pc \in {"execute", "resolved"} /\ ~IsRoot(c)
        /\ UNCHANGED <<permits, cause, result>>
    BY <1>8 DEF ExecutePanic
  <2>2. /\ Touches(c) /\ Steady(c) /\ call'[c].pc = "unwind" /\ call'[c].todo = <<>>
        /\ call'[c].idx = call[c].idx
    BY <1>0, <1>8, <2>1, OtherMoves, Zenon
  <2> QED
    BY <1>0, <2>1, <2>2, TouchesAlone
       DEF Single, Moves, Steady, Listless, Goes, Spends, Keeps, Takes, Gives, Lists, Writes,
           Early, RootPcs, HoldPcs, Borrowed, Leading
<1>9. CASE UnwindAsync(c)
  <2>1. /\ call[c].pc = "unwind" /\ call[c].async /\ permits' = permits + Hold(c)
        /\ cause' = AbortIf(c, ~call[c].holding) /\ result' = result
    BY <1>9 DEF UnwindAsync, Releases
  <2>2. /\ Touches(c) /\ Listless(c) /\ call'[c].pc = "settle" /\ call'[c].holding = FALSE
        /\ call'[c].done = call[c].done
    BY <1>0, <1>9, <2>1, HoldMoves, Zenon
  <2> QED
    BY <1>0, <2>1, <2>2, TouchesAlone
       DEF Single, Moves, Steady, Listless, Goes, Spends, Keeps, Takes, Gives, Lists, Writes,
           Early, RootPcs, HoldPcs, Borrowed, Leading
<1>10. CASE Settle(c)
  <2>1. call[c].pc = "settle" /\ permits' = permits
    BY <1>10 DEF Settle
  <2>2. /\ Touches(c) /\ Listless(c) /\ call'[c].pc = "deliver"
        /\ call'[c].holding = call[c].holding
    BY <1>0, <1>10, <2>1, OtherMoves, Zenon
  <2> QED
    BY <1>0, <1>10, <2>1, <2>2, TouchesAlone
       DEF Single, Moves, Steady, Listless, Goes, Spends, Keeps, Takes, Gives, Lists, Writes,
           Early, RootPcs, HoldPcs, Borrowed, Leading
<1> QED
  BY <1>1, <1>2, <1>3, <1>4, <1>5, <1>6, <1>7, <1>8, <1>9, <1>10, Zenon

\* The steps of waitUntilDone.
LEMMA SingleWait ==
  ASSUME ShapeInv, PathInv, NEW c \in DOMAIN call,
         CycleFound(c) \/ CycleVisit(c) \/ WaitOver(c) \/ ReacquireFails(c) \/ Reload(c)
  PROVE  Single(c)
<1>0. /\ DOMAIN call[c] = Fields /\ (IsRoot(c) => call[c].pc \in RootPcs)
      /\ ~IsRoot(c) => call[c].pc \notin {"idle", "rootAcquire"}
      /\ ~IsRoot(c) /\ call[c].pc = "lead" => call[c].async
  BY Zenon DEF ShapeInv, ShapeAt, PathInv, PathAt, CalleeAt, RootPcs
<1>1. CASE CycleFound(c)
  <2>1. call[c].pc = "check" /\ UNCHANGED <<permits, cause, result>>
    BY <1>1 DEF CycleFound
  <2>2. Alone(c) /\ Steady(c) /\ Listless(c) /\ call'[c].pc = "deliver"
    BY <1>0, <1>1, CycleMoves, Zenon DEF Alone, ShapeInv, ShapeAt
  <2> QED
    BY <1>0, <2>1, <2>2
       DEF Single, Moves, Steady, Listless, Goes, Spends, Keeps, Takes, Gives, Lists, Writes,
           Early, RootPcs, HoldPcs, Borrowed, Leading
<1>2. CASE CycleVisit(c)
  <2>1. call[c].pc = "check" /\ UNCHANGED <<permits, cause, result>>
    BY <1>2 DEF CycleVisit
  <2>2. Moves(c) /\ call'[c].pc = "check"
    BY <1>0, <1>2, <2>1, RunMoves, Zenon
  <2> QED
    BY <1>0, <2>1, <2>2, TouchesAlone
       DEF Single, Moves, Steady, Listless, Goes, Spends, Keeps, Takes, Gives, Lists, Writes,
           Early, RootPcs, HoldPcs, Borrowed, Leading
<1>3. CASE WaitOver(c)
  <2>1. /\ call[c].pc = "wait" /\ Goto(c, IF call[c].async THEN "reload" ELSE "reacquire")
        /\ UNCHANGED <<permits, cause, result>>
    BY <1>3 DEF WaitOver
  <2>2. Moves(c) /\ call'[c].pc = (IF call[c].async THEN "reload" ELSE "reacquire")
    BY <1>0, <1>3, <2>1, GotoMoves, Zenon
  <2> QED
    BY <1>0, <2>1, <2>2, TouchesAlone, Zenon
       DEF Single, Moves, Steady, Listless, Goes, Spends, Keeps, Takes, Gives, Lists, Writes,
           Early, RootPcs, HoldPcs, Borrowed, Leading
<1>4. CASE ReacquireFails(c)
  <2>1. call[c].pc = "reacquire" /\ Cancelled(c) /\ UNCHANGED <<permits, cause, result>>
    BY <1>4 DEF ReacquireFails, AcquireFails
  <2>2. Moves(c) /\ call'[c].pc = "deliver"
    BY <1>0, <1>4, <2>1, RunMoves, Zenon
  <2> QED
    BY <1>0, <2>1, <2>2, TouchesAlone, Zenon
       DEF Single, Moves, Steady, Listless, Goes, Spends, Keeps, Takes, Gives, Lists, Writes,
           Early, RootPcs, HoldPcs, Borrowed, Leading
<1>5. CASE Reload(c)
  <2>1. call[c].pc = "reload" /\ UNCHANGED <<permits, cause, result>>
    BY <1>5 DEF Reload
  <2>2. Moves(c) /\ call'[c].pc = "deliver"
    BY <1>0, <1>5, <2>1, RunMoves, Zenon
  <2> QED
    BY <1>0, <2>1, <2>2, TouchesAlone
       DEF Single, Moves, Steady, Listless, Goes, Spends, Keeps, Takes, Gives, Lists, Writes,
           Early, RootPcs, HoldPcs, Borrowed, Leading
<1> QED
  BY <1>1, <1>2, <1>3, <1>4, <1>5, Zenon

\* The steps of a call on a goroutine of its own.
LEMMA SingleAsync ==
  ASSUME ShapeInv, PathInv, NEW c \in DOMAIN call, call[c].async,
         Lead(c) \/ NoCycle(c)
  PROVE  Single(c)
<1>0. /\ DOMAIN call[c] = Fields /\ (IsRoot(c) => call[c].pc \in RootPcs)
      /\ ~IsRoot(c) => call[c].pc \notin {"idle", "rootAcquire"}
      /\ ~IsRoot(c) /\ call[c].pc = "lead" => call[c].async
  BY Zenon DEF ShapeInv, ShapeAt, PathInv, PathAt, CalleeAt, RootPcs
<1>1. CASE Lead(c)
  <2>1. call[c].pc = "cas" /\ UNCHANGED <<permits, cause>>
    BY <1>1 DEF Lead
  <2>2. Moves(c) /\ call'[c].pc = "lead"
    BY <1>0, <1>1, <2>1, AsyncMoves, Zenon
  <2> QED
    BY <1>0, <1>1, <2>1, <2>2, TouchesAlone
       DEF Single, Moves, Steady, Listless, Goes, Spends, Keeps, Takes, Gives, Lists, Writes,
           Early, RootPcs, HoldPcs, Borrowed, Leading
<1>2. CASE NoCycle(c)
  <2>1. call[c].pc = "check" /\ UNCHANGED <<permits, cause, result>>
    BY <1>2 DEF NoCycle
  <2>2. Moves(c) /\ call'[c].pc = "wait"
    BY <1>0, <1>2, <2>1, AsyncMoves, Zenon
  <2> QED
    BY <1>0, <2>1, <2>2, TouchesAlone
       DEF Single, Moves, Steady, Listless, Goes, Spends, Keeps, Takes, Gives, Lists, Writes,
           Early, RootPcs, HoldPcs, Borrowed, Leading
<1> QED
  BY <1>1, <1>2, Zenon

-----------------------------------------------------------------------------
(* Steps of a call and its caller.                                         *)

\* A hold passes between a call on its caller's goroutine, its caller and the
\* semaphore.
Pair(c) ==
  LET p == Caller(c)
      a == call[c].pc
      b == call'[c].pc
  IN  /\ ~IsRoot(c) /\ ~call[c].async /\ Couple(c)
      /\ \/ /\ a = "cas" /\ b = "execute" /\ Lead(c) /\ permits' = permits
            /\ call'[c].holding = call[p].holding /\ call'[p].holding = FALSE
            /\ cause' = AbortIf(c, ~call[p].holding)
         \/ /\ a = "unwind" /\ b = "settle" /\ result' = result /\ permits' = permits
            /\ call'[c].holding = FALSE /\ call'[p].holding = call[c].holding
            /\ cause' = AbortIf(c, ~call[c].holding)
         \/ /\ a = "check" /\ b = "wait" /\ result' = result /\ permits' = permits + Hold(p)
            /\ call'[c].holding = call[c].holding /\ call'[p].holding = FALSE
            /\ cause' = AbortIf(p, ~call[p].holding)
         \/ /\ a = "reacquire" /\ b = "reload" /\ result' = result
            /\ permits > 0 /\ permits' = permits - 1
            /\ call'[c].holding = call[c].holding /\ call'[p].holding = TRUE
            /\ cause' = AbortIf(p, call[p].holding)

LEMMA PairSteps ==
  ASSUME ShapeInv, PathInv, NEW c \in DOMAIN call,
         Lead(c) \/ UnwindSync(c) \/ NoCycle(c) \/ Reacquire(c), ~call[c].async
  PROVE  Pair(c)
<1>0. DOMAIN call[c] = Fields /\ call[c].async = FALSE
  BY Zenon DEF ShapeInv, ShapeAt
<1>1. /\ Lead(c) => /\ call[c].pc = "cas" /\ permits' = permits
                    /\ cause' = AbortIf(c, ~call[Caller(c)].holding)
      /\ UnwindSync(c) => /\ call[c].pc = "unwind" /\ permits' = permits /\ result' = result
                          /\ cause' = AbortIf(c, ~call[c].holding)
      /\ NoCycle(c) => /\ call[c].pc = "check" /\ permits' = permits + Hold(Caller(c))
                       /\ result' = result /\ cause' = AbortIf(Caller(c), ~call[Caller(c)].holding)
      /\ Reacquire(c) => /\ call[c].pc = "reacquire" /\ permits > 0 /\ permits' = permits - 1
                         /\ result' = result /\ cause' = AbortIf(Caller(c), call[Caller(c)].holding)
  BY <1>0 DEF Lead, UnwindSync, NoCycle, Reacquire, Acquires, Releases
<1>2. ~IsRoot(c)
  BY <1>1 DEF PathInv, PathAt, RootPcs
<1>3. Caller(c) \in DOMAIN call /\ Caller(c) # c /\ DOMAIN call[Caller(c)] = Fields
  BY <1>2, CallerShape, Zenon
<1> QED
  BY <1>0, <1>1, <1>2, <1>3, CoupleMoves, Zenon DEF Pair

\* A call ends, and its caller goes on if it ran the call itself.
Delivers(c) ==
  LET p == Caller(c)
  IN  /\ ~IsRoot(c) /\ call[c].pc = "deliver" /\ call'[c].pc = "gone"
      /\ UNCHANGED <<permits, cause, result>>
      /\ DOMAIN call' = DOMAIN call
      /\ \A d \in DOMAIN call : d # c /\ d # p => call'[d] = call[d]
      /\ Like(call'[c], call[c]) /\ Like(call'[p], call[p])
      /\ \/ call'[p].pc = call[p].pc /\ (call[p].pc = "sync" => call[c].async)
         \/ ~call[c].async /\ call[p].pc = "sync" /\ call'[p].pc \in {"release", "resolved"}

LEMMA DeliverSteps ==
  ASSUME ShapeInv, PathInv, NEW c \in DOMAIN call, Deliver(c)
  PROVE  Delivers(c)
<1>1. call[c].pc = "deliver" /\ UNCHANGED <<permits, cause, result>>
  BY DEF Deliver
<1>2. DOMAIN call[c] = Fields /\ ~IsRoot(c) /\ (~call[c].async => call[Caller(c)].pc = "sync")
  BY <1>1 DEF PathInv, PathAt, CalleeAt, RootPcs, ShapeInv, ShapeAt
<1>3. Caller(c) \in DOMAIN call /\ Caller(c) # c /\ DOMAIN call[Caller(c)] = Fields
  BY <1>2, CallerShape, Zenon
<1> QED
  BY <1>1, <1>2, <1>3, DeliverMoves, Zenon DEF Delivers

\* A call makes another.
Starts(c) ==
  LET i == call[c].idx
      n == Append(c, i)
  IN  /\ call[c].pc = "start" /\ UNCHANGED <<permits, cause, result>>
      /\ n \notin DOMAIN call /\ Calls(c, i, n)

LEMMA StartSteps ==
  ASSUME ShapeInv, PathInv, NEW c \in DOMAIN call, StartRun(c), call[c].idx \in Nat
  PROVE  Starts(c)
<1> DEFINE n == Append(c, call[c].idx)
<1>1. call[c].pc = "start" /\ UNCHANGED <<permits, cause, result>>
  BY DEF StartRun
<1>2. c \in Seq(Nat) /\ c # <<>> /\ DOMAIN call[c] = Fields
  BY Zenon DEF ShapeInv, ShapeAt
<1>3. n # c /\ ~IsRoot(n) /\ Caller(n) = c /\ Index(n) = call[c].idx
  BY <1>2, CalleeOf, Zenon
<1>4. n \notin DOMAIN call
  <2>1. n \in DOMAIN call => call[c].idx < call[c].idx
    BY <1>1, <1>3, Zenon DEF PathInv, PathAt, CalleeAt
  <2> QED
    BY <2>1
<1> QED
  BY <1>1, <1>2, <1>3, <1>4, StartMoves, Zenon DEF Starts

\* No call changes.
Still ==
  /\ UNCHANGED <<permits, result, call>>
  /\ cause' = cause \/ \E r \in Runs : Cancel(r)

\* Every step is one of these.
LEMMA StepKinds ==
  ASSUME ShapeInv, PathInv, [Next]_vars, \A c \in DOMAIN call : call[c].idx \in Nat
  PROVE  \/ \E c \in DOMAIN call : Single(c) \/ Pair(c) \/ Delivers(c) \/ Starts(c)
         \/ Still
<1>1. ASSUME NEW r \in Runs, RootStep(r) PROVE <<r>> \in DOMAIN call /\ Single(<<r>>)
  BY <1>1, SingleRoots, Zenon DEF ShapeInv
<1>2. ASSUME NEW c \in DOMAIN call, ResolveStep(c) PROVE Single(c) \/ Starts(c)
  <2>1. call[c].idx \in Nat /\ call[c].idx \in Int
    OBVIOUS
  <2> QED
    BY <1>2, <2>1, SingleResolve, StartSteps, Zenon DEF ResolveStep
<1>3. ASSUME NEW c \in DOMAIN call, CallStep(c) PROVE Single(c) \/ Pair(c) \/ Delivers(c)
  <2>1. Reacquire(c) => ~call[c].async
    BY DEF Reacquire, PathInv, PathAt, CalleeAt, RootPcs
  <2>2. UnwindSync(c) => ~call[c].async
    BY DEF UnwindSync
  <2> QED
    BY <1>3, <2>1, <2>2, SingleLead, SingleWait, SingleAsync, PairSteps, DeliverSteps, Zenon DEF CallStep
<1>4. EvictLock \/ EvictTasks \/ EvictLookup => Still
  BY Zenon DEF EvictLock, EvictTasks, EvictLookup, Still
<1>5. (\E r \in Runs : Cancel(r)) => Still
  BY Zenon DEF Cancel, Still
<1>6. UNCHANGED vars => Still
  BY DEF Still, vars
<1> QED
  BY <1>1, <1>2, <1>3, <1>4, <1>5, <1>6, Zenon DEF Next, Step, Finished

-----------------------------------------------------------------------------
(* The tree of calls is preserved.                                         *)

LEMMA ShapeKept ==
  ASSUME ShapeInv, DOMAIN call' = DOMAIN call,
         \A d \in DOMAIN call : /\ DOMAIN call'[d] = Fields /\ call'[d].async = call[d].async
                                /\ call'[d].holding \in BOOLEAN
  PROVE  ShapeInv'
  BY Zenon DEF ShapeInv, ShapeAt

LEMMA SingleShape ==
  ASSUME ShapeInv, NEW c \in DOMAIN call, Single(c)
  PROVE  ShapeInv'
<1>1. call'[c].holding \in BOOLEAN
  BY Zenon DEF Single, Spends, Keeps, Takes, Gives, ShapeInv, ShapeAt
<1> QED
  BY <1>1, ShapeKept, Zenon DEF Single, Alone, Same, ShapeInv, ShapeAt

LEMMA SinglePath ==
  ASSUME ShapeInv, PathInv, \A d \in DOMAIN call : call[d].idx \in Nat,
         NEW c \in DOMAIN call, Single(c), call'[c].idx \in Int
  PROVE  PathInv'
<1>0. /\ Alone(c) /\ Goes(c, call[c].pc, call'[c].pc)
      /\ Spends(c, call[c].pc, call'[c].pc) /\ PathAt(c)
  BY Zenon DEF Single, PathInv
<1>1. PathAt(c)'
  <2>1. call'[c].holding => call'[c].pc \in HoldPcs
    BY <1>0, Zenon DEF Spends, Keeps, Takes, Gives, PathAt
  <2>2. ASSUME ~IsRoot(c) PROVE CalleeAt(c)'
    <3>1. Same(Caller(c)) /\ CalleeAt(c)
      BY <1>0, <2>2, CallerShape, Zenon DEF Alone, PathAt
    <3> QED
      BY <1>0, <2>2, <3>1 DEF Same, Alone, CalleeAt, Goes
  <2> QED
    BY <1>0, <2>1, <2>2, Zenon DEF PathAt, Goes
<1>2. ASSUME NEW d \in DOMAIN call, d # c PROVE PathAt(d)'
  <2>1. Same(d) /\ PathAt(d)
    BY <1>0, <1>2, Zenon DEF Alone, PathInv
  <2>2. ASSUME ~IsRoot(d), Caller(d) # c PROVE CalleeAt(d)'
    <3>1. Same(Caller(d))
      BY <1>0, <2>2, CallerShape, Zenon DEF Alone
    <3> QED
      BY <2>1, <2>2, <3>1, Zenon DEF PathAt, CalleeAt, Same
  <2>3. ASSUME ~IsRoot(d), Caller(d) = c PROVE CalleeAt(d)'
    <3>1. d \in Seq(Nat) /\ Index(d) \in Nat /\ call[c].idx \in Nat
      BY <2>3, CallerOf, Zenon DEF ShapeInv, ShapeAt
    <3>2. /\ call[c].pc \notin Early /\ (call[c].pc = "start" => call[c].idx < Index(d))
          /\ call[c].pc # "sync"
      BY <1>0, <2>1, <2>3, Zenon DEF PathAt, CalleeAt, Goes
    <3>3. call'[c].pc \notin Early /\ (call'[c].pc = "start" => call'[c].idx < Index(d))
      BY <1>0, <3>1, <3>2 DEF Goes
    <3> QED
      BY <2>1, <2>3, <3>2, <3>3, Zenon DEF PathAt, CalleeAt, Same, Borrowed
  <2> QED
    BY <2>1, <2>2, <2>3, Zenon DEF PathAt, Same
<1> QED
  BY <1>0, <1>1, <1>2, Zenon DEF PathInv, Alone

LEMMA PairShape ==
  ASSUME ShapeInv, NEW c \in DOMAIN call, Pair(c)
  PROVE  ShapeInv' /\ Caller(c) \in DOMAIN call /\ Caller(c) # c
<1>1. Caller(c) \in DOMAIN call /\ Caller(c) # c
  BY CallerShape, Zenon DEF Pair
<1>2. call'[c].holding \in BOOLEAN /\ call'[Caller(c)].holding \in BOOLEAN
  BY <1>1, Zenon DEF Pair, ShapeInv, ShapeAt
<1> QED
  BY <1>1, <1>2, ShapeKept, Zenon DEF Pair, Couple, ShapeInv, ShapeAt

LEMMA PairPath ==
  ASSUME ShapeInv, PathInv, NEW c \in DOMAIN call, Pair(c)
  PROVE  PathInv'
<1> DEFINE p == Caller(c)
<1>0. /\ p \in DOMAIN call /\ p # c /\ ~IsRoot(c) /\ ~call[c].async /\ Couple(c)
      /\ PathAt(c) /\ CalleeAt(c) /\ PathAt(p)
  BY PairShape, Zenon DEF Pair, PathInv, PathAt
<1>a. /\ call[c].pc \in {"cas", "unwind", "check", "reacquire"}
      /\ call'[c].pc \in {"execute", "settle", "wait", "reload"}
      /\ call[c].pc # "unwind" => call[c].pc \in Early
      /\ call[c].pc = "unwind" => call'[c].pc = "settle"
      /\ call[p].pc = "sync"
  BY <1>0 DEF Pair, CalleeAt, Early
<1>1. PathAt(c)'
  <2>1. call'[c].holding => call'[c].pc \in HoldPcs
    BY <1>0, Zenon DEF Pair, PathAt, HoldPcs
  <2>2. CalleeAt(c)'
    BY <1>0, <1>a DEF Pair, Couple, CalleeAt, Borrowed
  <2> QED
    BY <1>0, <2>1, <2>2, Zenon DEF PathAt
<1>2. ASSUME NEW d \in DOMAIN call, ~IsRoot(d), d # c PROVE CalleeAt(d)'
  <2>1. /\ Caller(d) \in DOMAIN call /\ CalleeAt(d)
        /\ call'[d].pc = call[d].pc /\ call'[d].async = call[d].async
    BY <1>0, <1>2, CallerShape, Zenon DEF PathInv, PathAt, Couple
  <2>2. CASE Caller(d) # c /\ Caller(d) # p
    BY <1>0, <2>1, <2>2, Zenon DEF CalleeAt, Couple
  <2>3. CASE Caller(d) = c
    <3>1. call[c].pc = "unwind" /\ call'[c].pc = "settle"
      BY <1>a, <2>1, <2>3, Zenon DEF CalleeAt
    <3> QED
      BY <2>1, <2>3, <3>1, Zenon DEF CalleeAt, Early, Borrowed
  <2>4. CASE Caller(d) = p
    <3>1. call[d].async
      BY <1>0, <1>2, <2>4, OneSync, Zenon
    <3>2. call'[p].pc = call[p].pc /\ call'[p].idx = call[p].idx
      BY <1>0, Zenon DEF Couple, Listless
    <3> QED
      BY <2>1, <2>4, <3>1, <3>2, Zenon DEF CalleeAt
  <2> QED
    BY <2>2, <2>3, <2>4
<1>3. ASSUME NEW d \in DOMAIN call, d # c PROVE PathAt(d)'
  <2>1. /\ call'[d].pc = call[d].pc /\ PathAt(d)
        /\ call'[d].holding => call[d].holding \/ call'[d].pc \in HoldPcs
    BY <1>0, <1>a, <1>3, Zenon DEF Couple, PathInv, HoldPcs
  <2> QED
    BY <1>2, <1>3, <2>1, Zenon DEF PathAt
<1> QED
  BY <1>0, <1>1, <1>3, Zenon DEF PathInv, Couple

LEMMA DeliverShape ==
  ASSUME ShapeInv, NEW c \in DOMAIN call, Delivers(c)
  PROVE  ShapeInv' /\ Caller(c) \in DOMAIN call /\ Caller(c) # c
<1>1. Caller(c) \in DOMAIN call /\ Caller(c) # c
  BY CallerShape, Zenon DEF Delivers
<1> QED
  BY <1>1, ShapeKept, Zenon DEF Delivers, Like, ShapeInv, ShapeAt

LEMMA DeliverPath ==
  ASSUME ShapeInv, PathInv, NEW c \in DOMAIN call, Delivers(c)
  PROVE  PathInv'
<1> DEFINE p == Caller(c)
<1>0. /\ p \in DOMAIN call /\ p # c /\ ~IsRoot(c) /\ PathAt(c) /\ CalleeAt(c) /\ PathAt(p)
      /\ call[c].pc = "deliver" /\ call'[c].pc = "gone"
      /\ DOMAIN call' = DOMAIN call
      /\ \A d \in DOMAIN call : d # c /\ d # p => call'[d] = call[d]
      /\ Like(call'[c], call[c]) /\ Like(call'[p], call[p])
      /\ \/ call'[p].pc = call[p].pc
         \/ ~call[c].async /\ call[p].pc = "sync" /\ call'[p].pc \in {"release", "resolved"}
  BY DeliverShape, Zenon DEF Delivers, PathInv, PathAt
<1>1. PathAt(c)'
  <2>1. ~call'[c].holding
    BY <1>0, Zenon DEF Like, PathAt, HoldPcs
  <2>2. CalleeAt(c)'
    BY <1>0, Zenon DEF Like, CalleeAt, Early, Borrowed
  <2> QED
    BY <1>0, <2>1, <2>2, Zenon DEF PathAt
<1>2. ASSUME NEW d \in DOMAIN call, ~IsRoot(d), d # c, d # p PROVE CalleeAt(d)'
  <2>1. Caller(d) \in DOMAIN call /\ CalleeAt(d) /\ call'[d] = call[d]
    BY <1>0, <1>2, CallerShape, Zenon DEF PathInv, PathAt
  <2>2. CASE Caller(d) # c /\ Caller(d) # p
    BY <1>0, <2>1, <2>2, Zenon DEF CalleeAt
  <2>3. CASE Caller(d) = c
    BY <1>0, <2>1, <2>3, Zenon DEF CalleeAt, Early, Borrowed
  <2>4. CASE Caller(d) = p
    <3>1. ~call[c].async => call[d].async
      BY <1>0, <1>2, <2>4, OneSync, Zenon
    <3>2. call'[p].idx = call[p].idx /\ call'[p].holding = call[p].holding
      BY <1>0, Zenon DEF Like
    <3>3. CASE call'[p].pc = call[p].pc
      BY <2>1, <2>4, <3>2, <3>3, Zenon DEF CalleeAt
    <3>4. CASE ~call[c].async /\ call'[p].pc \in {"release", "resolved"}
      BY <2>1, <2>4, <3>1, <3>2, <3>4, Zenon DEF CalleeAt, Early
    <3> QED
      BY <1>0, <3>3, <3>4
  <2> QED
    BY <2>2, <2>3, <2>4
<1>3. PathAt(p)'
  <2>1. CASE call'[p].pc = call[p].pc
    <3>1. ASSUME ~IsRoot(p) PROVE CalleeAt(p)'
      <4>1. Caller(p) \in DOMAIN call /\ Caller(p) # p /\ CalleeAt(p)
        BY <1>0, <3>1, CallerShape, Zenon DEF PathAt
      <4>2. CASE Caller(p) # c
        BY <1>0, <2>1, <4>1, <4>2, Zenon DEF CalleeAt, Like
      <4>3. CASE Caller(p) = c
        BY <1>0, <2>1, <4>1, <4>3, Zenon DEF CalleeAt, Like, Early, Borrowed
      <4> QED
        BY <4>2, <4>3
    <3> QED
      BY <1>0, <2>1, <3>1, Zenon DEF PathAt, Like
  <2>2. CASE call[p].pc = "sync" /\ call'[p].pc \in {"release", "resolved"}
    <3>1. ASSUME ~IsRoot(p) PROVE CalleeAt(p)'
      <4>1. Caller(p) \in DOMAIN call /\ Caller(p) # p /\ CalleeAt(p)
        BY <1>0, <3>1, CallerShape, Zenon DEF PathAt
      <4>2. Caller(p) # c => call'[Caller(p)] = call[Caller(p)]
        BY <1>0, <4>1, Zenon
      <4>3. Caller(p) = c => call[p].async
        BY <1>0, <2>2, <4>1, Zenon DEF CalleeAt
      <4>4. /\ Caller(p) = c => call'[Caller(p)].pc \notin Early /\ call'[Caller(p)].pc # "start"
            /\ call'[p].async = call[p].async
        BY <1>0, Zenon DEF Early, Like
      <4>5. call'[p].pc \notin {"idle", "rootAcquire", "lead", "reacquire", "gone"} /\ "sync" \in Borrowed
        BY <2>2 DEF Borrowed
      <4> QED
        BY <2>2, <4>1, <4>2, <4>3, <4>4, <4>5, Zenon DEF CalleeAt
    <3> QED
      BY <1>0, <2>2, <3>1, Zenon DEF PathAt, Like, HoldPcs, RootPcs
  <2> QED
    BY <1>0, <2>1, <2>2
<1> QED
  <2>1. ASSUME NEW d \in DOMAIN call, d # c, d # p PROVE PathAt(d)'
    BY <1>0, <1>2, <2>1, Zenon DEF PathAt, PathInv
  <2> QED
    BY <1>0, <1>1, <1>3, <2>1, Zenon DEF PathInv

LEMMA StartShape ==
  ASSUME ShapeInv, NEW c \in DOMAIN call, call[c].idx \in Nat, Starts(c)
  PROVE  ShapeInv'
<1> SUFFICES ASSUME NEW i \in Nat, i = call[c].idx, NEW n, n = Append(c, i)
             PROVE  ShapeInv'
  BY Zenon
<1>1. /\ DOMAIN call' = DOMAIN call \cup {n} /\ n \notin DOMAIN call
      /\ \A d \in DOMAIN call : d # c => call'[d] = call[d]
      /\ DOMAIN call'[c] = Fields /\ call'[c].async = call[c].async
      /\ call'[c].holding = call[c].holding
      /\ New(call'[n], call[c].todo[i], i)
  BY Zenon DEF Starts, Calls, Steady
<1>2. c \in Seq(Nat) /\ c # <<>> /\ RunOf(c) \in Runs
  BY Zenon DEF ShapeInv, ShapeAt
<1>3. /\ n \in Seq(Nat) /\ n # <<>> /\ ~IsRoot(n) /\ Caller(n) = c /\ Index(n) = i
      /\ RunOf(n) = RunOf(c)
  BY <1>2, CalleeOf, Zenon
<1>4. ShapeAt(n)'
  <2>1. /\ DOMAIN call'[n] = Fields /\ call'[n].holding = FALSE /\ (call'[n].async <=> i # 1)
        /\ call'[n].async \in BOOLEAN
    BY <1>1, Zenon DEF New
  <2> QED
    BY <1>1, <1>2, <1>3, <2>1, Zenon DEF ShapeAt
<1>5. ASSUME NEW d \in DOMAIN call PROVE ShapeAt(d)'
  BY <1>1, Zenon DEF ShapeInv, ShapeAt
<1> QED
  BY <1>1, <1>4, <1>5, Zenon DEF ShapeInv

LEMMA StartPath ==
  ASSUME ShapeInv, PathInv, \A d \in DOMAIN call : call[d].idx \in Nat,
         NEW c \in DOMAIN call, Starts(c)
  PROVE  PathInv'
<1> SUFFICES ASSUME NEW i \in Nat, i = call[c].idx, NEW n, n = Append(c, i)
             PROVE  PathInv'
  BY Zenon
<1>1. /\ DOMAIN call' = DOMAIN call \cup {n} /\ n \notin DOMAIN call
      /\ \A d \in DOMAIN call : d # c => call'[d] = call[d]
      /\ call'[c].async = call[c].async /\ call'[c].holding = call[c].holding
      /\ call[c].pc = "start" /\ call'[c].idx = i - 1
      /\ call'[c].pc = (IF i = 1 THEN "sync" ELSE "start")
      /\ New(call'[n], call[c].todo[i], i)
  BY Zenon DEF Starts, Calls, Steady
<1>2. c \in Seq(Nat) /\ c # <<>> /\ i \in Nat /\ PathAt(c)
  BY Zenon DEF ShapeInv, ShapeAt, PathInv
<1>3. ~IsRoot(n) /\ Caller(n) = c /\ Index(n) = i /\ n # c
  BY <1>2, CalleeOf, Zenon
<1>a. /\ call'[c].pc \in {"sync", "start"} /\ (i = 1 => call'[c].pc = "sync")
      /\ i - 1 < i /\ \A j \in Nat : i < j => i - 1 < j
  BY <1>1, <1>2
<1>4. PathAt(n)'
  <2>1. call'[n].holding = FALSE /\ (call'[n].async <=> i # 1) /\ call'[n].pc = "load"
    BY <1>1, Zenon DEF New
  <2>2. CalleeAt(n)'
    BY <1>1, <1>3, <1>a, <2>1, Zenon DEF CalleeAt, Early, Borrowed
  <2> QED
    BY <1>3, <2>1, <2>2, Zenon DEF PathAt
<1>5. PathAt(c)'
  <2>1. ASSUME ~IsRoot(c) PROVE CalleeAt(c)'
    <3>1. Caller(c) \in DOMAIN call /\ Caller(c) # c /\ CalleeAt(c)
      BY <1>2, <2>1, CallerShape, Zenon DEF PathAt
    <3> QED
      BY <1>1, <1>a, <3>1, Zenon DEF CalleeAt, Borrowed
  <2> QED
    BY <1>1, <1>2, <1>a, <2>1, Zenon DEF PathAt, HoldPcs, RootPcs
<1>6. ASSUME NEW d \in DOMAIN call, d # c PROVE PathAt(d)'
  <2>1. ASSUME ~IsRoot(d) PROVE CalleeAt(d)'
    <3>1. Caller(d) \in DOMAIN call /\ CalleeAt(d) /\ Index(d) \in Nat
      BY <2>1, CallerShape, CallerOf, Zenon DEF PathInv, PathAt, ShapeInv, ShapeAt
    <3>2. CASE Caller(d) # c
      BY <1>1, <1>6, <3>1, <3>2, Zenon DEF CalleeAt
    <3>3. CASE Caller(d) = c
      <4>1. call[c].idx < Index(d)
        BY <1>1, <3>1, <3>3, Zenon DEF CalleeAt
      <4>2. call'[c].idx < Index(d)
        BY <1>1, <1>a, <3>1, <4>1, Zenon
      <4> QED
        BY <1>1, <1>6, <1>a, <3>1, <3>3, <4>2, Zenon DEF CalleeAt, Early, Borrowed
    <3> QED
      BY <3>2, <3>3
  <2> QED
    BY <1>1, <1>6, <2>1, Zenon DEF PathInv, PathAt
<1> QED
  BY <1>1, <1>4, <1>5, <1>6, Zenon DEF PathInv

-----------------------------------------------------------------------------
(* The tasks.                                                              *)

\* The evictions that are over, each of which makes room for one more task of
\* a key.
Rounds == IF evict.at = "idle" THEN evict.count ELSE evict.count - 1

MapInv ==
  /\ DOMAIN evict = {"at", "keys", "found", "count"} /\ evict.count \in 0..MaxEvicts
  /\ evict.at # "idle" => evict.count # 0
  /\ DOMAIN tasks = Queries /\ DOMAIN made = Queries
  /\ \A q \in Queries : /\ made[q] \in Nat /\ tasks[q] \in 0..made[q]
                        /\ made[q] <= Rounds + (IF tasks[q] = 0 THEN 0 ELSE 1)

\* How far Resolve is in its two loops.
TodoAt(c) ==
  /\ call[c].idx \in Nat /\ call[c].todo \in Seq(Obj) /\ (~IsRoot(c) => call[c].obj \in Obj)
  /\ call[c].pc \in Early \ {"register"} => call[c].idx = 1 /\ call[c].todo = <<>>
  /\ call[c].pc = "register" =>
       call[c].idx = Len(call[c].todo) + 1 /\ Len(call[c].todo) <= Len(Wanted(c))
  /\ call[c].pc = "start" => call[c].idx \in 1..Len(call[c].todo)

TodoInv == \A c \in DOMAIN call : TodoAt(c)

LEMMA RoundsBound ==
  ASSUME MapInv
  PROVE  Rounds \in Nat /\ Rounds <= MaxEvicts
  BY EvictAssumption DEF MapInv, Rounds

LEMMA TaskOfObj ==
  ASSUME MapInv, NEW q \in Queries
  PROVE  TaskOf(q) \in Obj
<1>1. /\ made[q] \in Nat /\ tasks[q] \in 0..made[q]
      /\ made[q] <= Rounds + (IF tasks[q] = 0 THEN 0 ELSE 1)
  BY Zenon DEF MapInv
<1>2. (IF tasks[q] = 0 THEN made[q] + 1 ELSE tasks[q]) \in 1..MaxEvicts + 1
  BY <1>1, RoundsBound, EvictAssumption
<1> QED
  BY <1>2, Zenon DEF TaskOf, Obj

LEMMA WantedSeq ==
  ASSUME program \in Programs, ShapeInv, NEW c \in DOMAIN call, ~IsRoot(c) => call[c].obj \in Obj
  PROVE  Wanted(c) \in Seq(Queries)
<1>1. CASE IsRoot(c)
  <2>1. c[1] \in 1..Len(Asked)
    BY Zenon DEF ShapeInv, ShapeAt, RunOf, Runs
  <2>2. Asked[c[1]] \in Seq(Queries)
    BY <2>1, AskedAssumption
  <2> QED
    BY <1>1, <2>2, Zenon DEF Wanted
<1>2. CASE ~IsRoot(c)
  <2>1. program.deps \in [Queries -> Seq(Queries)]
    BY ProgramsAssumption DEF Program
  <2>2. call[c].obj[1] \in Queries
    BY <1>2 DEF Obj
  <2> QED
    BY <1>2, <2>1, <2>2, Zenon DEF Wanted
<1> QED
  BY <1>1, <1>2

\* What leaves the map of tasks alone.
LEMMA MapActions ==
  ASSUME [Next]_vars
  PROVE  /\ program' = program
         /\ \/ UNCHANGED <<tasks, made, evict>>
            \/ \E c \in DOMAIN call : Register(c)
            \/ EvictLookup \/ EvictLock \/ EvictTasks
<1>1. ASSUME NEW r \in Runs, RootStep(r) PROVE UNCHANGED <<program, tasks, made, evict>>
  BY <1>1, Zenon DEF RootStep, RunStart, RootAcquire, RootAcquireFails, RunReturn
<1>2. ASSUME NEW c, ResolveStep(c), ~Register(c) PROVE UNCHANGED <<program, tasks, made, evict>>
  BY <1>2, Zenon
     DEF ResolveStep, Registered, StartCached, StartRun, ReleaseToJoin, Joined, JoinCancelled, Rejoin
<1>3. ASSUME NEW c, CallStep(c) PROVE UNCHANGED <<program, tasks, made, evict>>
  BY <1>3, Zenon
     DEF CallStep, Load, Lead, LoseLead, LoadLeader, LeadAcquire, LeadAcquireFails, Execute,
         ExecuteReturn, ExecutePanic, UnwindAsync, UnwindSync, Settle, CycleFound, CycleVisit,
         NoCycle, WaitOver, Reacquire, ReacquireFails, Reload, Deliver
<1>4. UNCHANGED vars => UNCHANGED <<program, tasks, made, evict>>
  BY Zenon DEF vars
<1>5. (\E r \in Runs : Cancel(r)) => UNCHANGED <<program, tasks, made, evict>>
  BY Zenon DEF Cancel
<1>6. EvictLookup \/ EvictLock \/ EvictTasks \/ (\E c \in DOMAIN call : Register(c)) => program' = program
  BY Zenon DEF EvictLookup, EvictLock, EvictTasks, Register
<1> QED
  BY <1>1, <1>2, <1>3, <1>4, <1>5, <1>6, Zenon DEF Next, Step

LEMMA MapKept ==
  ASSUME MapInv, ShapeInv, TodoInv, program \in Programs, [Next]_vars
  PROVE  MapInv'
<1>1. CASE UNCHANGED <<tasks, made, evict>>
  BY <1>1 DEF MapInv, Rounds
<1>2. ASSUME NEW c \in DOMAIN call, Register(c) PROVE MapInv'
  <2>1. PICK q : q = Wanted(c)[call[c].idx]
    OBVIOUS
  <2>2. /\ call[c].idx \in 1..Len(Wanted(c)) /\ Wanted(c) \in Seq(Queries)
    BY <1>2, WantedSeq DEF Register, TodoInv, TodoAt
  <2>3. q \in Queries
    BY <2>1, <2>2
  <2>4. PICK n : n = IF tasks[q] = 0 THEN made[q] + 1 ELSE tasks[q]
    OBVIOUS
  <2>5. /\ tasks' = [tasks EXCEPT ![q] = n]
        /\ made' = [made EXCEPT ![q] = IF n > @ THEN n ELSE @] /\ evict' = evict
    BY <1>2, <2>1, <2>4, Zenon DEF Register, TaskOf
  <2> QED
    BY <2>3, <2>4, <2>5, RoundsBound DEF MapInv, Rounds
<1>3. CASE EvictLookup
  BY <1>3, EvictAssumption DEF EvictLookup, MapInv, Rounds
<1>4. CASE EvictLock
  BY <1>4 DEF EvictLock, MapInv, Rounds
<1>5. CASE EvictTasks
  <2>1. /\ evict.at = "lock" /\ made' = made
        /\ evict' = [evict EXCEPT !.at = "idle", !.keys = {}, !.found = {}]
        /\ DOMAIN tasks' = Queries /\ \A q \in Queries : tasks'[q] = 0 \/ tasks'[q] = tasks[q]
    BY <1>5, Zenon DEF EvictTasks
  <2>2. evict'.at = "idle" /\ evict'.count = evict.count /\ DOMAIN evict' = DOMAIN evict
    BY <2>1, Zenon DEF MapInv
  <2>3. Rounds' = Rounds + 1 /\ Rounds \in Nat
    BY <2>1, <2>2, RoundsBound, EvictAssumption DEF Rounds, MapInv
  <2> QED
    BY <2>1, <2>2, <2>3 DEF MapInv
<1> QED
  BY <1>1, <1>2, <1>3, <1>4, <1>5, MapActions, Zenon

\* A step that leaves the list of a call alone.
LEMMA TodoQuiet ==
  ASSUME NEW c \in DOMAIN call, TodoAt(c), Wanted(c) \in Seq(Queries), program' = program,
         call'[c].obj = call[c].obj, Listless(c),
         \/ call'[c].pc = call[c].pc
         \/ call'[c].pc # "start" /\ (call'[c].pc \in Early => call[c].pc \in Early \ {"register"})
  PROVE  TodoAt(c)'
<1>1. Wanted(c)' = Wanted(c)
  BY Zenon DEF Wanted
<1>2. call'[c].idx = call[c].idx /\ call'[c].todo = call[c].todo
  BY DEF Listless
<1>3. CASE call'[c].pc = call[c].pc
  BY <1>1, <1>2, <1>3, Zenon DEF TodoAt
<1>4. CASE call'[c].pc # "start" /\ (call'[c].pc \in Early => call[c].pc \in Early \ {"register"})
  <2>1. call'[c].pc \in Early => call[c].idx = 1 /\ call[c].todo = <<>>
    BY <1>4, Zenon DEF TodoAt
  <2>2. 1 = Len(<<>>) + 1 /\ Len(<<>>) <= Len(Wanted(c)) /\ "register" \in Early
    BY DEF Early
  <2> QED
    BY <1>1, <1>2, <1>4, <2>1, <2>2, Zenon DEF TodoAt
<1> QED
  BY <1>3, <1>4

\* The two loops of Resolve.
LEMMA TodoLoops ==
  ASSUME ShapeInv, MapInv, program \in Programs, program' = program, NEW c \in DOMAIN call, TodoAt(c),
         Register(c) \/ Registered(c) \/ StartCached(c)
  PROVE  TodoAt(c)'
<1>0. /\ DOMAIN call[c] = Fields /\ Wanted(c) \in Seq(Queries)
  BY WantedSeq, Zenon DEF ShapeInv, ShapeAt, TodoAt
<1>1. ASSUME call'[c].obj = call[c].obj PROVE Wanted(c)' = Wanted(c)
  BY <1>1, Zenon DEF Wanted
<1>2. CASE Register(c)
  <2>1. /\ call'[c].obj = call[c].obj /\ call'[c].pc = "register"
        /\ call'[c].idx = call[c].idx + 1
        /\ call'[c].todo = Append(call[c].todo, TaskOf(Wanted(c)[call[c].idx]))
        /\ call[c].pc = "register"
    BY <1>0, <1>2, RegisterAsks, Zenon DEF Touches, Register
  <2>2. call[c].idx <= Len(Wanted(c)) /\ call[c].idx = Len(call[c].todo) + 1
    BY <1>2, <2>1, Zenon DEF Register, TodoAt
  <2>3. Wanted(c)[call[c].idx] \in Queries
    BY <1>0, <2>2 DEF TodoAt
  <2>4. TaskOf(Wanted(c)[call[c].idx]) \in Obj
    BY <2>3, TaskOfObj, Zenon
  <2>5. PICK o \in Obj : call'[c].todo = Append(call[c].todo, o)
    BY <2>1, <2>4, Zenon
  <2>6. /\ call'[c].todo \in Seq(Obj) /\ Len(call'[c].todo) = Len(call[c].todo) + 1
        /\ call'[c].idx \in Nat /\ call'[c].idx = Len(call'[c].todo) + 1
        /\ Len(call'[c].todo) <= Len(Wanted(c))
    BY <1>0, <2>1, <2>2, <2>5 DEF TodoAt
  <2> QED
    BY <1>1, <2>1, <2>6 DEF TodoAt, Early
<1>3. CASE Registered(c)
  <2>1. /\ call'[c].obj = call[c].obj /\ call'[c].todo = call[c].todo
        /\ call'[c].idx = Len(Wanted(c)) /\ call[c].pc = "register"
        /\ call'[c].pc = (IF Wanted(c) = <<>> THEN "resolved" ELSE "start")
        /\ call[c].idx > Len(Wanted(c))
    BY <1>0, <1>3, OtherMoves, Zenon DEF Touches, Registered
  <2>2. /\ call[c].idx = Len(call[c].todo) + 1 /\ Len(call[c].todo) <= Len(Wanted(c))
        /\ call[c].todo \in Seq(Obj)
    BY <2>1, Zenon DEF TodoAt
  <2>3. /\ call'[c].idx \in Nat /\ call'[c].pc \in {"resolved", "start"}
        /\ call'[c].pc = "start" => call'[c].idx \in 1..Len(call[c].todo)
    BY <1>0, <2>1, <2>2
  <2> QED
    BY <2>1, <2>3 DEF TodoAt, Early
<1>4. CASE StartCached(c)
  <2>1. /\ call'[c].obj = call[c].obj /\ call'[c].todo = call[c].todo
        /\ call'[c].idx = call[c].idx - 1 /\ call[c].pc = "start"
        /\ call'[c].pc = AfterStart(call[c].idx, call[c].needWait)
    BY <1>0, <1>4, OtherMoves, Zenon DEF Touches, StartCached
  <2>2. call[c].idx \in 1..Len(call[c].todo) /\ call[c].todo \in Seq(Obj)
    BY <2>1, Zenon DEF TodoAt
  <2>3. /\ call'[c].idx \in Nat /\ call'[c].pc \in {"resolved", "start", "release"}
        /\ call'[c].pc = "start" => call'[c].idx \in 1..Len(call[c].todo)
    BY <2>1, <2>2 DEF AfterStart
  <2> QED
    BY <2>1, <2>3 DEF TodoAt, Early
<1> QED
  BY <1>2, <1>3, <1>4

LEMMA SingleTodo ==
  ASSUME ShapeInv, MapInv, TodoInv, program \in Programs, program' = program,
         NEW c \in DOMAIN call, Single(c)
  PROVE  TodoInv'
<1>0. /\ Alone(c) /\ Lists(c, call[c].pc, call'[c].pc) /\ DOMAIN call' = DOMAIN call
      /\ \A d \in DOMAIN call : TodoAt(d) /\ Wanted(d) \in Seq(Queries)
  BY WantedSeq, Zenon DEF Single, Alone, TodoInv, TodoAt
<1>1. ASSUME NEW d \in DOMAIN call, d # c PROVE TodoAt(d)'
  BY <1>0, <1>1, TodoQuiet, Zenon DEF Alone, Same, Listless
<1>2. TodoAt(c)'
  <2>1. CASE call'[c].todo = <<>> /\ call'[c].idx = call[c].idx /\ call'[c].pc = "unwind"
    BY <1>0, <2>1 DEF TodoAt, Alone, Early
  <2> QED
    BY <1>0, <2>1, TodoQuiet, TodoLoops, Zenon DEF Lists, Alone
<1> QED
  BY <1>0, <1>1, <1>2, Zenon DEF TodoInv

LEMMA OtherTodo ==
  ASSUME ShapeInv, TodoInv, program \in Programs, program' = program,
         NEW c \in DOMAIN call, Pair(c) \/ Delivers(c) \/ Starts(c)
  PROVE  TodoInv'
<1>0. \A d \in DOMAIN call : TodoAt(d) /\ Wanted(d) \in Seq(Queries)
  BY WantedSeq, Zenon DEF TodoInv, TodoAt
<1>1. ASSUME NEW d \in DOMAIN call, call'[d] = call[d] PROVE TodoAt(d)'
  BY <1>0, <1>1, TodoQuiet, Zenon DEF Listless
<1>2. CASE Pair(c)
  <2>1. Caller(c) \in DOMAIN call /\ Couple(c) /\ DOMAIN call' = DOMAIN call
    BY <1>2, PairShape, Zenon DEF Pair, Couple
  <2>2. call'[c].pc \in Early => call[c].pc \in Early \ {"register"}
    BY <1>2, Zenon DEF Pair, Early
  <2>3. call'[c].pc # "start"
    BY <1>2, Zenon DEF Pair
  <2>4. TodoAt(c)' /\ TodoAt(Caller(c))'
    BY <1>0, <2>1, <2>2, <2>3, TodoQuiet, Zenon DEF Couple
  <2> QED
    BY <1>1, <2>1, <2>4, Zenon DEF TodoInv, Couple
<1>3. CASE Delivers(c)
  <2>1. Caller(c) \in DOMAIN call /\ DOMAIN call' = DOMAIN call
    BY <1>3, DeliverShape, Zenon DEF Delivers
  <2>2. /\ call'[c].pc \notin Early /\ call'[c].pc # "start"
        /\ \/ call'[Caller(c)].pc = call[Caller(c)].pc
           \/ call'[Caller(c)].pc \notin Early /\ call'[Caller(c)].pc # "start"
    BY <1>3, Zenon DEF Delivers, Early
  <2>3. TodoAt(c)' /\ TodoAt(Caller(c))'
    BY <1>0, <1>3, <2>1, <2>2, TodoQuiet, Zenon DEF Delivers, Like, Listless
  <2> QED
    BY <1>1, <1>3, <2>1, <2>3, Zenon DEF TodoInv, Delivers
<1>4. CASE Starts(c)
  <2> SUFFICES ASSUME NEW i \in Nat, i = call[c].idx, NEW n, n = Append(c, i)
               PROVE  TodoInv'
    BY <1>0, Zenon DEF TodoAt
  <2>1. /\ DOMAIN call' = DOMAIN call \cup {n}
        /\ \A d \in DOMAIN call : d # c => call'[d] = call[d]
        /\ call'[c].obj = call[c].obj /\ call'[c].todo = call[c].todo
        /\ call[c].pc = "start" /\ call'[c].idx = i - 1
        /\ call'[c].pc = (IF i = 1 THEN "sync" ELSE "start")
        /\ New(call'[n], call[c].todo[i], i)
    BY <1>4, Zenon DEF Starts, Calls
  <2>2. call[c].todo \in Seq(Obj) /\ i \in 1..Len(call[c].todo)
    BY <1>0, <2>1, Zenon DEF TodoAt
  <2>a. i - 1 \in Nat /\ (i # 1 => i - 1 \in 1..Len(call[c].todo)) /\ {"sync", "start"} \cap Early = {}
    BY <2>2 DEF Early
  <2>b. call'[c].pc \in {"sync", "start"} /\ call'[c].pc # "register" /\ (call'[c].pc = "start" => i # 1)
    BY <2>1
  <2>3. TodoAt(c)'
    BY <1>0, <2>1, <2>2, <2>a, <2>b, Zenon DEF TodoAt
  <2>4. PICK o \in Obj : New(call'[n], o, i)
    BY <2>1, <2>2
  <2>5. /\ call'[n].obj \in Obj /\ call'[n].idx = 1 /\ call'[n].todo = <<>> /\ call'[n].pc = "load"
    BY <2>4, Zenon DEF New
  <2>6. TodoAt(n)'
    BY <2>5 DEF TodoAt, Early
  <2> QED
    BY <1>1, <2>1, <2>3, <2>6, Zenon DEF TodoInv
<1> QED
  BY <1>2, <1>3, <1>4

\* The tree of calls and the tasks they are for.
TreeInv == ShapeInv /\ PathInv /\ MapInv /\ TodoInv /\ program \in Programs

LEMMA TreeKept ==
  ASSUME TreeInv, [Next]_vars
  PROVE  TreeInv'
<1>1. program' = program /\ MapInv' /\ \A c \in DOMAIN call : call[c].idx \in Nat
  BY MapActions, MapKept, Zenon DEF TreeInv, TodoInv, TodoAt
<1>2. ASSUME NEW c \in DOMAIN call, Single(c) PROVE ShapeInv' /\ PathInv' /\ TodoInv'
  <2>1. ShapeInv' /\ TodoInv'
    BY <1>1, <1>2, SingleShape, SingleTodo, Zenon DEF TreeInv
  <2>2. call'[c].idx \in Nat
    BY <1>2, <2>1, Zenon DEF TodoInv, TodoAt, Single, Alone
  <2>3. call'[c].idx \in Int
    BY <2>2
  <2> QED
    BY <1>1, <1>2, <2>1, <2>3, SinglePath, Zenon DEF TreeInv
<1>3. ASSUME NEW c \in DOMAIN call, Pair(c) \/ Delivers(c) \/ Starts(c)
      PROVE  ShapeInv' /\ PathInv' /\ TodoInv'
  BY <1>1, <1>3, PairShape, PairPath, DeliverShape, DeliverPath, StartShape, StartPath, OtherTodo, Zenon
     DEF TreeInv
<1>4. CASE Still
  <2>1. call' = call
    BY <1>4 DEF Still
  <2>2. ShapeInv' /\ PathInv'
    BY <2>1, Zenon DEF TreeInv, ShapeInv, ShapeAt, PathInv, PathAt, CalleeAt
  <2>3. TodoInv'
    BY <1>1, <2>1, Zenon DEF TreeInv, TodoInv, TodoAt, Wanted
  <2> QED
    BY <1>1, <2>2, <2>3, Zenon DEF TreeInv
<1> QED
  BY <1>1, <1>2, <1>3, <1>4, StepKinds, Zenon DEF TreeInv

==============================================================================
