--------------------------- MODULE IncrementalProofs ---------------------------
(***************************************************************************)
(* Machine-checked theorems about Incremental, for every set of queries,   *)
(* every program, every number of Runs and every parallelism.              *)
(***************************************************************************)
EXTENDS IncrementalSteps, FiniteSetTheorems

-----------------------------------------------------------------------------
(* Holds.                                                                  *)

\* A Task whose context is not done has its hold where it needs one, unless
\* the call it runs has taken it.
HoldAt(c) ==
  ~Cancelled(c) /\ call[c].pc \in HoldPcs =>
    \/ call[c].holding
    \/ /\ call[c].pc = "sync" /\ Append(c, 1) \in DOMAIN call
       /\ call[Append(c, 1)].pc \in Borrowed

HoldInv == \A c \in DOMAIN call : HoldAt(c)

CauseInv == cause \in [Runs -> {"nil", "cancel", "panic"}]

\* A context that is done stays done.
Expires == \A r \in Runs : cause[r] # "nil" => cause'[r] # "nil"

LEMMA AbortNever ==
  ASSUME CauseInv, NEW c, RunOf(c) \in Runs, NEW bad \in BOOLEAN, ~Cancelled(c) => ~bad
  PROVE  AbortIf(c, bad) = cause
  BY DEF CauseInv, AbortIf, Cancelled

LEMMA SingleCause ==
  ASSUME ShapeInv, PathInv, CauseInv, HoldInv, NEW c \in DOMAIN call, Single(c)
  PROVE  CauseInv' /\ Expires
<1>0. /\ RunOf(c) \in Runs /\ call[c].holding \in BOOLEAN /\ Spends(c, call[c].pc, call'[c].pc)
      /\ call[c].pc # "sync" /\ HoldAt(c) /\ PathAt(c)
  BY Zenon DEF ShapeInv, ShapeAt, Single, Goes, HoldInv, PathInv
<1>1. CASE cause' = cause
  BY <1>1, Zenon DEF CauseInv, Expires
<1>2. CASE Settle(c)
  <2>1. cause' = [cause EXCEPT ![RunOf(c)] = IF call[c].panicking /\ @ = "nil" THEN "panic" ELSE @]
    BY <1>2, Zenon DEF Settle
  <2> QED
    BY <1>0, <2>1 DEF CauseInv, Expires
<1>3. CASE Takes(c, call[c].pc, call'[c].pc)
  <2>1. ~call[c].holding /\ cause' = AbortIf(c, call[c].holding)
    BY <1>0, <1>3, Zenon DEF Takes, PathAt
  <2>2. cause' = cause
    BY <1>0, <2>1, AbortNever, Zenon
  <2> QED
    BY <1>1, <2>2
<1>4. CASE Gives(c, call[c].pc, call'[c].pc)
  <2>1. ~Cancelled(c) => call[c].holding
    BY <1>0, <1>4, Zenon DEF Gives, HoldAt
  <2>2. CASE cause' = AbortIf(c, ~call[c].holding)
    <3>1. (~call[c].holding) \in BOOLEAN
      BY <1>0
    <3>2. cause' = cause
      BY <1>0, <2>1, <2>2, <3>1, AbortNever, Zenon
    <3> QED
      BY <1>1, <3>2
  <2>3. ASSUME NEW r \in Runs, c = <<r>>, RunReturn(r) PROVE CauseInv' /\ Expires
    <3>1. /\ call[c].holding \/ cause[r] # "nil"
      BY <2>1, <2>3 DEF Cancelled, RunOf
    <3>2. cause' = [cause EXCEPT ![r] = IF @ # "nil" THEN @ ELSE IF call[c].holding THEN "cancel" ELSE "abort"]
      BY <2>3, Zenon DEF RunReturn
    <3> QED
      BY <3>1, <3>2 DEF CauseInv, Expires
  <2> QED
    BY <1>4, <2>2, <2>3, Zenon DEF Gives
<1> QED
  BY <1>0, <1>1, <1>2, <1>3, <1>4, Zenon DEF Spends, Keeps

\* What a call on its caller's goroutine knows of the holds of both.
LEMMA PairHolds ==
  ASSUME ShapeInv, PathInv, HoldInv, NEW c \in DOMAIN call, Pair(c)
  PROVE  /\ call[Caller(c)].pc = "sync" /\ (Cancelled(Caller(c)) <=> Cancelled(c))
         /\ call[c].pc \in Borrowed => ~call[Caller(c)].holding
         /\ call[c].pc \in HoldPcs /\ ~Cancelled(c) => call[c].holding
         /\ call[c].pc \notin Borrowed /\ ~Cancelled(c) => call[Caller(c)].holding
<1> DEFINE p == Caller(c)
<1>1. /\ p \in DOMAIN call /\ ~IsRoot(c) /\ ~call[c].async /\ RunOf(p) = RunOf(c)
      /\ c = Append(p, Index(c)) /\ Index(c) = 1 /\ CalleeAt(c) /\ HoldAt(p) /\ HoldAt(c)
  BY CallerShape, Zenon DEF Pair, PathInv, PathAt, HoldInv, ShapeInv, ShapeAt
<1>2. c = Append(p, 1)
  BY <1>1, Zenon
<1>3. call[c].pc \notin {"gone", "sync"} /\ "sync" \in HoldPcs
  BY DEF Pair, HoldPcs
<1>4. call[p].pc = "sync" /\ (Cancelled(p) <=> Cancelled(c))
  BY <1>1, <1>3, Zenon DEF CalleeAt, Cancelled
<1> HIDE DEF p
<1> QED
  BY <1>1, <1>2, <1>3, <1>4, Zenon DEF CalleeAt, HoldAt, p

LEMMA PairCause ==
  ASSUME ShapeInv, PathInv, CauseInv, HoldInv, NEW c \in DOMAIN call, Pair(c)
  PROVE  cause' = cause
<1> DEFINE p == Caller(c)
<1>0. /\ RunOf(c) \in Runs /\ RunOf(p) \in Runs
      /\ call[c].holding \in BOOLEAN /\ call[p].holding \in BOOLEAN
      /\ (~call[c].holding) \in BOOLEAN /\ (~call[p].holding) \in BOOLEAN
  BY PairShape, Zenon DEF ShapeInv, ShapeAt
<1>1. CASE call[c].pc \in {"cas", "check"}
  <2>1. ~Cancelled(c) => call[p].holding
    BY <1>1, PairHolds DEF Borrowed
  <2>2. cause' \in {AbortIf(c, ~call[p].holding), AbortIf(p, ~call[p].holding)}
    BY <1>1, Zenon DEF Pair
  <2>3. AbortIf(c, ~call[p].holding) = cause
    BY <1>0, <2>1, AbortNever, Zenon
  <2>4. ~Cancelled(p) => ~~call[p].holding
    BY <2>1, PairHolds, Zenon
  <2>5. AbortIf(p, ~call[p].holding) = cause
    BY <1>0, <2>4, AbortNever, Zenon
  <2> QED
    BY <2>2, <2>3, <2>5, Zenon
<1>2. CASE call[c].pc = "unwind"
  <2>1. ~Cancelled(c) => call[c].holding
    BY <1>2, PairHolds DEF HoldPcs
  <2>2. cause' = AbortIf(c, ~call[c].holding)
    BY <1>2, Zenon DEF Pair
  <2> QED
    BY <1>0, <2>1, <2>2, AbortNever, Zenon
<1>3. CASE call[c].pc = "reacquire"
  <2>1. ~call[p].holding
    BY <1>3, PairHolds DEF Borrowed
  <2>2. cause' = AbortIf(p, call[p].holding)
    BY <1>3, Zenon DEF Pair
  <2> QED
    BY <1>0, <2>1, <2>2, AbortNever, Zenon
<1> QED
  BY <1>1, <1>2, <1>3, Zenon DEF Pair

\* A context never has an error of the executor's own, and stays done.
LEMMA CauseKept ==
  ASSUME TreeInv, CauseInv, HoldInv, [Next]_vars
  PROVE  CauseInv' /\ Expires
<1>1. CASE cause' = cause
  BY <1>1, Zenon DEF CauseInv, Expires
<1>2. ASSUME NEW r \in Runs, Cancel(r) PROVE CauseInv' /\ Expires
  BY <1>2 DEF Cancel, CauseInv, Expires
<1>3. ShapeInv /\ PathInv /\ \A c \in DOMAIN call : call[c].idx \in Nat
  BY Zenon DEF TreeInv, TodoInv, TodoAt
<1>4. ASSUME NEW c \in DOMAIN call, Delivers(c) \/ Starts(c) PROVE cause' = cause
  BY <1>4, Zenon DEF Delivers, Starts
<1> QED
  BY <1>1, <1>2, <1>3, <1>4, StepKinds, SingleCause, PairCause, Zenon DEF Still

LEMMA SingleHold ==
  ASSUME ShapeInv, HoldInv, Expires, NEW c \in DOMAIN call, Single(c)
  PROVE  HoldInv'
<1>0. /\ Alone(c) /\ Goes(c, call[c].pc, call'[c].pc) /\ DOMAIN call' = DOMAIN call
      /\ Spends(c, call[c].pc, call'[c].pc)
      /\ \A d \in DOMAIN call : HoldAt(d) /\ ShapeAt(d) /\ (Cancelled(d) => Cancelled(d)')
  BY Zenon DEF Single, Alone, HoldInv, ShapeInv, ShapeAt, Expires, Cancelled
<1>1. HoldAt(c)'
  <2>1. ASSUME ~Cancelled(c), call'[c].pc \in HoldPcs PROVE call'[c].holding
    BY <1>0, <2>1, Zenon DEF Spends, Keeps, Takes, Gives, HoldAt, Goes
  <2> QED
    BY <1>0, <2>1, Zenon DEF HoldAt
<1>2. ASSUME NEW d \in DOMAIN call, d # c PROVE HoldAt(d)'
  <2>1. Same(d) /\ HoldAt(d) /\ d \in Seq(Nat) /\ d # <<>>
    BY <1>0, <1>2, Zenon DEF Alone, ShapeAt
  <2>2. ASSUME Append(d, 1) \in DOMAIN call, call[Append(d, 1)].pc \in Borrowed, ~Cancelled(d)
        PROVE  call'[Append(d, 1)].pc \in Borrowed
    <3>1. CASE Append(d, 1) = c
      <4>1. ~IsRoot(c) /\ Index(c) = 1 /\ RunOf(c) = RunOf(d)
        BY <2>1, <3>1, CalleeOf, Zenon
      <4>2. ~call[c].async /\ ~Cancelled(c)
        BY <1>0, <2>2, <4>1, Zenon DEF ShapeAt, Cancelled
      <4> QED
        BY <1>0, <2>2, <3>1, <4>1, <4>2, Zenon DEF Goes
    <3>2. CASE Append(d, 1) # c
      BY <1>0, <2>2, <3>2, Zenon DEF Alone, Same
    <3> QED
      BY <3>1, <3>2
  <2> QED
    BY <1>0, <2>1, <2>2, Zenon DEF HoldAt, Same
<1> QED
  BY <1>0, <1>1, <1>2, Zenon DEF HoldInv

LEMMA PairHold ==
  ASSUME ShapeInv, PathInv, HoldInv, cause' = cause, NEW c \in DOMAIN call, Pair(c)
  PROVE  HoldInv'
<1> DEFINE p == Caller(c)
<1>0. /\ p \in DOMAIN call /\ p # c /\ Couple(c) /\ DOMAIN call' = DOMAIN call
      /\ c = Append(p, 1) /\ call'[p].pc = call[p].pc
      /\ \A d \in DOMAIN call : HoldAt(d) /\ ShapeAt(d) /\ (Cancelled(d)' <=> Cancelled(d))
  <2>1. ~IsRoot(c) /\ Index(c) = 1
    BY Zenon DEF Pair, ShapeInv, ShapeAt
  <2> QED
    BY <2>1, PairShape, CallerShape, Zenon DEF Pair, Couple, HoldInv, ShapeInv, Cancelled
<1>1. HoldAt(c)'
  <2>1. ASSUME ~Cancelled(c), call'[c].pc \in HoldPcs PROVE call'[c].holding
    BY <2>1, PairHolds, Zenon DEF Pair, HoldPcs, Borrowed
  <2> QED
    BY <1>0, <2>1, Zenon DEF HoldAt
<1>2. HoldAt(p)'
  <2>1. ASSUME ~Cancelled(c) PROVE call'[p].holding \/ call'[c].pc \in Borrowed
    BY <2>1, PairHolds, Zenon DEF Pair, HoldPcs, Borrowed
  <2>2. call'[p].pc = "sync" /\ (Cancelled(p) <=> Cancelled(c))
    BY <1>0, PairHolds, Zenon
  <2> QED
    BY <1>0, <2>1, <2>2, Zenon DEF HoldAt
<1>3. ASSUME NEW d \in DOMAIN call, d # c, d # p PROVE HoldAt(d)'
  <2>1. call'[d] = call[d] /\ d \in Seq(Nat) /\ d # <<>> /\ HoldAt(d)
    BY <1>0, <1>3, Zenon DEF Couple, ShapeAt
  <2>2. Append(d, 1) # c
    <3>1. Caller(Append(d, 1)) = d
      BY <2>1, CalleeOf
    <3> QED
      BY <1>3, <3>1, Zenon
  <2>3. Append(d, 1) \in DOMAIN call => call'[Append(d, 1)].pc = call[Append(d, 1)].pc
    BY <1>0, <2>2, Zenon DEF Couple
  <2> QED
    BY <1>0, <2>1, <2>3, Zenon DEF HoldAt
<1> QED
  BY <1>0, <1>1, <1>2, <1>3, Zenon DEF HoldInv

LEMMA DeliverHold ==
  ASSUME ShapeInv, PathInv, HoldInv, NEW c \in DOMAIN call, Delivers(c)
  PROVE  HoldInv'
<1> DEFINE p == Caller(c)
<1>0. /\ p \in DOMAIN call /\ p # c /\ DOMAIN call' = DOMAIN call /\ cause' = cause
      /\ call[c].pc = "deliver" /\ call'[c].pc = "gone"
      /\ \A d \in DOMAIN call : d # c /\ d # p => call'[d] = call[d]
      /\ call'[p].holding = call[p].holding
      /\ \/ call'[p].pc = call[p].pc /\ (call[p].pc = "sync" => call[c].async)
         \/ ~call[c].async /\ call[p].pc = "sync" /\ call'[p].pc \in {"release", "resolved"}
      /\ \A d \in DOMAIN call : HoldAt(d) /\ ShapeAt(d)
  BY DeliverShape, Zenon DEF Delivers, Like, HoldInv, ShapeInv
<1>1. HoldAt(c)'
  BY <1>0, Zenon DEF HoldAt, HoldPcs
<1>a. "deliver" \notin Borrowed /\ {"release", "resolved"} \subseteq Borrowed /\ "sync" \in HoldPcs
  BY DEF Borrowed, HoldPcs
<1>2. ASSUME NEW d \in DOMAIN call, Append(d, 1) \in DOMAIN call, call[Append(d, 1)].pc \in Borrowed
      PROVE  call'[Append(d, 1)].pc \in Borrowed
  BY <1>0, <1>a, <1>2, Zenon
<1>3. ASSUME NEW d \in DOMAIN call, d # c, d # p PROVE HoldAt(d)'
  BY <1>0, <1>2, <1>3, Zenon DEF HoldAt, Cancelled
<1>4. HoldAt(p)'
  <2>1. CASE call'[p].pc = call[p].pc
    BY <1>0, <1>2, <2>1, Zenon DEF HoldAt, Cancelled
  <2>2. CASE ~call[c].async /\ call[p].pc = "sync" /\ call'[p].pc \in {"release", "resolved"}
    <3>1. ~IsRoot(c) /\ Index(c) = 1 /\ c = Append(p, Index(c))
      BY <2>2, CallerShape, Zenon DEF Delivers, ShapeInv, ShapeAt
    <3>2. ~Cancelled(p) => call[p].holding
      BY <1>0, <1>a, <2>2, <3>1, Zenon DEF HoldAt
    <3> QED
      BY <1>0, <3>2, Zenon DEF HoldAt, Cancelled
  <2> QED
    BY <1>0, <2>1, <2>2
<1> QED
  BY <1>0, <1>1, <1>3, <1>4, Zenon DEF HoldInv

LEMMA StartHold ==
  ASSUME ShapeInv, HoldInv, NEW c \in DOMAIN call, Starts(c)
  PROVE  HoldInv'
<1> SUFFICES ASSUME NEW i, i = call[c].idx, NEW n, n = Append(c, i)
             PROVE  HoldInv'
  BY Zenon
<1>0. /\ DOMAIN call' = DOMAIN call \cup {n} /\ n \notin DOMAIN call /\ cause' = cause
      /\ \A d \in DOMAIN call : d # c => call'[d] = call[d]
      /\ call[c].pc = "start" /\ call'[c].pc \in {"sync", "start"}
      /\ call'[c].holding = call[c].holding
      /\ New(call'[n], call[c].todo[i], i)
      /\ \A d \in DOMAIN call : HoldAt(d)
  BY Zenon DEF Starts, Calls, Steady, HoldInv
<1>a. {"sync", "start"} \subseteq Borrowed /\ "start" \in HoldPcs /\ "load" \notin HoldPcs
  BY DEF Borrowed, HoldPcs
<1>1. HoldAt(n)'
  <2>1. call'[n].pc = "load"
    BY <1>0, Zenon DEF New
  <2> QED
    BY <1>a, <2>1, Zenon DEF HoldAt
<1>2. HoldAt(c)'
  BY <1>0, <1>a, Zenon DEF HoldAt, Cancelled
<1>3. ASSUME NEW d \in DOMAIN call, d # c PROVE HoldAt(d)'
  BY <1>0, <1>a, <1>3, Zenon DEF HoldAt, Cancelled
<1> QED
  BY <1>0, <1>1, <1>2, <1>3, Zenon DEF HoldInv

LEMMA HoldKept ==
  ASSUME TreeInv, CauseInv, HoldInv, [Next]_vars
  PROVE  HoldInv'
<1>1. Expires /\ ShapeInv /\ PathInv /\ \A c \in DOMAIN call : call[c].idx \in Nat
  BY CauseKept, Zenon DEF TreeInv, TodoInv, TodoAt
<1>2. CASE Still
  <2>1. call' = call /\ \A c \in DOMAIN call : Cancelled(c) => Cancelled(c)'
    BY <1>1, <1>2, Zenon DEF Still, Expires, Cancelled, ShapeInv, ShapeAt
  <2> QED
    BY <2>1, Zenon DEF HoldInv, HoldAt
<1> QED
  BY <1>1, <1>2, StepKinds, SingleHold, PairCause, PairHold, DeliverHold, StartHold, Zenon

-----------------------------------------------------------------------------
(* Results.                                                                *)

\* The result of a task is that of the call that computes it or has completed
\* it.
MemoAt(c) ==
  /\ IsRoot(c) => ~call[c].done
  /\ call[c].done => call[c].pc \in {"deliver", "gone"} /\ result[call[c].obj] = c
  /\ ~IsRoot(c) /\ call[c].pc \in Leading => result[call[c].obj] = c

MemoInv == DOMAIN result = Obj /\ \A c \in DOMAIN call : MemoAt(c)

\* The result of another call is not overwritten.
LEMMA ResultStays ==
  ASSUME ShapeInv, NEW c \in DOMAIN call, Lead(c) \/ Settle(c) \/ result' = result,
         NEW d \in DOMAIN call, d # c, result[call[d].obj] = d, call[d].obj \in DOMAIN result
  PROVE  result'[call[d].obj] = d
<1>1. CASE Lead(c)
  <2>1. d # Nil
    BY Zenon DEF Nil, ShapeInv, ShapeAt
  <2>2. result' = [result EXCEPT ![call[c].obj] = c] /\ result[call[c].obj] = Nil
    BY <1>1, Zenon DEF Lead, CanLead
  <2>3. call[d].obj # call[c].obj
    BY <2>1, <2>2
  <2> QED
    BY <2>2, <2>3, Zenon
<1>2. CASE Settle(c)
  <2>1. \E drop : result' = [result EXCEPT ![call[c].obj] = IF drop /\ @ = c THEN Nil ELSE @]
    BY <1>2, Zenon DEF Settle
  <2>2. CASE call[d].obj = call[c].obj
    <3>1. result[call[c].obj] # c
      BY <2>2, Zenon
    <3> QED
      BY <2>1, <2>2, <3>1, Zenon
  <2>3. CASE call[d].obj # call[c].obj
    BY <2>1, <2>3, Zenon
  <2> QED
    BY <2>2, <2>3
<1> QED
  BY <1>1, <1>2, Zenon

\* What the steps do to the record of another call.
LEMMA MemoQuiet ==
  ASSUME NEW c \in DOMAIN call, MemoAt(c), call'[c].done = call[c].done, call'[c].obj = call[c].obj,
         ~IsRoot(c) /\ result[call[c].obj] = c => result'[call[c].obj] = c,
         call'[c].pc \in Leading => call[c].pc \in Leading,
         call[c].pc \in {"deliver", "gone"} => call'[c].pc \in {"deliver", "gone"}
  PROVE  MemoAt(c)'
  BY Zenon DEF MemoAt

\* A leader has its result.
LEMMA LeadMemo ==
  ASSUME MemoInv, TodoInv, NEW c \in DOMAIN call, ~IsRoot(c), Lead(c), call'[c].done = call[c].done,
         call'[c].obj = call[c].obj
  PROVE  MemoAt(c)'
<1>1. call[c].pc = "cas" /\ MemoAt(c) /\ call[c].obj \in DOMAIN result
  BY Zenon DEF Lead, MemoInv, TodoInv, TodoAt
<1>2. result' = [result EXCEPT ![call[c].obj] = c]
  BY Zenon DEF Lead
<1>3. ~call[c].done /\ result'[call[c].obj] = c
  BY <1>1, <1>2, Zenon DEF MemoAt
<1> QED
  BY <1>3, Zenon DEF MemoAt

LEMMA SettleMemo ==
  ASSUME ShapeInv, NEW c \in DOMAIN call, ~IsRoot(c), MemoAt(c), Settle(c)
  PROVE  MemoAt(c)'
<1> DEFINE drop == call[c].panicking \/ cause[RunOf(c)] = "abort"
<1>1. /\ call[c].pc = "settle" /\ DOMAIN call[c] = Fields
      /\ result' = [result EXCEPT ![call[c].obj] = IF drop /\ @ = c THEN Nil ELSE @]
      /\ call' = [call EXCEPT ![c] = [@ EXCEPT !.pc = "deliver", !.ret = IF drop THEN Nil ELSE @,
                                               !.done = ~drop /\ call[c].ret # Nil]]
  BY Zenon DEF Settle, ShapeInv, ShapeAt
<1> HIDE DEF drop
<1>2. /\ call'[c].pc = "deliver" /\ call'[c].obj = call[c].obj
      /\ call'[c].done = (~drop /\ call[c].ret # Nil)
  BY <1>1, Zenon DEF Fields
<1>3. result[call[c].obj] = c /\ "deliver" \notin Leading
  BY <1>1 DEF MemoAt, Leading
<1>4. ~drop => result'[call[c].obj] = c
  BY <1>1, <1>3
<1> QED
  BY <1>2, <1>3, <1>4, Zenon DEF MemoAt

LEMMA MemoKept ==
  ASSUME TreeInv, MemoInv, [Next]_vars
  PROVE  MemoInv'
<1>0. /\ ShapeInv /\ PathInv /\ TodoInv /\ \A c \in DOMAIN call : call[c].idx \in Nat
      /\ DOMAIN result = Obj /\ \A c \in DOMAIN call : MemoAt(c)
      /\ \A c \in DOMAIN call : ~IsRoot(c) => call[c].obj \in DOMAIN result
  BY Zenon DEF TreeInv, MemoInv, TodoInv, TodoAt
<1>a. ASSUME NEW c, Lead(c) \/ Settle(c) PROVE DOMAIN result' = Obj
  BY <1>0, <1>a, Zenon DEF Lead, Settle
<1>1. ASSUME NEW c \in DOMAIN call, Single(c) PROVE MemoInv'
  <2>1. /\ Alone(c) /\ Goes(c, call[c].pc, call'[c].pc) /\ Writes(c, call[c].pc, call'[c].pc)
        /\ DOMAIN call' = DOMAIN call /\ call'[c].obj = call[c].obj
    BY <1>1, Zenon DEF Single, Alone
  <2>2. Lead(c) \/ Settle(c) \/ result' = result
    BY <2>1, Zenon DEF Writes
  <2>3. ASSUME NEW d \in DOMAIN call, d # c PROVE MemoAt(d)'
    BY <1>0, <2>1, <2>2, <2>3, ResultStays, MemoQuiet, Zenon DEF Alone, Same
  <2>4. CASE Lead(c) \/ Settle(c)
    <3>1. ~IsRoot(c)
      BY <1>0, <2>4 DEF Lead, Settle, PathInv, PathAt, RootPcs
    <3>2. MemoAt(c)'
      BY <1>0, <2>1, <2>4, <3>1, LeadMemo, SettleMemo, Zenon DEF Writes
    <3> QED
      BY <1>a, <2>1, <2>3, <2>4, <3>2, Zenon DEF MemoInv
  <2>5. CASE /\ result' = result /\ call'[c].done = call[c].done
             /\ ~IsRoot(c) /\ call'[c].pc \in Leading => call[c].pc \in Leading
    <3>1. ~call[c].done
      BY <1>0, <2>1, Zenon DEF Goes, MemoAt
    <3>2. MemoAt(c)'
      BY <1>0, <2>1, <2>5, <3>1, Zenon DEF MemoAt
    <3> QED
      BY <1>0, <2>1, <2>3, <2>5, <3>2, Zenon DEF MemoInv
  <2> QED
    BY <2>1, <2>4, <2>5, Zenon DEF Writes
<1>2. ASSUME NEW c \in DOMAIN call, Pair(c) PROVE MemoInv'
  <2>1. /\ Caller(c) \in DOMAIN call /\ Couple(c) /\ DOMAIN call' = DOMAIN call /\ ~IsRoot(c)
        /\ Lead(c) \/ result' = result
    BY <1>0, <1>2, PairShape, Zenon DEF Pair, Couple
  <2>2. ASSUME NEW d \in DOMAIN call, d # c PROVE MemoAt(d)'
    <3>1. call'[d].done = call[d].done /\ call'[d].obj = call[d].obj /\ call'[d].pc = call[d].pc
      BY <2>1, <2>2, Zenon DEF Couple
    <3> QED
      BY <1>0, <2>1, <2>2, <3>1, ResultStays, MemoQuiet, Zenon
  <2>3. CASE Lead(c)
    <3>1. MemoAt(c)'
      BY <1>0, <2>1, <2>3, LeadMemo, Zenon DEF Couple, MemoInv
    <3> QED
      BY <1>a, <2>1, <2>2, <2>3, <3>1, Zenon DEF MemoInv
  <2>4. CASE result' = result /\ call[c].pc # "cas"
    <3>1. /\ call'[c].pc \in Leading => call[c].pc \in Leading
          /\ call[c].pc \notin {"deliver", "gone"}
      BY <1>2, <2>4 DEF Pair, Leading
    <3>2. MemoAt(c)'
      BY <1>0, <2>1, <2>4, <3>1, MemoQuiet, Zenon DEF Couple
    <3> QED
      BY <1>0, <2>1, <2>2, <2>4, <3>2, Zenon DEF MemoInv
  <2> QED
    BY <1>2, <2>3, <2>4, Zenon DEF Pair
<1>3. ASSUME NEW c \in DOMAIN call, Delivers(c) PROVE MemoInv'
  <2>1. /\ result' = result /\ DOMAIN call' = DOMAIN call
        /\ \A d \in DOMAIN call : d # c /\ d # Caller(c) => call'[d] = call[d]
        /\ \A d \in {c, Caller(c)} : call'[d].done = call[d].done /\ call'[d].obj = call[d].obj
        /\ call[c].pc = "deliver" /\ call'[c].pc = "gone" /\ Caller(c) \in DOMAIN call
        /\ \/ call'[Caller(c)].pc = call[Caller(c)].pc
           \/ call[Caller(c)].pc = "sync" /\ call'[Caller(c)].pc \in {"release", "resolved"}
    BY <1>0, <1>3, DeliverShape, Zenon DEF Delivers, Like
  <2>2. "gone" \notin Leading /\ "sync" \in Leading
    BY DEF Leading
  <2>3. ASSUME NEW d \in DOMAIN call PROVE MemoAt(d)'
    <3>1. /\ call'[d].done = call[d].done /\ call'[d].obj = call[d].obj
          /\ call'[d].pc \in Leading => call[d].pc \in Leading
          /\ call[d].pc \in {"deliver", "gone"} => call'[d].pc \in {"deliver", "gone"}
      BY <2>1, <2>2, Zenon
    <3> QED
      BY <1>0, <2>1, <3>1, MemoQuiet, Zenon
  <2> QED
    BY <1>0, <2>1, <2>3, Zenon DEF MemoInv
<1>4. ASSUME NEW c \in DOMAIN call, Starts(c) PROVE MemoInv'
  <2> SUFFICES ASSUME NEW i, i = call[c].idx, NEW n, n = Append(c, i)
               PROVE  MemoInv'
    BY Zenon
  <2>1. /\ DOMAIN call' = DOMAIN call \cup {n} /\ result' = result
        /\ \A d \in DOMAIN call : d # c => call'[d] = call[d]
        /\ call[c].pc = "start" /\ call'[c].pc \in {"sync", "start"}
        /\ call'[c].done = call[c].done /\ call'[c].obj = call[c].obj
        /\ New(call'[n], call[c].todo[i], i)
    BY <1>4, Zenon DEF Starts, Calls, Steady
  <2>2. "start" \in Leading /\ "load" \notin Leading
    BY DEF Leading
  <2>3. ASSUME NEW d \in DOMAIN call PROVE MemoAt(d)'
    BY <1>0, <2>1, <2>2, MemoQuiet, Zenon
  <2>4. call'[n].done = FALSE /\ call'[n].pc = "load"
    BY <2>1, Zenon DEF New
  <2>5. MemoAt(n)'
    BY <2>2, <2>4, Zenon DEF MemoAt
  <2> QED
    BY <1>0, <2>1, <2>3, <2>5, Zenon DEF MemoInv
<1>5. CASE Still
  BY <1>5, Zenon DEF Still, MemoInv, MemoAt
<1> QED
  BY <1>0, <1>1, <1>2, <1>3, <1>4, <1>5, StepKinds, Zenon

-----------------------------------------------------------------------------
(* The semaphore.                                                          *)

SemaInv == IsFiniteSet(DOMAIN call) /\ permits \in Nat /\ PermitsConserved

LEMMA HoldersFinite ==
  ASSUME SemaInv
  PROVE  IsFiniteSet(Holders) /\ Cardinality(Holders) \in Nat
<1>1. Holders \subseteq DOMAIN call
  BY Zenon DEF Holders
<1> QED
  BY <1>1, FS_Subset, FS_CardinalityType, Zenon DEF SemaInv

\* A hold is taken from the semaphore, or given back.
LEMMA HoldTaken ==
  ASSUME SemaInv, NEW c, c \notin Holders, permits > 0, permits' = permits - 1,
         Holders' = Holders \cup {c}
  PROVE  permits' \in Nat /\ PermitsConserved'
<1>1. Cardinality(Holders \cup {c}) = Cardinality(Holders) + 1 /\ Cardinality(Holders) \in Nat
  BY HoldersFinite, FS_AddElement
<1> QED
  BY <1>1, ParAssumption DEF SemaInv, PermitsConserved

LEMMA HoldGiven ==
  ASSUME SemaInv, NEW c \in DOMAIN call, call[c].holding \in BOOLEAN, permits' = permits + Hold(c),
         Holders' = Holders \ {c}
  PROVE  permits' \in Nat /\ PermitsConserved'
<1>1. CASE call[c].holding
  <2>1. c \in Holders /\ permits' = permits + 1
    BY <1>1 DEF Holders, Hold
  <2>2. Cardinality(Holders \ {c}) = Cardinality(Holders) - 1 /\ Cardinality(Holders) \in Nat
    BY <2>1, HoldersFinite, FS_RemoveElement, Zenon
  <2> QED
    BY <2>1, <2>2, ParAssumption DEF SemaInv, PermitsConserved
<1>2. CASE ~call[c].holding
  <2>1. Holders \ {c} = Holders /\ permits' = permits + 0
    BY <1>2 DEF Holders, Hold
  <2> QED
    BY <2>1, ParAssumption DEF SemaInv, PermitsConserved
<1> QED
  BY <1>1, <1>2

\* A hold passes from one Task to another.
LEMMA HoldPassed ==
  ASSUME SemaInv, permits' = permits, NEW c, NEW d, d \notin Holders,
         Holders' = IF c \in Holders THEN (Holders \ {c}) \cup {d} ELSE Holders
  PROVE  permits' \in Nat /\ PermitsConserved'
<1>1. CASE c \in Holders
  <2>1. /\ Cardinality(Holders \ {c}) = Cardinality(Holders) - 1 /\ Cardinality(Holders) \in Nat
        /\ IsFiniteSet(Holders \ {c})
    BY <1>1, HoldersFinite, FS_RemoveElement, Zenon
  <2>2. Cardinality((Holders \ {c}) \cup {d}) = Cardinality(Holders \ {c}) + 1
    BY <2>1, FS_AddElement, Zenon
  <2> QED
    BY <1>1, <2>1, <2>2, ParAssumption DEF SemaInv, PermitsConserved
<1>2. CASE c \notin Holders
  BY <1>2, Zenon DEF SemaInv, PermitsConserved
<1> QED
  BY <1>1, <1>2

LEMMA SemaKept ==
  ASSUME TreeInv, SemaInv, [Next]_vars
  PROVE  SemaInv'
<1>0. /\ ShapeInv /\ PathInv /\ \A c \in DOMAIN call : call[c].idx \in Nat
      /\ \A c \in DOMAIN call : PathAt(c) /\ call[c].holding \in BOOLEAN
  BY Zenon DEF TreeInv, TodoInv, TodoAt, PathInv, ShapeInv, ShapeAt
<1>a. ASSUME permits' = permits, Holders' = Holders PROVE permits' \in Nat /\ PermitsConserved'
  BY <1>a, Zenon DEF SemaInv, PermitsConserved
<1>1. ASSUME NEW c \in DOMAIN call, Single(c) PROVE SemaInv'
  <2>1. /\ Spends(c, call[c].pc, call'[c].pc) /\ DOMAIN call' = DOMAIN call
        /\ \A d \in DOMAIN call : d # c => call'[d].holding = call[d].holding
    BY <1>1, Zenon DEF Single, Alone, Same
  <2>2. CASE Keeps(c, call[c].pc, call'[c].pc)
    <3>1. permits' = permits /\ Holders' = Holders
      BY <2>1, <2>2 DEF Keeps, Holders
    <3> QED
      BY <1>a, <2>1, <3>1, Zenon DEF SemaInv
  <2>3. CASE Takes(c, call[c].pc, call'[c].pc)
    <3>1. permits > 0 /\ permits' = permits - 1 /\ call'[c].holding = TRUE /\ ~call[c].holding
      BY <1>0, <2>3, Zenon DEF Takes, PathAt
    <3>2. c \notin Holders /\ Holders' = Holders \cup {c}
      BY <2>1, <3>1 DEF Holders
    <3> QED
      BY <2>1, <3>1, <3>2, HoldTaken, Zenon DEF SemaInv
  <2>4. CASE Gives(c, call[c].pc, call'[c].pc)
    <3>1. permits' = permits + Hold(c) /\ call'[c].holding = FALSE
      BY <2>4, Zenon DEF Gives
    <3>2. Holders' = Holders \ {c}
      BY <2>1, <3>1 DEF Holders
    <3> QED
      BY <1>0, <2>1, <3>1, <3>2, HoldGiven, Zenon DEF SemaInv
  <2> QED
    BY <2>1, <2>2, <2>3, <2>4, Zenon DEF Spends
<1>2. ASSUME NEW c \in DOMAIN call, NEW p, p = Caller(c), Pair(c) PROVE SemaInv'
  <2>1. /\ p \in DOMAIN call /\ p # c /\ DOMAIN call' = DOMAIN call /\ ~IsRoot(c) /\ ~call[c].async
        /\ \A d \in DOMAIN call : d # c /\ d # p => call'[d] = call[d]
    BY <1>0, <1>2, PairShape, Zenon DEF Pair, Couple
  <2>2. CalleeAt(c)
    BY <1>0, <2>1, Zenon DEF PathAt
  <2>3. CASE call[c].pc = "cas"
    <3>1. /\ permits' = permits /\ call'[c].holding = call[p].holding /\ call'[p].holding = FALSE
          /\ ~call[c].holding
      BY <1>0, <1>2, <2>3, Zenon DEF Pair, PathAt, HoldPcs
    <3>2. c \notin Holders /\ Holders' = IF p \in Holders THEN (Holders \ {p}) \cup {c} ELSE Holders
      BY <2>1, <3>1 DEF Holders
    <3> QED
      BY <2>1, <3>1, <3>2, HoldPassed, Zenon DEF SemaInv
  <2>4. CASE call[c].pc = "unwind"
    <3>1. /\ permits' = permits /\ call'[c].holding = FALSE /\ call'[p].holding = call[c].holding
          /\ ~call[p].holding
      BY <1>2, <2>1, <2>2, <2>4, Zenon DEF Pair, CalleeAt, Borrowed
    <3>2. p \notin Holders /\ Holders' = IF c \in Holders THEN (Holders \ {c}) \cup {p} ELSE Holders
      BY <2>1, <3>1 DEF Holders
    <3> QED
      BY <2>1, <3>1, <3>2, HoldPassed, Zenon DEF SemaInv
  <2>5. CASE call[c].pc = "check"
    <3>1. /\ permits' = permits + Hold(p) /\ call'[c].holding = call[c].holding
          /\ call'[p].holding = FALSE
      BY <1>2, <2>5, Zenon DEF Pair
    <3>2. Holders' = Holders \ {p}
      BY <2>1, <3>1 DEF Holders
    <3> QED
      BY <1>0, <2>1, <3>1, <3>2, HoldGiven, Zenon DEF SemaInv
  <2>6. CASE call[c].pc = "reacquire"
    <3>1. /\ permits > 0 /\ permits' = permits - 1 /\ call'[c].holding = call[c].holding
          /\ call'[p].holding = TRUE /\ ~call[p].holding
      BY <1>2, <2>1, <2>2, <2>6, Zenon DEF Pair, CalleeAt, Borrowed
    <3>2. p \notin Holders /\ Holders' = Holders \cup {p}
      BY <2>1, <3>1 DEF Holders
    <3> QED
      BY <2>1, <3>1, <3>2, HoldTaken, Zenon DEF SemaInv
  <2> QED
    BY <1>2, <2>3, <2>4, <2>5, <2>6, Zenon DEF Pair
<1>3. ASSUME NEW c \in DOMAIN call, Delivers(c) PROVE SemaInv'
  <2>1. /\ permits' = permits /\ DOMAIN call' = DOMAIN call
        /\ \A d \in DOMAIN call : call'[d].holding = call[d].holding
    BY <1>3, Zenon DEF Delivers, Like
  <2>2. Holders' = Holders
    BY <2>1 DEF Holders
  <2> QED
    BY <1>a, <2>1, <2>2, Zenon DEF SemaInv
<1>4. ASSUME NEW c \in DOMAIN call, NEW i, i = call[c].idx, NEW n, n = Append(c, i), Starts(c)
      PROVE  SemaInv'
  <2>1. /\ permits' = permits /\ DOMAIN call' = DOMAIN call \cup {n}
        /\ \A d \in DOMAIN call : call'[d].holding = call[d].holding
        /\ New(call'[n], call[c].todo[i], i) /\ n \notin DOMAIN call
    BY <1>4, Zenon DEF Starts, Calls, Steady
  <2>2. call'[n].holding = FALSE
    BY <2>1, Zenon DEF New
  <2>3. Holders' = Holders
    BY <2>1, <2>2 DEF Holders
  <2>4. IsFiniteSet(DOMAIN call')
    BY <2>1, FS_AddElement, Zenon DEF SemaInv
  <2> QED
    BY <1>a, <2>1, <2>3, <2>4, Zenon DEF SemaInv
<1>5. CASE Still
  <2>1. permits' = permits /\ Holders' = Holders /\ call' = call
    BY <1>5, Zenon DEF Still, Holders
  <2> QED
    BY <1>a, <2>1, Zenon DEF SemaInv
<1> QED
  BY <1>0, <1>1, <1>2, <1>3, <1>4, <1>5, StepKinds, Zenon

-----------------------------------------------------------------------------
(* Theorems.                                                               *)

ExecutorInv == TreeInv /\ CauseInv /\ HoldInv /\ MemoInv /\ SemaInv

LEMMA RootsFinite ==
  IsFiniteSet({<<r>> : r \in Runs})
<1> DEFINE f == [r \in Runs |-> <<r>>]
<1>1. IsFiniteSet(Runs)
  BY FS_Interval, AskedAssumption DEF Runs
<1>2. f \in Surjection(Runs, {<<r>> : r \in Runs})
  BY DEF Surjection
<1> QED
  BY <1>1, <1>2, FS_Surjection, Zenon

LEMMA ExecutorInit ==
  ASSUME Init
  PROVE  ExecutorInv
<1>1. /\ call = [c \in {<<r>> : r \in Runs} |-> Fresh(Nil, FALSE, "idle")]
      /\ program \in Programs /\ permits = Par /\ cause = [r \in Runs |-> "nil"]
      /\ evict = [at |-> "idle", keys |-> {}, found |-> {}, count |-> 0]
      /\ tasks = [q \in Queries |-> 0] /\ made = [q \in Queries |-> 0]
      /\ result = [o \in Obj |-> Nil]
  BY Zenon DEF Init
<1>2. DOMAIN call = {<<r>> : r \in Runs} /\ \A c \in DOMAIN call : call[c] = Fresh(Nil, FALSE, "idle")
  BY <1>1, Zenon
<1>3. ASSUME NEW c \in DOMAIN call
      PROVE  /\ IsRoot(c) /\ c \in Seq(Nat) /\ c # <<>> /\ RunOf(c) \in Runs
             /\ DOMAIN call[c] = Fields /\ call[c].holding = FALSE /\ call[c].async = FALSE
             /\ call[c].pc = "idle" /\ call[c].done = FALSE /\ call[c].idx = 1
             /\ call[c].todo = <<>>
  <2>1. PICK r \in Runs : c = <<r>>
    BY <1>2, Zenon
  <2>2. r \in Nat
    BY DEF Runs
  <2>3. IsRoot(c) /\ c \in Seq(Nat) /\ c # <<>> /\ RunOf(c) \in Runs
    BY <2>1, <2>2 DEF IsRoot, RunOf
  <2>4. call[c] = Fresh(Nil, FALSE, "idle")
    BY <1>2, Zenon
  <2> QED
    BY <2>3, <2>4 DEF Fresh, Fields
<1>4. ShapeInv /\ PathInv
  <2>1. "idle" \in RootPcs
    BY DEF RootPcs
  <2> QED
    BY <1>2, <1>3, <2>1, Zenon DEF ShapeInv, ShapeAt, PathInv, PathAt
<1>5. MapInv
  BY <1>1, EvictAssumption DEF MapInv, Rounds
<1>6. TodoInv
  <2>1. <<>> \in Seq(Obj) /\ 1 \in Nat
    OBVIOUS
  <2> QED
    BY <1>3, <2>1, Zenon DEF TodoInv, TodoAt
<1>7. CauseInv
  BY <1>1 DEF CauseInv
<1>8. HoldInv /\ MemoInv
  <2>1. "idle" \notin HoldPcs /\ DOMAIN result = Obj
    BY <1>1 DEF HoldPcs
  <2> QED
    BY <1>3, <2>1, Zenon DEF HoldInv, HoldAt, MemoInv, MemoAt
<1>9. SemaInv
  <2>1. Holders = {}
    BY <1>3, Zenon DEF Holders
  <2> QED
    BY <1>1, <1>2, <2>1, RootsFinite, FS_EmptySet, ParAssumption DEF SemaInv, PermitsConserved
<1> QED
  BY <1>1, <1>4, <1>5, <1>6, <1>7, <1>8, <1>9, Zenon DEF ExecutorInv, TreeInv

LEMMA ExecutorStep ==
  ASSUME ExecutorInv, [Next]_vars
  PROVE  ExecutorInv'
  BY TreeKept, CauseKept, HoldKept, MemoKept, SemaKept, Zenon DEF ExecutorInv

\* In every reachable state the calls form a tree in which each hold is where
\* the code expects it, and each result belongs to the call that leads.
THEOREM ExecutorInvariant == Spec => []ExecutorInv
<1>1. Init => ExecutorInv
  BY ExecutorInit
<1>2. ExecutorInv /\ [Next]_vars => ExecutorInv'
  BY ExecutorStep
<1> QED
  BY <1>1, <1>2, PTL DEF Spec

\* Through every release, transfer, panic and cancellation, the Tasks that
\* hold a weight of Executor.sema and its free weight add up to the
\* parallelism.
THEOREM PermitsAreConserved == Spec => []PermitsConserved
<1>1. ExecutorInv => PermitsConserved
  BY Zenon DEF ExecutorInv, SemaInv
<1> QED
  BY <1>1, ExecutorInvariant, PTL

\* acquire, release and transferFrom never find the hold of their Tasks
\* otherwise than they expect: no Run ends with "this is a bug in
\* protocompile".
THEOREM TasksNeverAbort == Spec => []NeverAborts
<1>1. ExecutorInv => NeverAborts
  BY DEF ExecutorInv, CauseInv, NeverAborts
<1> QED
  BY <1>1, ExecutorInvariant, PTL

\* Whichever calls of whichever Runs race for a task, at most one of them
\* completes a result for it.
THEOREM ResultsAreUnique == Spec => []MemoizedOnce
<1>1. ExecutorInv => MemoizedOnce
  BY Zenon DEF ExecutorInv, MemoInv, MemoAt, MemoizedOnce
<1> QED
  BY <1>1, ExecutorInvariant, PTL

\* The Tasks that run the code of their query, or of Run itself, with a
\* context that is not done.
Executing == {c \in DOMAIN call : call[c].pc \in {"execute", "resolved"} /\ ~Cancelled(c)}

\* WithParallelism bounds the queries that execute at the same time.
THEOREM WorkersAreBounded == Spec => [](Cardinality(Executing) <= Par)
<1>1. ExecutorInv => Cardinality(Executing) <= Par
  <2> SUFFICES ASSUME ExecutorInv PROVE Cardinality(Executing) <= Par
    OBVIOUS
  <2>1. SemaInv /\ HoldInv
    BY DEF ExecutorInv
  <2>2. Executing \in SUBSET Holders
    BY <2>1 DEF Executing, Holders, HoldInv, HoldAt, HoldPcs
  <2>3. /\ IsFiniteSet(Executing) /\ Cardinality(Executing) <= Cardinality(Holders)
        /\ Cardinality(Holders) \in Nat
    BY <2>1, <2>2, HoldersFinite, FS_Subset, Zenon
  <2>4. Cardinality(Executing) \in Nat
    BY <2>3, FS_CardinalityType, Zenon
  <2> QED
    BY <2>1, <2>3, <2>4, ParAssumption DEF SemaInv, PermitsConserved
<1> QED
  BY <1>1, ExecutorInvariant, PTL

\* A completed result is never replaced or changed: its task keeps it, and
\* its value stays.
ResultsStay ==
  \A c \in DOMAIN call : call[c].done =>
    /\ c \in DOMAIN call' /\ call'[c].done /\ call'[c].val = call[c].val
    /\ result'[call[c].obj] = c

LEMMA DoneStays ==
  ASSUME ExecutorInv, [Next]_vars
  PROVE  ResultsStay
<1>0. /\ ShapeInv /\ PathInv /\ MemoInv' /\ \A c \in DOMAIN call : call[c].idx \in Nat
      /\ \A c \in DOMAIN call : MemoAt(c)
  BY ExecutorStep, Zenon DEF ExecutorInv, TreeInv, TodoInv, TodoAt, MemoInv
<1> SUFFICES ASSUME NEW d \in DOMAIN call, call[d].done
             PROVE  /\ d \in DOMAIN call' /\ call'[d].done /\ call'[d].val = call[d].val
                    /\ result'[call[d].obj] = d
  BY Zenon DEF ResultsStay
<1>1. ASSUME d \in DOMAIN call', call'[d].done = call[d].done, call'[d].val = call[d].val,
             call'[d].obj = call[d].obj
      PROVE  /\ d \in DOMAIN call' /\ call'[d].done /\ call'[d].val = call[d].val
             /\ result'[call[d].obj] = d
  BY <1>0, <1>1, Zenon DEF MemoInv, MemoAt
<1>2. ASSUME NEW c \in DOMAIN call, Single(c)
      PROVE  /\ d \in DOMAIN call' /\ call'[d].done = call[d].done /\ call'[d].val = call[d].val
             /\ call'[d].obj = call[d].obj
  <2>1. d # c
    BY <1>0, <1>2, Zenon DEF Single, Goes, MemoAt
  <2> QED
    BY <1>2, <2>1, Zenon DEF Single, Alone, Same
<1>3. ASSUME NEW c \in DOMAIN call, Pair(c) \/ Delivers(c) \/ Starts(c)
      PROVE  /\ d \in DOMAIN call' /\ call'[d].done = call[d].done /\ call'[d].val = call[d].val
             /\ call'[d].obj = call[d].obj
  BY <1>3, Zenon DEF Pair, Couple, Delivers, Like, Starts, Calls, Steady
<1>4. CASE Still
  BY <1>1, <1>4, Zenon DEF Still
<1> QED
  BY <1>0, <1>1, <1>2, <1>3, <1>4, StepKinds, Zenon

\* Later Runs, evictions, panics and cancellations leave what was memoised for
\* a task as it is.
THEOREM ResultsAreStable == Spec => [][ResultsStay]_vars
<1>1. ExecutorInv /\ [Next]_vars => [ResultsStay]_vars
  BY DoneStays
<1> QED
  BY <1>1, ExecutorInvariant, PTL DEF Spec
==============================================================================
