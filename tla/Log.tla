---------------------------------- MODULE Log ----------------------------------
(***************************************************************************)
(* syncx.Log: an append-only array that many goroutines append to and load *)
(* from without a lock.  Every atomic operation and every access to the    *)
(* array is a step.  An array is a block of memory that is never reused;   *)
(* ptr is the number of the current one.  A wait is a loop that reads the  *)
(* same variable again.                                                    *)
(***************************************************************************)
EXTENDS Integers, Sequences, FiniteSets

CONSTANTS
  Procs,     \* goroutines
  Vals,      \* the elements
  Blank,     \* an element that no Append has written
  MaxInt,    \* math.MaxInt32
  Growths,   \* by how much the built-in append may enlarge a full array
  MaxCalls   \* how often Append may be called

ASSUME ProcsAssumption == IsFiniteSet(Procs)
ASSUME BlankAssumption == Blank \notin Vals
ASSUME MaxIntAssumption == MaxInt \in Nat \ {0}
\* append adds at least one element, and never as many as there are int32s.
ASSUME GrowthsAssumption == Growths \subseteq 1..MaxInt + 1
\* The counter of indices does not come round to 0 again.
ASSUME CallsAssumption == MaxCalls \in Nat /\ MaxCalls <= 2 * MaxInt + 1

VARIABLES
  next, len, cap,  \* the fields of Log
  ptr,             \* the array in use, 0 is nil
  mem,             \* the contents of all arrays
  pc,              \* where each goroutine is in Append or Load
  val,             \* the argument of Append
  idx,             \* its index, or the argument of Load
  arr,             \* the array it works on
  seen,            \* the length that Load has read, or the capacity of a new array
  calls,           \* calls of Append so far (SetFullForTesting counts for the indices it takes)
  returned         \* history: the index and the element of each Append that has returned

shared == <<next, len, cap, ptr, mem>>
logVars == <<shared, pc, val, idx, arr, seen, calls, returned>>

\* A new Log, or one that SetFullForTesting has made full.
LogInit ==
  /\ calls \in {0, MaxInt}
  /\ next = calls /\ len = 0 /\ cap = 0 /\ ptr = 0 /\ mem = <<>>
  /\ pc = [w \in Procs |-> "idle"]
  /\ val = [w \in Procs |-> Blank]
  /\ idx = [w \in Procs |-> 0]
  /\ arr = [w \in Procs |-> 0]
  /\ seen = [w \in Procs |-> 0]
  /\ returned = {}

\* An int32.
Wrap(n) == IF n > MaxInt THEN n - 2 * (MaxInt + 1) ELSE n

Goto(w, l) == pc' = [pc EXCEPT ![w] = l]
Step(w, from, to) == pc[w] = from /\ Goto(w, to)

-----------------------------------------------------------------------------
(* Append.                                                                 *)

CallAppend(w, v) ==
  /\ Step(w, "idle", "claim")
  /\ calls' = calls + 1
  /\ val' = [val EXCEPT ![w] = v]
  /\ UNCHANGED <<shared, idx, arr, seen, returned>>

\* next.Add(1), and the test for overflow.
Claim(w) ==
  /\ Step(w, "claim", IF Wrap(next + 1) < 0 THEN "failed" ELSE "size")
  /\ next' = Wrap(next + 1)
  /\ idx' = [idx EXCEPT ![w] = IF next' < 0 THEN 0 ELSE next' - 1]
  /\ UNCHANGED <<len, cap, ptr, mem, val, arr, seen, calls, returned>>

\* cap.Load: the loop ends when the index is inside of the array or is the
\* one to make it grow.
FastPath(w) ==
  /\ Step(w, "size", "pointer")
  /\ idx[w] < cap
  /\ UNCHANGED <<shared, val, idx, arr, seen, calls, returned>>

SlowPath(w) ==
  /\ Step(w, "size", "drain")
  /\ idx[w] = cap
  /\ UNCHANGED <<shared, val, idx, arr, seen, calls, returned>>

FastPointer(w) ==
  /\ Step(w, "pointer", "write")
  /\ arr' = [arr EXCEPT ![w] = ptr]
  /\ UNCHANGED <<shared, val, idx, seen, calls, returned>>

FastWrite(w) ==
  /\ Step(w, "write", "count")
  /\ mem' = [mem EXCEPT ![arr[w]][idx[w]] = val[w]]
  /\ UNCHANGED <<next, len, cap, ptr, val, idx, arr, seen, calls, returned>>

FastCount(w) ==
  /\ Step(w, "count", "settle")
  /\ len' = len + 1
  /\ UNCHANGED <<next, cap, ptr, mem, val, idx, arr, seen, calls, returned>>

FastSettle(w) ==
  /\ Step(w, "settle", "ok")
  /\ len > idx[w]
  /\ UNCHANGED <<shared, val, idx, arr, seen, calls, returned>>

\* All indices of the array are written.
Drain(w) ==
  /\ Step(w, "drain", "grow")
  /\ len = idx[w]
  /\ UNCHANGED <<shared, val, idx, arr, seen, calls, returned>>

\* Mutant: one element is not copied.
GrownLosesOne(i, d, old, v) ==
  [j \in 0..i + d - 1 |-> IF j < i - 1 THEN old[j] ELSE IF j = i THEN v ELSE Blank]

\* What append makes of an array that is full and an element.
Grown(i, d, old, v) ==
  [j \in 0..i + d - 1 |-> IF j < i THEN old[j] ELSE IF j = i THEN v ELSE Blank]

Grow(w) ==
  /\ Step(w, "grow", "publish")
  /\ \E d \in Growths :
       /\ mem' = Append(mem, Grown(idx[w], d, IF ptr = 0 THEN <<>> ELSE mem[ptr], val[w]))
       /\ seen' = [seen EXCEPT ![w] = idx[w] + d]
  /\ arr' = [arr EXCEPT ![w] = Len(mem) + 1]
  /\ UNCHANGED <<next, len, cap, ptr, val, idx, calls, returned>>

PublishPtr(w) ==
  /\ Step(w, "publish", "resize")
  /\ ptr' = arr[w]
  /\ UNCHANGED <<next, len, cap, mem, val, idx, arr, seen, calls, returned>>

PublishCap(w) ==
  /\ Step(w, "resize", "advance")
  /\ cap' = Wrap(seen[w])
  /\ UNCHANGED <<next, len, ptr, mem, val, idx, arr, seen, calls, returned>>

SlowCount(w) ==
  /\ Step(w, "advance", "ok")
  /\ len' = len + 1
  /\ UNCHANGED <<next, cap, ptr, mem, val, idx, arr, seen, calls, returned>>

-----------------------------------------------------------------------------
(* Load, of an index that an Append has returned.                          *)

Indices == {r[1] : r \in returned}

LoadLen(w, i) ==
  /\ Step(w, "idle", "base")
  /\ idx' = [idx EXCEPT ![w] = i]
  /\ seen' = [seen EXCEPT ![w] = len]
  /\ UNCHANGED <<shared, val, arr, calls, returned>>

LoadPtr(w) ==
  /\ Step(w, "base", "read")
  /\ arr' = [arr EXCEPT ![w] = ptr]
  /\ UNCHANGED <<shared, val, idx, seen, calls, returned>>

\* The slice has the length that was read: an index beyond it panics.
LoadRead(w) ==
  /\ Step(w, "read", IF idx[w] < seen[w] THEN "loaded" ELSE "panic")
  /\ val' = [val EXCEPT ![w] = IF idx[w] < seen[w] THEN mem[arr[w]][idx[w]] ELSE Blank]
  /\ UNCHANGED <<shared, idx, arr, seen, calls, returned>>

\* Append or Load returns.
Return(w) ==
  /\ pc[w] \in {"ok", "failed", "loaded"}
  /\ Goto(w, "idle")
  /\ returned' = IF pc[w] = "ok" THEN returned \cup {<<idx[w], val[w]>>} ELSE returned
  /\ val' = [val EXCEPT ![w] = Blank]
  /\ idx' = [idx EXCEPT ![w] = 0]
  /\ arr' = [arr EXCEPT ![w] = 0]
  /\ seen' = [seen EXCEPT ![w] = 0]
  /\ UNCHANGED <<shared, calls>>

-----------------------------------------------------------------------------
LogStep(w) ==
  \/ Claim(w) \/ FastPath(w) \/ FastPointer(w) \/ FastWrite(w) \/ FastCount(w) \/ FastSettle(w)
  \/ SlowPath(w) \/ Drain(w) \/ Grow(w) \/ PublishPtr(w) \/ PublishCap(w) \/ SlowCount(w)
  \/ LoadPtr(w) \/ LoadRead(w)

LogNext ==
  \E w \in Procs :
    \/ calls < MaxCalls /\ \E v \in Vals : CallAppend(w, v)
    \/ \E i \in Indices : LoadLen(w, i)
    \/ LogStep(w) \/ Return(w)

LogSpec == LogInit /\ [][LogNext]_logVars

-----------------------------------------------------------------------------
(* Properties.                                                             *)

\* A Load of an index that Append has returned to anyone finds it: neither
\* beyond the length that Load has read, nor beyond the array it looks at.
LoadsInBounds ==
  \A w \in Procs : /\ pc[w] # "panic"
                   /\ pc[w] = "read" => arr[w] # 0 /\ idx[w] \in DOMAIN mem[arr[w]]

\* Load returns the element that was appended at the index, although writers
\* work on the array while it is being replaced.
LoadsReturnAppended ==
  \A w \in Procs : pc[w] = "loaded" => <<idx[w], val[w]>> \in returned

\* An index is returned by one Append only.
IndicesUnique == \A r, s \in returned : r[1] = s[1] => r = s
================================================================================
