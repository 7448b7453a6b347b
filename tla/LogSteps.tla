------------------------------- MODULE LogSteps -------------------------------
(***************************************************************************)
(* The inductive invariant of Log, with the number n of indices given out  *)
(* as a parameter, and that every step preserves it.                       *)
(***************************************************************************)
EXTENDS Log, TLAPS

\* Goroutines that have an index and have not counted themselves in len.
Uncounted == {"size", "pointer", "write", "count", "drain", "grow", "publish", "resize", "advance"}
Appending == Uncounted \cup {"settle", "ok"}
Loading == {"base", "read", "loaded"}
Pcs == Appending \cup Loading \cup {"idle", "claim", "failed"}

\* Goroutines that make the array grow, before cap is stored.
Growing == {"drain", "grow", "publish", "resize"}
\* Goroutines that write into the array in use.
Writing == {"pointer", "write", "count"}

Pending == {w \in Procs : pc[w] \in Uncounted}

Elems == Vals \cup {Blank}
Blocks == UNION {[0..k -> Elems] : k \in Nat}

LogTypeOK ==
  /\ next \in Int /\ next <= MaxInt /\ len \in Nat /\ cap \in Int /\ mem \in Seq(Blocks)
  /\ ptr \in 0..Len(mem)
  /\ pc \in [Procs -> Pcs]
  /\ val \in [Procs -> Elems]
  /\ idx \in [Procs -> Nat]
  /\ arr \in [Procs -> 0..Len(mem)]
  /\ seen \in [Procs -> Nat]
  /\ calls \in Nat
  /\ returned \subseteq Nat \X Elems

\* The indices given out are 0..n-1, each to one Append.
IndexInv(n) ==
  /\ n <= MaxInt
  /\ next \in 0..MaxInt - 1 => next = n
  /\ \A w \in Procs : pc[w] \in Appending =>
       /\ idx[w] < n
       /\ \A v \in Procs : pc[v] \in Appending /\ idx[v] = idx[w] => v = w
       /\ \A r \in returned : r[1] # idx[w]
  /\ \A r \in returned : r[1] < n
  /\ IndicesUnique

\* Those beyond the capacity have not been counted.
CapInv(n) == cap >= 0 => \A i \in cap..n - 1 : \E w \in Procs : pc[w] \in Uncounted /\ idx[w] = i

\* The goroutine that makes the array grow is alone with it.
GrowInv ==
  /\ cap >= 0 \/ \A w \in Procs : pc[w] \notin Growing
  /\ \A w \in Procs : pc[w] \in Growing => idx[w] = cap
  /\ \A w \in Procs : pc[w] \in {"grow", "publish", "resize"} =>
       len >= idx[w] /\ \A v \in Procs : pc[v] \in Uncounted => idx[v] >= cap
  /\ \A w \in Procs : pc[w] = "advance" => len >= idx[w] /\ (cap < 0 \/ idx[w] < cap)
  /\ \A w \in Procs : pc[w] \in Writing \cup {"settle", "ok"} => cap < 0 \/ idx[w] < cap
  /\ \A r \in returned : cap < 0 \/ r[1] < cap

In(m, i, a) == a # 0 /\ i \in DOMAIN m[a]
Has(m, a, i, v) == In(m, i, a) /\ m[a][i] = v

\* The array in use has room for its writers.
RoomInv ==
  /\ \A i \in 0..cap - 1 : In(mem, i, ptr)
  /\ \A w \in Procs : pc[w] \in Writing => In(mem, idx[w], ptr)
  /\ \A w \in Procs : pc[w] \in {"write", "count"} => arr[w] = ptr

ElemInv == \A w \in Procs : pc[w] \in Appending \cup {"claim"} => val[w] \in Vals

\* It holds what was written.
ContentInv ==
  /\ \A w \in Procs : pc[w] \in {"count", "settle", "ok", "advance"} => Has(mem, ptr, idx[w], val[w])
  /\ \A r \in returned : Has(mem, ptr, r[1], r[2])

\* A new array has all of the old one, and the new element.
Copied(w) ==
  /\ Has(mem, arr[w], idx[w], val[w])
  /\ \A i \in 0..idx[w] - 1 : In(mem, i, arr[w]) /\ mem[arr[w]][i] = mem[ptr][i]
  /\ seen[w] > idx[w] /\ seen[w] <= 2 * MaxInt + 1
  /\ \A i \in 0..seen[w] - 1 : In(mem, i, arr[w])

CopyInv ==
  /\ \A w \in Procs : pc[w] \in {"publish", "resize"} => Copied(w)
  /\ \A w \in Procs : pc[w] = "resize" => arr[w] = ptr

\* What was returned is within the length.
LenInv ==
  /\ \A r \in returned : r[1] < len
  /\ \A w \in Procs : pc[w] = "ok" => idx[w] < len

\* A Load has a length and an array that hold its index.
BaseInv == \A w \in Procs : pc[w] \in {"base", "read"} => idx[w] \in Indices /\ idx[w] < seen[w]
ReadInv == \A w \in Procs : pc[w] = "read" => \E r \in returned : r[1] = idx[w] /\ Has(mem, arr[w], r[1], r[2])

Core(n) ==
  /\ LogTypeOK /\ IndexInv(n) /\ CapInv(n) /\ GrowInv /\ RoomInv /\ ElemInv /\ ContentInv /\ CopyInv
  /\ LenInv /\ BaseInv /\ ReadInv /\ LoadsReturnAppended

-----------------------------------------------------------------------------
(* Arrays.                                                                 *)

\* A write inside of an array leaves an array.
LEMMA BlockExcept ==
  ASSUME NEW b \in Blocks, NEW i \in DOMAIN b, NEW v \in Elems
  PROVE  [b EXCEPT ![i] = v] \in Blocks
<1>1. PICK k \in Nat : b \in [0..k -> Elems]
  BY DEF Blocks
<1>2. [b EXCEPT ![i] = v] \in [0..k -> Elems]
  BY <1>1
<1> QED
  BY <1>2 DEF Blocks

\* What an array holds is an element or blank.
LEMMA BlockElem == ASSUME NEW b \in Blocks, NEW i \in DOMAIN b PROVE b[i] \in Elems
<1>1. PICK k \in Nat : b \in [0..k -> Elems]
  BY DEF Blocks
<1> QED
  BY <1>1

\* What an array holds does not depend on arrays made later.
LEMMA Kept ==
  ASSUME LogTypeOK, NEW b \in Blocks, mem' = Append(mem, b)
  PROVE  /\ mem' \in Seq(Blocks) /\ Len(mem') = Len(mem) + 1
         /\ mem'[Len(mem) + 1] = b
         /\ \A a \in 1..Len(mem) : mem'[a] = mem[a]
  BY DEF LogTypeOK

-----------------------------------------------------------------------------
(* The steps.                                                              *)


\* An index below a capacity that has not wrapped is below the one stored.
LEMMA UpTo == ASSUME NEW c \in Int, NEW s \in Nat, c < 0 \/ c = s, NEW i \in 0..c - 1 PROVE i \in 0..s - 1
  OBVIOUS

-----------------------------------------------------------------------------
(* Steps of one goroutine, as the others see them.                         *)

Same(v) == pc'[v] = pc[v] /\ idx'[v] = idx[v] /\ val'[v] = val[v] /\ arr'[v] = arr[v] /\ seen'[v] = seen[v]

Aside == {"idle", "claim", "failed", "size", "base", "loaded"}

\* A goroutine that goes where it does not touch the array.
LEMMA AsideArrays ==
  ASSUME NEW w \in Procs, \A v \in Procs : v # w => Same(v), pc'[w] \in Aside, UNCHANGED <<cap, ptr, mem>>, RoomInv, CopyInv
  PROVE  RoomInv' /\ CopyInv'
<1>1. \A v \in Procs : pc'[v] \in Writing \cup {"publish", "resize"} => Same(v)
  BY DEF Aside, Writing
<1>2. RoomInv'
  BY <1>1 DEF RoomInv, Same, Writing
<1>3. \A v \in Procs : Same(v) /\ Copied(v) => Copied(v)'
  BY DEF Same, Copied
<1>4. CopyInv'
  BY <1>1, <1>3 DEF CopyInv, Same
<1> QED
  BY <1>2, <1>4

\* The same, when nothing is returned.
LEMMA AsideContent ==
  ASSUME NEW w \in Procs, \A v \in Procs : v # w => Same(v), pc'[w] \in Aside, UNCHANGED <<ptr, mem, returned>>, ContentInv, ReadInv
  PROVE  ContentInv' /\ ReadInv'
<1>1. \A v \in Procs : pc'[v] \in {"count", "settle", "ok", "advance", "read"} => Same(v)
  BY DEF Aside
<1>2. ContentInv'
  BY <1>1 DEF ContentInv, Same
<1>3. ReadInv'
  BY <1>1 DEF ReadInv, Same
<1> QED
  BY <1>2, <1>3

\* What only depends on where a goroutine is and on its own variables.
LEMMA ElsewhereKept ==
  ASSUME NEW w \in Procs, \A v \in Procs : v # w => Same(v), UNCHANGED returned
  PROVE  /\ pc'[w] \notin {"base", "read"} /\ BaseInv => BaseInv'
         /\ pc'[w] # "loaded" /\ LoadsReturnAppended => LoadsReturnAppended'
         /\ pc'[w] \notin Appending \cup {"claim"} /\ ElemInv => ElemInv'
<1>1. \A v \in Procs : v # w => pc'[v] = pc[v] /\ idx'[v] = idx[v] /\ val'[v] = val[v] /\ seen'[v] = seen[v]
  BY DEF Same
<1>2. Indices' = Indices
  BY DEF Indices
<1>3. ASSUME pc'[w] \notin {"base", "read"}, BaseInv PROVE BaseInv'
  BY <1>1, <1>2, <1>3 DEF BaseInv
<1>4. ASSUME pc'[w] # "loaded", LoadsReturnAppended PROVE LoadsReturnAppended'
  BY <1>1, <1>4 DEF LoadsReturnAppended
<1>5. ASSUME pc'[w] \notin Appending \cup {"claim"}, ElemInv PROVE ElemInv'
  BY <1>1, <1>5 DEF ElemInv
<1> QED
  BY <1>3, <1>4, <1>5

\* A goroutine that does not write: the one that makes the array grow stays alone with it.
LEMMA AsideGrowth ==
  ASSUME NEW w \in Procs, \A v \in Procs : v # w => Same(v), pc'[w] \in Aside, UNCHANGED <<cap, len>>, GrowInv,
         \A r \in returned' : r \in returned \/ cap < 0 \/ r[1] < cap,
         pc'[w] = "size" => idx'[w] >= cap \/ \A v \in Procs : pc[v] \notin {"grow", "publish", "resize"}
  PROVE  GrowInv'
<1>1. \A v \in Procs : v # w => pc'[v] = pc[v] /\ idx'[v] = idx[v]
  BY DEF Same
<1>2. \A v \in Procs : pc'[v] \in Growing \cup Writing \cup {"advance", "settle", "ok"} => v # w
  BY DEF Aside, Growing, Writing
<1>3. \A v \in Procs : v = w /\ pc'[v] \in Uncounted => pc'[v] = "size"
  BY DEF Aside, Uncounted
<1>4. (cap >= 0 \/ \A v \in Procs : pc[v] \notin Growing)'
  BY <1>1, <1>2 DEF GrowInv
<1>5. (\A v \in Procs : pc[v] \in Growing => idx[v] = cap)'
  BY <1>1, <1>2 DEF GrowInv
<1>6. ASSUME NEW v \in Procs, pc'[v] \in {"grow", "publish", "resize"}
      PROVE  len' >= idx'[v] /\ \A u \in Procs : pc'[u] \in Uncounted => idx'[u] >= cap'
  <2>1. v # w /\ pc[v] = pc'[v] /\ idx'[v] = idx[v]
    BY <1>1, <1>2, <1>6 DEF Growing
  <2>2. len >= idx[v] /\ \A u \in Procs : pc[u] \in Uncounted => idx[u] >= cap
    BY <1>6, <2>1 DEF GrowInv
  <2>3. pc'[w] = "size" => idx'[w] >= cap
    BY <1>6, <2>1
  <2> QED
    BY <1>1, <1>3, <2>1, <2>2, <2>3
<1>7. (\A v \in Procs : pc[v] = "advance" => len >= idx[v] /\ (cap < 0 \/ idx[v] < cap))'
  BY <1>1, <1>2 DEF GrowInv
<1>8. (\A v \in Procs : pc[v] \in Writing \cup {"settle", "ok"} => cap < 0 \/ idx[v] < cap)'
  BY <1>1, <1>2 DEF GrowInv
<1>9. (\A r \in returned : cap < 0 \/ r[1] < cap)'
  BY DEF GrowInv
<1> QED
  BY <1>4, <1>5, <1>6, <1>7, <1>8, <1>9 DEF GrowInv

\* What only depends on the indices and elements of the Appends, when one takes a step.
LEMMA AppendKeeps ==
  ASSUME NEW n \in Nat, NEW w \in Procs, \A v \in Procs : v # w => Same(v), UNCHANGED <<next, val, idx, returned>>,
         pc[w] \in Appending, pc'[w] \in Appending, IndexInv(n), ElemInv, BaseInv, LoadsReturnAppended
  PROVE  IndexInv(n)' /\ ElemInv' /\ BaseInv' /\ LoadsReturnAppended'
<1>1. \A v \in Procs : pc'[v] \in Appending => pc[v] \in Appending
  BY DEF Same
<1>2. IndexInv(n)'
  BY <1>1 DEF IndexInv, IndicesUnique
<1>3. pc'[w] \notin {"base", "read", "loaded", "claim"}
  BY DEF Appending, Uncounted
<1>4. ElemInv'
  <2>1. \A v \in Procs : pc'[v] \in Appending \cup {"claim"} => pc[v] \in Appending \cup {"claim"}
    BY <1>1, <1>3, Zenon DEF Same
  <2> QED
    BY <2>1, Zenon DEF ElemInv
<1>5. BaseInv' /\ LoadsReturnAppended'
  BY <1>3, ElsewhereKept
<1> QED
  BY <1>2, <1>4, <1>5

\* The index is inside of the array: only the goroutine that read the capacity moves.
LEMMA FastPathStep ==
  ASSUME NEW n \in Nat, Core(n), NEW w \in Procs, FastPath(w)
  PROVE  Core(n)'
<1> USE DEF Core
<1>a. /\ pc[w] = "size" /\ idx[w] < cap
      /\ \A v \in Procs : pc'[v] = IF v = w THEN "pointer" ELSE pc[v]
  BY DEF FastPath, Step, Goto, LogTypeOK
<1>p. pc' = [pc EXCEPT ![w] = "pointer"]
  BY DEF FastPath, Step, Goto
<1>b. UNCHANGED <<next, len, cap, ptr, mem, val, idx, arr, seen, calls, returned>>
  BY DEF FastPath, shared, LogTypeOK
<1>t. cap \in Int /\ len \in Nat /\ idx \in [Procs -> Nat] /\ seen \in [Procs -> Nat] /\ (\A r \in returned : r[1] \in Nat)
  BY DEF LogTypeOK
<1>s. (\A v \in Procs : v # w => Same(v)) /\ pc[w] \in Appending /\ pc'[w] \in Appending
  BY <1>a, <1>b DEF Same, Appending, Uncounted
<1>1. LogTypeOK'
  BY <1>p, <1>b DEF LogTypeOK, Pcs, Appending, Loading, Uncounted
<1>2. IndexInv(n)' /\ ElemInv' /\ BaseInv' /\ LoadsReturnAppended'
  BY <1>b, <1>s, AppendKeeps
<1>3. CapInv(n)'
  BY <1>a, <1>b DEF CapInv, Uncounted
<1>4. GrowInv'
  BY <1>a, <1>b, <1>t DEF GrowInv, Growing, Writing, Uncounted
<1>5. RoomInv'
  BY <1>a, <1>b, <1>t DEF RoomInv, Writing
<1>7. ContentInv'
  BY <1>a, <1>b DEF ContentInv
<1>8. CopyInv'
  BY <1>a, <1>b DEF CopyInv, Copied
<1>9. LenInv'
  BY <1>a, <1>b, <1>t DEF LenInv
<1>11. ReadInv'
  BY <1>a, <1>b DEF ReadInv
<1> QED
  BY <1>1, <1>2, <1>3, <1>4, <1>5, <1>7, <1>8, <1>9, <1>11

\* The goroutine whose index equals the capacity will make the array grow.
LEMMA SlowPathStep ==
  ASSUME NEW n \in Nat, Core(n), NEW w \in Procs, SlowPath(w)
  PROVE  Core(n)'
<1> USE DEF Core
<1>a. /\ pc[w] = "size" /\ idx[w] = cap
      /\ \A v \in Procs : pc'[v] = IF v = w THEN "drain" ELSE pc[v]
  BY DEF SlowPath, Step, Goto, LogTypeOK
<1>p. pc' = [pc EXCEPT ![w] = "drain"]
  BY DEF SlowPath, Step, Goto
<1>b. UNCHANGED <<next, len, cap, ptr, mem, val, idx, arr, seen, calls, returned>>
  BY DEF SlowPath, shared, LogTypeOK
<1>t. cap \in Int /\ len \in Nat /\ idx \in [Procs -> Nat] /\ seen \in [Procs -> Nat] /\ (\A r \in returned : r[1] \in Nat)
  BY DEF LogTypeOK
<1>s. (\A v \in Procs : v # w => Same(v)) /\ pc[w] \in Appending /\ pc'[w] \in Appending
  BY <1>a, <1>b DEF Same, Appending, Uncounted
<1>1. LogTypeOK'
  BY <1>p, <1>b DEF LogTypeOK, Pcs, Appending, Loading, Uncounted
<1>2. IndexInv(n)' /\ ElemInv' /\ BaseInv' /\ LoadsReturnAppended'
  BY <1>b, <1>s, AppendKeeps
<1>3. CapInv(n)'
  BY <1>a, <1>b DEF CapInv, Uncounted
<1>4. GrowInv'
  BY <1>a, <1>b, <1>t DEF GrowInv, Growing, Writing, Uncounted
<1>5. RoomInv'
  BY <1>a, <1>b, <1>t DEF RoomInv, Writing
<1>7. ContentInv'
  BY <1>a, <1>b DEF ContentInv
<1>8. CopyInv'
  BY <1>a, <1>b DEF CopyInv, Copied
<1>9. LenInv'
  BY <1>a, <1>b, <1>t DEF LenInv
<1>11. ReadInv'
  BY <1>a, <1>b DEF ReadInv
<1> QED
  BY <1>1, <1>2, <1>3, <1>4, <1>5, <1>7, <1>8, <1>9, <1>11

\* A writer reads the pointer, which nobody replaces while it is counted out.
LEMMA FastPointerStep ==
  ASSUME NEW n \in Nat, Core(n), NEW w \in Procs, FastPointer(w)
  PROVE  Core(n)'
<1> USE DEF Core
<1>a. /\ pc[w] = "pointer"
      /\ \A v \in Procs : pc'[v] = IF v = w THEN "write" ELSE pc[v]
  BY DEF FastPointer, Step, Goto, LogTypeOK
<1>p. pc' = [pc EXCEPT ![w] = "write"]
  BY DEF FastPointer, Step, Goto
<1>b. UNCHANGED <<next, len, cap, ptr, mem, val, idx, seen, calls, returned>> /\ arr' = [arr EXCEPT ![w] = ptr] /\ (\A v \in Procs : arr'[v] = IF v = w THEN ptr ELSE arr[v])
  BY DEF FastPointer, shared, LogTypeOK
<1>t. cap \in Int /\ len \in Nat /\ idx \in [Procs -> Nat] /\ seen \in [Procs -> Nat] /\ (\A r \in returned : r[1] \in Nat)
  BY DEF LogTypeOK
<1>s. (\A v \in Procs : v # w => Same(v)) /\ pc[w] \in Appending /\ pc'[w] \in Appending
  BY <1>a, <1>b DEF Same, Appending, Uncounted
<1>1. LogTypeOK'
  BY <1>p, <1>b DEF LogTypeOK, Pcs, Appending, Loading, Uncounted
<1>2. IndexInv(n)' /\ ElemInv' /\ BaseInv' /\ LoadsReturnAppended'
  BY <1>b, <1>s, AppendKeeps
<1>3. CapInv(n)'
  BY <1>a, <1>b DEF CapInv, Uncounted
<1>4. GrowInv'
  BY <1>a, <1>b, <1>t DEF GrowInv, Growing, Writing, Uncounted
<1>5. RoomInv'
  BY <1>a, <1>b, <1>t DEF RoomInv, Writing
<1>7. ContentInv'
  BY <1>a, <1>b DEF ContentInv
<1>8. CopyInv'
  BY <1>a, <1>b DEF CopyInv, Copied
<1>9. LenInv'
  BY <1>a, <1>b, <1>t DEF LenInv
<1>11. ReadInv'
  BY <1>a, <1>b DEF ReadInv
<1> QED
  BY <1>1, <1>2, <1>3, <1>4, <1>5, <1>7, <1>8, <1>9, <1>11

\* A writer counts itself after its write.
LEMMA FastCountStep ==
  ASSUME NEW n \in Nat, Core(n), NEW w \in Procs, FastCount(w)
  PROVE  Core(n)'
<1> USE DEF Core
<1>a. /\ pc[w] = "count"
      /\ \A v \in Procs : pc'[v] = IF v = w THEN "settle" ELSE pc[v]
  BY DEF FastCount, Step, Goto, LogTypeOK
<1>p. pc' = [pc EXCEPT ![w] = "settle"]
  BY DEF FastCount, Step, Goto
<1>b. UNCHANGED <<next, cap, ptr, mem, val, idx, arr, seen, calls, returned>> /\ len' = len + 1
  BY DEF FastCount, shared, LogTypeOK
<1>t. cap \in Int /\ len \in Nat /\ idx \in [Procs -> Nat] /\ seen \in [Procs -> Nat] /\ (\A r \in returned : r[1] \in Nat)
  BY DEF LogTypeOK
<1>s. (\A v \in Procs : v # w => Same(v)) /\ pc[w] \in Appending /\ pc'[w] \in Appending
  BY <1>a, <1>b DEF Same, Appending, Uncounted
<1>1. LogTypeOK'
  BY <1>p, <1>b DEF LogTypeOK, Pcs, Appending, Loading, Uncounted
<1>2. IndexInv(n)' /\ ElemInv' /\ BaseInv' /\ LoadsReturnAppended'
  BY <1>b, <1>s, AppendKeeps
<1>3. CapInv(n)'
  <2> SUFFICES ASSUME cap >= 0, NEW i \in cap..n - 1 PROVE \E v \in Procs : pc'[v] \in Uncounted /\ idx[v] = i
    BY <1>b DEF CapInv
  <2>1. PICK v \in Procs : pc[v] \in Uncounted /\ idx[v] = i
    BY DEF CapInv
  <2>2. v # w
    BY <1>a, <1>t, <2>1 DEF GrowInv, Writing
  <2> QED
    BY <1>a, <2>1, <2>2
<1>4. GrowInv'
  BY <1>a, <1>b, <1>t DEF GrowInv, Growing, Writing, Uncounted
<1>5. RoomInv'
  BY <1>a, <1>b, <1>t DEF RoomInv, Writing
<1>7. ContentInv'
  BY <1>a, <1>b DEF ContentInv
<1>8. CopyInv'
  BY <1>a, <1>b DEF CopyInv, Copied
<1>9. LenInv'
  BY <1>a, <1>b, <1>t DEF LenInv
<1>11. ReadInv'
  BY <1>a, <1>b DEF ReadInv
<1> QED
  BY <1>1, <1>2, <1>3, <1>4, <1>5, <1>7, <1>8, <1>9, <1>11

\* It returns when len covers its index.
LEMMA FastSettleStep ==
  ASSUME NEW n \in Nat, Core(n), NEW w \in Procs, FastSettle(w)
  PROVE  Core(n)'
<1> USE DEF Core
<1>a. /\ pc[w] = "settle" /\ len > idx[w]
      /\ \A v \in Procs : pc'[v] = IF v = w THEN "ok" ELSE pc[v]
  BY DEF FastSettle, Step, Goto, LogTypeOK
<1>p. pc' = [pc EXCEPT ![w] = "ok"]
  BY DEF FastSettle, Step, Goto
<1>b. UNCHANGED <<next, len, cap, ptr, mem, val, idx, arr, seen, calls, returned>>
  BY DEF FastSettle, shared, LogTypeOK
<1>t. cap \in Int /\ len \in Nat /\ idx \in [Procs -> Nat] /\ seen \in [Procs -> Nat] /\ (\A r \in returned : r[1] \in Nat)
  BY DEF LogTypeOK
<1>s. (\A v \in Procs : v # w => Same(v)) /\ pc[w] \in Appending /\ pc'[w] \in Appending
  BY <1>a, <1>b DEF Same, Appending, Uncounted
<1>1. LogTypeOK'
  BY <1>p, <1>b DEF LogTypeOK, Pcs, Appending, Loading, Uncounted
<1>2. IndexInv(n)' /\ ElemInv' /\ BaseInv' /\ LoadsReturnAppended'
  BY <1>b, <1>s, AppendKeeps
<1>3. CapInv(n)'
  BY <1>a, <1>b DEF CapInv, Uncounted
<1>4. GrowInv'
  BY <1>a, <1>b, <1>t DEF GrowInv, Growing, Writing, Uncounted
<1>5. RoomInv'
  BY <1>a, <1>b, <1>t DEF RoomInv, Writing
<1>7. ContentInv'
  BY <1>a, <1>b DEF ContentInv
<1>8. CopyInv'
  BY <1>a, <1>b DEF CopyInv, Copied
<1>9. LenInv'
  BY <1>a, <1>b, <1>t DEF LenInv
<1>11. ReadInv'
  BY <1>a, <1>b DEF ReadInv
<1> QED
  BY <1>1, <1>2, <1>3, <1>4, <1>5, <1>7, <1>8, <1>9, <1>11

\* Once no index inside of the array is uncounted, the grower is alone with it.
LEMMA DrainStep ==
  ASSUME NEW n \in Nat, Core(n), NEW w \in Procs, Drain(w), \A v \in Procs : pc[v] \in Uncounted => idx[v] >= cap
  PROVE  Core(n)'
<1> USE DEF Core
<1>a. /\ pc[w] = "drain" /\ len = idx[w]
      /\ \A v \in Procs : pc'[v] = IF v = w THEN "grow" ELSE pc[v]
  BY DEF Drain, Step, Goto, LogTypeOK
<1>p. pc' = [pc EXCEPT ![w] = "grow"]
  BY DEF Drain, Step, Goto
<1>b. UNCHANGED <<next, len, cap, ptr, mem, val, idx, arr, seen, calls, returned>>
  BY DEF Drain, shared, LogTypeOK
<1>t. cap \in Int /\ len \in Nat /\ idx \in [Procs -> Nat] /\ seen \in [Procs -> Nat] /\ (\A r \in returned : r[1] \in Nat)
  BY DEF LogTypeOK
<1>s. (\A v \in Procs : v # w => Same(v)) /\ pc[w] \in Appending /\ pc'[w] \in Appending
  BY <1>a, <1>b DEF Same, Appending, Uncounted
<1>1. LogTypeOK'
  BY <1>p, <1>b DEF LogTypeOK, Pcs, Appending, Loading, Uncounted
<1>2. IndexInv(n)' /\ ElemInv' /\ BaseInv' /\ LoadsReturnAppended'
  BY <1>b, <1>s, AppendKeeps
<1>3. CapInv(n)'
  BY <1>a, <1>b DEF CapInv, Uncounted
<1>4. GrowInv'
  BY <1>a, <1>b, <1>t DEF GrowInv, Growing, Writing, Uncounted
<1>5. RoomInv'
  BY <1>a, <1>b, <1>t DEF RoomInv, Writing
<1>7. ContentInv'
  BY <1>a, <1>b, Zenon DEF ContentInv
<1>8. CopyInv'
  BY <1>a, <1>b DEF CopyInv, Copied
<1>9. LenInv'
  BY <1>a, <1>b, <1>t DEF LenInv
<1>11. ReadInv'
  BY <1>a, <1>b DEF ReadInv
<1> QED
  BY <1>1, <1>2, <1>3, <1>4, <1>5, <1>7, <1>8, <1>9, <1>11

\* The grower counts itself; len covers its index, as all before were counted.
LEMMA SlowCountStep ==
  ASSUME NEW n \in Nat, Core(n), NEW w \in Procs, SlowCount(w)
  PROVE  Core(n)'
<1> USE DEF Core
<1>a. /\ pc[w] = "advance"
      /\ \A v \in Procs : pc'[v] = IF v = w THEN "ok" ELSE pc[v]
  BY DEF SlowCount, Step, Goto, LogTypeOK
<1>p. pc' = [pc EXCEPT ![w] = "ok"]
  BY DEF SlowCount, Step, Goto
<1>b. UNCHANGED <<next, cap, ptr, mem, val, idx, arr, seen, calls, returned>> /\ len' = len + 1
  BY DEF SlowCount, shared, LogTypeOK
<1>t. cap \in Int /\ len \in Nat /\ idx \in [Procs -> Nat] /\ seen \in [Procs -> Nat] /\ (\A r \in returned : r[1] \in Nat)
  BY DEF LogTypeOK
<1>s. (\A v \in Procs : v # w => Same(v)) /\ pc[w] \in Appending /\ pc'[w] \in Appending
  BY <1>a, <1>b DEF Same, Appending, Uncounted
<1>1. LogTypeOK'
  BY <1>p, <1>b DEF LogTypeOK, Pcs, Appending, Loading, Uncounted
<1>2. IndexInv(n)' /\ ElemInv' /\ BaseInv' /\ LoadsReturnAppended'
  BY <1>b, <1>s, AppendKeeps
<1>3. CapInv(n)'
  <2> SUFFICES ASSUME cap >= 0, NEW i \in cap..n - 1 PROVE \E v \in Procs : pc'[v] \in Uncounted /\ idx[v] = i
    BY <1>b DEF CapInv
  <2>1. PICK v \in Procs : pc[v] \in Uncounted /\ idx[v] = i
    BY DEF CapInv
  <2>2. v # w
    BY <1>a, <1>t, <2>1 DEF GrowInv, Writing
  <2> QED
    BY <1>a, <2>1, <2>2
<1>4. GrowInv'
  BY <1>a, <1>b, <1>t DEF GrowInv, Growing, Writing, Uncounted
<1>5. RoomInv'
  BY <1>a, <1>b, <1>t DEF RoomInv, Writing
<1>7. ContentInv'
  BY <1>a, <1>b DEF ContentInv
<1>8. CopyInv'
  BY <1>a, <1>b DEF CopyInv, Copied
<1>9. LenInv'
  <2>1. idx[w] < len' /\ \A i \in Nat : i < len => i < len'
    BY <1>a, <1>b, <1>t DEF GrowInv
  <2>2. UNCHANGED <<idx, returned>> /\ idx \in [Procs -> Nat] /\ \A r \in returned : r[1] \in Nat
    BY <1>b, <1>t
  <2> QED
    BY <1>a, <2>1, <2>2, Zenon DEF LenInv
<1>11. ReadInv'
  BY <1>a, <1>b, Zenon DEF ReadInv
<1> QED
  BY <1>1, <1>2, <1>3, <1>4, <1>5, <1>7, <1>8, <1>9, <1>11

\* Load reads the pointer after len: the array holds all that len covered.
LEMMA LoadPtrStep ==
  ASSUME NEW n \in Nat, Core(n), NEW w \in Procs, LoadPtr(w)
  PROVE  Core(n)'
<1> USE DEF Core
<1>a. /\ pc[w] = "base"
      /\ \A v \in Procs : pc'[v] = IF v = w THEN "read" ELSE pc[v]
  BY DEF LoadPtr, Step, Goto, LogTypeOK
<1>p. pc' = [pc EXCEPT ![w] = "read"]
  BY DEF LoadPtr, Step, Goto
<1>b. UNCHANGED <<next, len, cap, ptr, mem, val, idx, seen, calls, returned>> /\ arr' = [arr EXCEPT ![w] = ptr] /\ (\A v \in Procs : arr'[v] = IF v = w THEN ptr ELSE arr[v])
  BY DEF LoadPtr, shared, LogTypeOK
<1>t. cap \in Int /\ len \in Nat /\ idx \in [Procs -> Nat] /\ seen \in [Procs -> Nat] /\ (\A r \in returned : r[1] \in Nat)
  BY DEF LogTypeOK
<1>1. LogTypeOK'
  BY <1>p, <1>b DEF LogTypeOK, Pcs, Appending, Loading, Uncounted
<1>2. IndexInv(n)'
  BY <1>a, <1>b DEF IndexInv, IndicesUnique, Appending, Uncounted
<1>3. CapInv(n)'
  BY <1>a, <1>b DEF CapInv, Uncounted
<1>4. GrowInv'
  BY <1>a, <1>b, <1>t DEF GrowInv, Growing, Writing, Uncounted
<1>5. RoomInv'
  BY <1>a, <1>b, <1>t, Zenon DEF RoomInv, Writing
<1>6. ElemInv'
  BY <1>a, <1>b DEF ElemInv, Appending, Uncounted
<1>7. ContentInv'
  BY <1>a, <1>b, Zenon DEF ContentInv
<1>8. CopyInv'
  <2>1. \A v \in Procs : pc'[v] \in {"publish", "resize"} => pc[v] = pc'[v] /\ arr'[v] = arr[v]
    BY <1>a, <1>b
  <2>2. \A v \in Procs : arr'[v] = arr[v] /\ Copied(v) => Copied(v)'
    BY <1>b, Zenon DEF Copied
  <2>3. ptr' = ptr
    BY <1>b
  <2> QED
    BY <2>1, <2>2, <2>3, Zenon DEF CopyInv
<1>9. LenInv'
  BY <1>a, <1>b, <1>t DEF LenInv
<1>10. BaseInv'
  BY <1>a, <1>b DEF BaseInv, Indices
<1>11. ReadInv'
  <2> SUFFICES ASSUME NEW v \in Procs, pc'[v] = "read" PROVE \E r \in returned : r[1] = idx[v] /\ Has(mem, arr'[v], r[1], r[2])
    BY <1>b DEF ReadInv
  <2>1. CASE v = w
    <3>1. PICK r \in returned : r[1] = idx[w]
      BY <1>a DEF BaseInv, Indices
    <3> QED
      BY <1>b, <2>1, <3>1 DEF ContentInv
  <2>2. CASE v # w
    BY <1>a, <1>b, <2>2 DEF ReadInv
  <2> QED
    BY <2>1, <2>2
<1>12. LoadsReturnAppended'
  BY <1>a, <1>b DEF LoadsReturnAppended
<1> QED
  BY <1>1, <1>2, <1>3, <1>4, <1>5, <1>6, <1>7, <1>8, <1>9, <1>10, <1>11, <1>12

\* The new capacity is that of the array in use, or negative.
LEMMA PublishCapStep ==
  ASSUME NEW n \in Nat, Core(n), NEW w \in Procs, PublishCap(w)
  PROVE  Core(n)'
<1> USE DEF Core
<1>a. /\ pc[w] = "resize"
      /\ \A v \in Procs : pc'[v] = IF v = w THEN "advance" ELSE pc[v]
  BY DEF PublishCap, Step, Goto, LogTypeOK
<1>p. pc' = [pc EXCEPT ![w] = "advance"]
  BY DEF PublishCap, Step, Goto
<1>b. UNCHANGED <<next, len, ptr, mem, val, idx, arr, seen, calls, returned>>
  BY DEF PublishCap, shared, LogTypeOK
<1>t. cap \in Int /\ len \in Nat /\ idx \in [Procs -> Nat] /\ seen \in [Procs -> Nat] /\ (\A r \in returned : r[1] \in Nat)
  BY DEF LogTypeOK
<1>c. idx[w] = cap /\ cap >= 0 /\ cap \in Nat /\ Copied(w) /\ arr[w] = ptr
  BY <1>a, <1>t DEF GrowInv, CopyInv, Growing
<1>d. cap' \in Int /\ (cap' < 0 \/ (cap' = seen[w] /\ cap' > cap))
  BY <1>c, <1>t, MaxIntAssumption DEF PublishCap, Wrap, Copied
<1>e. \A v \in Procs : v # w => pc[v] \notin Growing \cup {"advance"}
  BY <1>a, <1>c, <1>t DEF GrowInv, Growing, IndexInv, Appending, Uncounted
<1>s. (\A v \in Procs : v # w => Same(v)) /\ pc[w] \in Appending /\ pc'[w] \in Appending
  BY <1>a, <1>b DEF Same, Appending, Uncounted
<1>1. LogTypeOK'
  BY <1>p, <1>b, <1>d DEF LogTypeOK, Pcs, Appending, Uncounted
<1>2. IndexInv(n)' /\ ElemInv' /\ BaseInv' /\ LoadsReturnAppended'
  BY <1>b, <1>s, AppendKeeps
<1>3. CapInv(n)'
  BY <1>a, <1>b, <1>c, <1>d DEF CapInv, Uncounted
<1>4. GrowInv'
  BY <1>a, <1>b, <1>c, <1>d, <1>e, <1>t DEF GrowInv, Growing, Writing
<1>5. RoomInv'
  <2>0. \A i \in 0..seen[w] - 1 : In(mem, i, ptr)
    BY <1>c, Zenon DEF Copied
  <2>1. ASSUME NEW i, i \in 0..cap' - 1 PROVE In(mem, i, ptr)
    <3>1. i \in 0..seen[w] - 1
      BY <1>d, <1>t, <2>1, UpTo, Zenon
    <3> QED
      BY <2>0, <3>1
  <2>2. (\A i \in 0..cap - 1 : In(mem, i, ptr))'
    BY <1>b, <2>1
  <2>3. UNCHANGED <<mem, ptr, idx, arr>> /\ \A v \in Procs : pc'[v] \in Writing => pc[v] = pc'[v]
    BY <1>a, <1>b, Zenon DEF Writing
  <2>4. (\A v \in Procs : pc[v] \in Writing => In(mem, idx[v], ptr))'
    BY <2>3, Zenon DEF RoomInv
  <2>5. (\A v \in Procs : pc[v] \in {"write", "count"} => arr[v] = ptr)'
    BY <2>3, Zenon DEF RoomInv, Writing
  <2> QED
    BY <2>2, <2>4, <2>5, Zenon DEF RoomInv
<1>7. ContentInv'
  BY <1>a, <1>b, <1>c, Zenon DEF ContentInv, Copied
<1>8. CopyInv'
  BY <1>a, <1>b, Zenon DEF CopyInv, Copied
<1>9. LenInv'
  BY <1>a, <1>b, <1>t, Zenon DEF LenInv
<1>11. ReadInv'
  BY <1>a, <1>b DEF ReadInv
<1> QED
  BY <1>1, <1>2, <1>3, <1>4, <1>5, <1>7, <1>8, <1>9, <1>11

\* The new array has what the old one had.
LEMMA PublishPtrStep ==
  ASSUME NEW n \in Nat, Core(n), NEW w \in Procs, PublishPtr(w)
  PROVE  Core(n)'
<1> USE DEF Core
<1>a. /\ pc[w] = "publish"
      /\ \A v \in Procs : pc'[v] = IF v = w THEN "resize" ELSE pc[v]
  BY DEF PublishPtr, Step, Goto, LogTypeOK
<1>p. pc' = [pc EXCEPT ![w] = "resize"]
  BY DEF PublishPtr, Step, Goto
<1>b. UNCHANGED <<next, len, cap, mem, val, idx, arr, seen, calls, returned>> /\ ptr' = arr[w]
  BY DEF PublishPtr, shared, LogTypeOK
<1>t. cap \in Int /\ len \in Nat /\ idx \in [Procs -> Nat] /\ seen \in [Procs -> Nat] /\ (\A r \in returned : r[1] \in Nat)
  BY DEF LogTypeOK
<1>c. idx[w] = cap /\ cap >= 0 /\ cap \in Nat /\ Copied(w)
  BY <1>a, <1>t DEF GrowInv, CopyInv, Growing
<1>d. \A v \in Procs : pc[v] \notin Writing \cup {"advance"}
  BY <1>a, <1>c, <1>t DEF GrowInv, Writing, Uncounted
<1>e. \A v \in Procs : v # w => pc[v] \notin {"publish", "resize"}
  BY <1>a, <1>c, <1>t, Zenon DEF GrowInv, Growing, IndexInv, Appending, Uncounted
<1>f. \A i \in Nat : i < cap => In(mem, i, arr[w]) /\ mem[arr[w]][i] = mem[ptr][i]
  <2>1. \A i \in Nat : i < cap => i \in 0..idx[w] - 1
    BY <1>c
  <2> QED
    BY <1>c, <2>1, Zenon DEF Copied
<1>g. \A v : \A i \in Nat : i < cap /\ Has(mem, ptr, i, v) => Has(mem, ptr', i, v)
  BY <1>b, <1>f, Zenon DEF Has
<1>s. (\A v \in Procs : v # w => Same(v)) /\ pc[w] \in Appending /\ pc'[w] \in Appending
  BY <1>a, <1>b, Zenon DEF Same, Appending, Uncounted
<1>1. LogTypeOK'
  BY <1>p, <1>b DEF LogTypeOK, Pcs, Appending, Uncounted
<1>2. IndexInv(n)' /\ ElemInv' /\ BaseInv' /\ LoadsReturnAppended'
  BY <1>b, <1>s, AppendKeeps
<1>3. CapInv(n)'
  BY <1>a, <1>b DEF CapInv, Uncounted
<1>4. GrowInv'
  BY <1>a, <1>b, <1>t DEF GrowInv, Growing, Writing, Uncounted
<1>5. RoomInv'
  <2>1. (\A i \in 0..cap - 1 : In(mem, i, ptr))'
    BY <1>b, <1>c, <1>f
  <2> QED
    BY <1>a, <1>b, <1>d, <2>1, Zenon DEF RoomInv, Writing
<1>7. ContentInv'
  <2>1. \A v \in Procs : pc[v] \in {"settle", "ok"} => idx[v] \in Nat /\ idx[v] < cap
    BY <1>c, <1>t DEF GrowInv
  <2>2. \A r \in returned : r[1] \in Nat /\ r[1] < cap
    BY <1>c, <1>t DEF GrowInv
  <2> QED
    BY <1>a, <1>b, <1>d, <1>g, <2>1, <2>2, Zenon DEF ContentInv, Writing
<1>8. CopyInv'
  BY <1>a, <1>b, <1>c, <1>e, Zenon DEF CopyInv, Copied
<1>9. LenInv'
  BY <1>a, <1>b, <1>t DEF LenInv
<1>11. ReadInv'
  BY <1>a, <1>b DEF ReadInv
<1> QED
  BY <1>1, <1>2, <1>3, <1>4, <1>5, <1>7, <1>8, <1>9, <1>11

\* Load reads the element that was returned with its index.
LEMMA LoadReadStep ==
  ASSUME NEW n \in Nat, Core(n), NEW w \in Procs, LoadRead(w)
  PROVE  Core(n)'
<1> USE DEF Core
<1>a. /\ pc[w] = "read" /\ idx[w] < seen[w]
      /\ \A v \in Procs : pc'[v] = IF v = w THEN "loaded" ELSE pc[v]
  BY DEF LoadRead, Step, Goto, LogTypeOK, BaseInv
<1>p. pc' = [pc EXCEPT ![w] = "loaded"]
  BY <1>a, Zenon DEF LoadRead, Step, Goto
<1>b. UNCHANGED <<next, len, cap, ptr, mem, idx, arr, seen, calls, returned>>
  BY DEF LoadRead, shared, LogTypeOK, BaseInv
<1>t. cap \in Int /\ len \in Nat /\ idx \in [Procs -> Nat] /\ seen \in [Procs -> Nat] /\ (\A r \in returned : r[1] \in Nat)
  BY DEF LogTypeOK
<1>c. PICK r \in returned : r[1] = idx[w] /\ Has(mem, arr[w], r[1], r[2])
  BY <1>a, Zenon DEF ReadInv
<1>d. r = <<idx[w], r[2]>> /\ r[2] \in Elems
  BY <1>c DEF LogTypeOK
<1>e. val' = [val EXCEPT ![w] = r[2]] /\ \A v \in Procs : val'[v] = IF v = w THEN r[2] ELSE val[v]
  BY <1>a, <1>c DEF LoadRead, Has, LogTypeOK
<1>z. (\A v \in Procs : v # w => Same(v)) /\ pc'[w] \in Aside
  BY <1>a, <1>b, <1>e DEF Same, Aside
<1>y. RoomInv' /\ CopyInv'
  BY <1>b, <1>z, AsideArrays
<1>x. ContentInv' /\ ReadInv'
  BY <1>b, <1>z, AsideContent
<1>w. pc'[w] # "size"
  BY <1>a
<1>u. pc'[w] \notin Appending \cup {"claim"} /\ UNCHANGED returned
  BY <1>a, <1>b DEF Appending, Uncounted
<1>1. LogTypeOK'
  BY <1>p, <1>b, <1>d, <1>e DEF LogTypeOK, Pcs, Loading
<1>2. IndexInv(n)'
  BY <1>a, <1>b DEF IndexInv, IndicesUnique, Appending, Uncounted
<1>3. CapInv(n)'
  BY <1>a, <1>b, Zenon DEF CapInv, Uncounted
<1>4. GrowInv'
  BY <1>b, <1>w, <1>z, AsideGrowth, Zenon
<1>5. RoomInv'
  BY <1>y
<1>6. ElemInv'
  BY <1>u, <1>z, ElsewhereKept
<1>7. ContentInv'
  BY <1>x
<1>8. CopyInv'
  BY <1>y
<1>9. LenInv'
  BY <1>a, <1>b, <1>t DEF LenInv
<1>10. BaseInv'
  BY <1>a, <1>b DEF BaseInv, Indices
<1>11. ReadInv'
  BY <1>x
<1>12. LoadsReturnAppended'
  BY <1>a, <1>b, <1>d, <1>e DEF LoadsReturnAppended
<1> QED
  BY <1>1, <1>2, <1>3, <1>4, <1>5, <1>6, <1>7, <1>8, <1>9, <1>10, <1>11, <1>12

\* A write at an index changes what no other index holds.
LEMMA FastWriteStep ==
  ASSUME NEW n \in Nat, Core(n), NEW w \in Procs, FastWrite(w)
  PROVE  Core(n)'
<1> USE DEF Core
<1>a. /\ pc[w] = "write"
      /\ \A v \in Procs : pc'[v] = IF v = w THEN "count" ELSE pc[v]
  BY DEF FastWrite, Step, Goto, LogTypeOK
<1>p. pc' = [pc EXCEPT ![w] = "count"]
  BY DEF FastWrite, Step, Goto
<1>b. UNCHANGED <<next, len, cap, ptr, val, idx, arr, seen, calls, returned>>
  BY DEF FastWrite, shared, LogTypeOK
<1>t. cap \in Int /\ len \in Nat /\ idx \in [Procs -> Nat] /\ seen \in [Procs -> Nat] /\ (\A r \in returned : r[1] \in Nat)
  BY DEF LogTypeOK
<1>c. In(mem, idx[w], ptr) /\ arr[w] = ptr /\ ptr \in 1..Len(mem) /\ val[w] \in Vals
  BY <1>a DEF RoomInv, ElemInv, In, Writing, LogTypeOK, Appending, Uncounted
<1>d. /\ mem' \in Seq(Blocks) /\ Len(mem') = Len(mem)
      /\ \A a \in 1..Len(mem) : DOMAIN mem'[a] = DOMAIN mem[a]
      /\ \A a \in 1..Len(mem) : \A i \in DOMAIN mem[a] : (a # ptr \/ i # idx[w]) => mem'[a][i] = mem[a][i]
      /\ mem'[ptr][idx[w]] = val[w]
  <2> DEFINE b == [mem[ptr] EXCEPT ![idx[w]] = val[w]]
  <2>1. mem' = [mem EXCEPT ![ptr] = b]
    BY <1>c DEF FastWrite
  <2>2. b \in Blocks
    BY <1>c, BlockExcept DEF In, LogTypeOK, Elems
  <2>3. DOMAIN b = DOMAIN mem[ptr] /\ b[idx[w]] = val[w] /\ \A i \in DOMAIN mem[ptr] : i # idx[w] => b[i] = mem[ptr][i]
    BY <1>c DEF In
  <2> HIDE DEF b
  <2> QED
    BY <1>c, <2>1, <2>2, <2>3 DEF LogTypeOK
<1>e. \A i : \A a \in 0..Len(mem) : In(mem', i, a) <=> In(mem, i, a)
  BY <1>d DEF In
<1>f. \A i, v : \A a \in 0..Len(mem) : i # idx[w] /\ Has(mem, a, i, v) => Has(mem', a, i, v)
  BY <1>d DEF In, Has
<1>g. Has(mem', ptr, idx[w], val[w])
  BY <1>c, <1>d DEF In, Has
<1>h. \A v \in Procs : pc[v] \notin {"publish", "resize"}
  <2>1. cap < 0 \/ ~(idx[w] >= cap)
    BY <1>a, <1>t DEF GrowInv, Writing
  <2> QED
    BY <1>a, <1>t, <2>1 DEF GrowInv, Uncounted, Growing
<1>i. /\ \A v \in Procs : v # w /\ pc[v] \in Appending => idx[v] # idx[w]
      /\ \A r \in returned : r[1] # idx[w]
  BY <1>a DEF IndexInv, Appending, Uncounted
<1>j. ptr \in 0..Len(mem) /\ arr \in [Procs -> 0..Len(mem)]
  BY DEF LogTypeOK
<1>k. UNCHANGED <<cap, idx>>
  BY <1>b
<1>s. (\A v \in Procs : v # w => Same(v)) /\ pc[w] \in Appending /\ pc'[w] \in Appending
  BY <1>a, <1>b DEF Same, Appending, Uncounted
<1>1. LogTypeOK'
  BY <1>p, <1>b, <1>d DEF LogTypeOK, Pcs, Appending, Uncounted
<1>2. IndexInv(n)' /\ ElemInv' /\ BaseInv' /\ LoadsReturnAppended'
  BY <1>b, <1>s, AppendKeeps
<1>3. CapInv(n)'
  BY <1>a, <1>k DEF CapInv, Uncounted
<1>4. GrowInv'
  BY <1>a, <1>b, <1>t, Zenon DEF GrowInv, Growing, Writing, Uncounted
<1>5. RoomInv'
  BY <1>a, <1>b, <1>c, <1>e, <1>j, Zenon DEF RoomInv, Writing
<1>7. ContentInv'
  BY <1>a, <1>b, <1>f, <1>g, <1>i, <1>j, Zenon DEF ContentInv, Appending, Uncounted
<1>8. CopyInv'
  BY <1>a, <1>h DEF CopyInv
<1>9. LenInv'
  BY <1>a, <1>b, <1>t, Zenon DEF LenInv
<1>11. ReadInv'
  BY <1>a, <1>b, <1>f, <1>i, <1>j, Zenon DEF ReadInv
<1> QED
  BY <1>1, <1>2, <1>3, <1>4, <1>5, <1>7, <1>8, <1>9, <1>11

\* The copy has everything that was returned, and the new element.
LEMMA GrowStep ==
  ASSUME NEW n \in Nat, Core(n), NEW w \in Procs, Grow(w)
  PROVE  Core(n)'
<1> USE DEF Core
<1>a. /\ pc[w] = "grow"
      /\ \A v \in Procs : pc'[v] = IF v = w THEN "publish" ELSE pc[v]
  BY DEF Grow, Step, Goto, LogTypeOK
<1>p. pc' = [pc EXCEPT ![w] = "publish"]
  BY DEF Grow, Step, Goto
<1>b. UNCHANGED <<next, len, cap, ptr, val, idx, calls, returned>> /\ arr' = [arr EXCEPT ![w] = Len(mem) + 1]
  BY DEF Grow, shared, LogTypeOK
<1>t. cap \in Int /\ len \in Nat /\ idx \in [Procs -> Nat] /\ seen \in [Procs -> Nat] /\ (\A r \in returned : r[1] \in Nat)
  BY DEF LogTypeOK
<1>c. idx[w] = cap /\ cap >= 0 /\ cap \in Nat /\ val[w] \in Vals /\ idx[w] < MaxInt
  <2>1. idx[w] = cap /\ cap >= 0
    BY <1>a, <1>t DEF GrowInv, Growing
  <2>2. val[w] \in Vals
    BY <1>a DEF ElemInv, Appending, Uncounted
  <2>3. idx[w] < n /\ n <= MaxInt
    BY <1>a DEF IndexInv, Appending, Uncounted
  <2> QED
    BY <1>t, <2>1, <2>2, <2>3, MaxIntAssumption
<1> DEFINE old == IF ptr = 0 THEN <<>> ELSE mem[ptr]
<1>d. PICK d \in Growths : mem' = Append(mem, Grown(idx[w], d, old, val[w])) /\ seen' = [seen EXCEPT ![w] = idx[w] + d]
  BY Zenon DEF Grow
<1>e. d \in Nat /\ d > 0 /\ idx[w] + d <= 2 * MaxInt + 1 /\ idx[w] \in Nat
  BY <1>c, <1>t, GrowthsAssumption, MaxIntAssumption
<1> DEFINE b == Grown(idx[w], d, old, val[w])
<1>f. \A i \in 0..idx[w] - 1 : old[i] \in Elems /\ old = mem[ptr]
  <2> TAKE i \in 0..idx[w] - 1
  <2>1. In(mem, i, ptr)
    BY <1>c DEF RoomInv
  <2>2. mem[ptr] \in Blocks
    BY <2>1 DEF In, LogTypeOK
  <2> QED
    BY <2>1, <2>2, BlockElem, Zenon DEF In
<1>g. b \in [0..idx[w] + d - 1 -> Elems] /\ idx[w] + d - 1 \in Nat
  BY <1>c, <1>e, <1>f DEF Grown, Elems
<1>o. b \in Blocks
  BY <1>g DEF Blocks
<1>h. /\ DOMAIN b = 0..idx[w] + d - 1 /\ b[idx[w]] = val[w]
      /\ \A i \in 0..idx[w] - 1 : b[i] = mem[ptr][i]
  <2>1. DOMAIN b = 0..idx[w] + d - 1
    BY <1>g
  <2>2. idx[w] \in 0..idx[w] + d - 1 /\ ~(idx[w] < idx[w])
    BY <1>e
  <2>3. b[idx[w]] = val[w]
    BY <2>2 DEF Grown
  <2>4. ASSUME NEW i \in 0..idx[w] - 1 PROVE b[i] = old[i]
    <3>1. i \in 0..idx[w] + d - 1 /\ i < idx[w]
      BY <1>e
    <3> QED
      BY <3>1 DEF Grown
  <2> QED
    BY <1>f, <2>1, <2>3, <2>4, Zenon
<1> HIDE DEF b, old
<1>i. /\ mem' \in Seq(Blocks) /\ Len(mem') = Len(mem) + 1 /\ mem'[Len(mem) + 1] = b
      /\ \A a \in 1..Len(mem) : mem'[a] = mem[a]
  BY <1>d, <1>o, Kept, Zenon DEF b
<1>j. Len(mem) \in Nat /\ ptr \in 0..Len(mem) /\ arr \in [Procs -> 0..Len(mem)]
  BY DEF LogTypeOK
<1>k. \A v \in Procs : /\ arr'[v] = IF v = w THEN Len(mem) + 1 ELSE arr[v]
                       /\ seen'[v] = IF v = w THEN idx[w] + d ELSE seen[v]
  BY <1>b, <1>d, <1>j, <1>t
<1>l. \A i : \A a \in 0..Len(mem) : In(mem, i, a) => In(mem', i, a)
  BY <1>i, <1>j DEF In
<1>m. \A i, v : \A a \in 0..Len(mem) : Has(mem, a, i, v) => Has(mem', a, i, v)
  BY <1>i, <1>j DEF In, Has
<1>n. \A v \in Procs : v # w => pc[v] \notin {"publish", "resize"}
  BY <1>a, <1>c, <1>t, Zenon DEF GrowInv, Growing, IndexInv, Appending, Uncounted
<1>s. (\A v \in Procs : v # w => Same(v)) /\ pc[w] \in Appending /\ pc'[w] \in Appending
  <2>1. UNCHANGED <<val, idx>>
    BY <1>b
  <2>2. \A v \in Procs : v # w => pc'[v] = pc[v] /\ arr'[v] = arr[v] /\ seen'[v] = seen[v]
    BY <1>a, <1>k, Zenon
  <2> QED
    BY <1>a, <2>1, <2>2, Zenon DEF Same, Appending, Uncounted
<1>1. LogTypeOK'
  <2>1. arr' \in [Procs -> 0..Len(mem')] /\ ptr' \in 0..Len(mem') /\ mem' \in Seq(Blocks)
    BY <1>b, <1>i, <1>j
  <2>2. seen' \in [Procs -> Nat]
    BY <1>d, <1>e, <1>t
  <2> QED
    BY <1>p, <1>b, <2>1, <2>2 DEF LogTypeOK, Pcs, Appending, Uncounted
<1>2. IndexInv(n)' /\ ElemInv' /\ BaseInv' /\ LoadsReturnAppended'
  BY <1>b, <1>s, AppendKeeps
<1>3. CapInv(n)'
  BY <1>a, <1>b DEF CapInv, Uncounted
<1>4. GrowInv'
  BY <1>a, <1>b, <1>t, Zenon DEF GrowInv, Growing, Writing, Uncounted
<1>5. RoomInv'
  <2>1. (\A i \in 0..cap - 1 : In(mem, i, ptr))'
    BY <1>b, <1>j, <1>l DEF RoomInv
  <2>2. (\A v \in Procs : pc[v] \in Writing => In(mem, idx[v], ptr))'
    BY <1>a, <1>b, <1>j, <1>l, Zenon DEF RoomInv, Writing
  <2>3. (\A v \in Procs : pc[v] \in {"write", "count"} => arr[v] = ptr)'
    <3>1. ptr' = ptr /\ \A v \in Procs : pc'[v] \in {"write", "count"} => pc'[v] = pc[v] /\ arr'[v] = arr[v]
      BY <1>a, <1>b, <1>k
    <3> QED
      BY <3>1, Zenon DEF RoomInv
  <2> QED
    BY <2>1, <2>2, <2>3, Zenon DEF RoomInv
<1>7. ContentInv'
  BY <1>a, <1>b, <1>j, <1>m, Zenon DEF ContentInv
<1>8. CopyInv'
  <2>1. ptr \in 1..Len(mem) \/ idx[w] = 0
    <3>1. idx[w] # 0 => 0 \in 0..cap - 1
      BY <1>c, <1>e
    <3>2. idx[w] # 0 => ptr # 0
      BY <3>1, Zenon DEF RoomInv, In
    <3> QED
      BY <1>j, <3>2
  <2>2. mem'[Len(mem) + 1] = b /\ Len(mem) + 1 # 0
    BY <1>i, <1>j
  <2>3. arr'[w] = Len(mem) + 1 /\ idx'[w] = idx[w] /\ val'[w] = val[w] /\ seen'[w] = idx[w] + d /\ ptr' = ptr
    BY <1>b, <1>k, Zenon
  <2>4. \A i \in 0..idx[w] + d - 1 : In(mem', i, arr'[w])
    BY <1>h, <2>2, <2>3, Zenon DEF In
  <2>5. idx[w] \in 0..idx[w] + d - 1 /\ \A i \in 0..idx[w] - 1 : i \in 0..idx[w] + d - 1
    BY <1>e
  <2>6. Has(mem', arr'[w], idx'[w], val'[w])
    BY <1>h, <2>2, <2>3, <2>4, <2>5, Zenon DEF Has
  <2>7. \A i \in 0..idx[w] - 1 : In(mem', i, arr'[w]) /\ mem'[arr'[w]][i] = mem'[ptr'][i]
    <3> TAKE i \in 0..idx[w] - 1
    <3>1. ptr \in 1..Len(mem)
      BY <1>e, <2>1
    <3>2. mem'[ptr] = mem[ptr]
      BY <1>i, <3>1
    <3> QED
      BY <1>h, <2>2, <2>3, <2>4, <2>5, <3>2, Zenon
  <2>8. seen'[w] > idx'[w]
    <3>1. d \in Nat /\ d > 0 /\ idx[w] \in Nat
      BY <1>e
    <3>2. idx[w] + d > idx[w]
      BY <3>1
    <3> QED
      BY <2>3, <3>2
  <2>9. seen'[w] <= 2 * MaxInt + 1
    BY <1>e, <2>3
  <2>10. \A i \in 0..idx'[w] - 1 : In(mem', i, arr'[w]) /\ mem'[arr'[w]][i] = mem'[ptr'][i]
    BY <2>3, <2>7, Zenon
  <2>11. \A i \in 0..seen'[w] - 1 : In(mem', i, arr'[w])
    <3>1. seen'[w] = idx[w] + d
      BY <2>3, Zenon
    <3> TAKE i \in 0..seen'[w] - 1
    <3>2. i \in 0..idx[w] + d - 1
      BY <1>e, <3>1
    <3> QED
      BY <2>4, <3>2, Zenon
  <2>12. Copied(w)'
    BY <2>6, <2>8, <2>9, <2>10, <2>11, Zenon DEF Copied
  <2> QED
    BY <1>a, <1>n, <2>12, Zenon DEF CopyInv
<1>9. LenInv'
  BY <1>a, <1>b, <1>t, Zenon DEF LenInv
<1>11. ReadInv'
  <2>1. UNCHANGED <<idx, returned>> /\ \A v \in Procs : pc'[v] = "read" => pc[v] = "read" /\ arr'[v] = arr[v]
    BY <1>a, <1>b, <1>k, Zenon
  <2>2. \A v \in Procs : arr[v] \in 0..Len(mem)
    BY <1>j
  <2> QED
    <3> SUFFICES ASSUME NEW v \in Procs, pc'[v] = "read"
                 PROVE  \E r \in returned : r[1] = idx[v] /\ Has(mem', arr[v], r[1], r[2])
      BY <2>1, Zenon DEF ReadInv
    <3>1. PICK r \in returned : r[1] = idx[v] /\ Has(mem, arr[v], r[1], r[2])
      BY <2>1, Zenon DEF ReadInv
    <3>2. Has(mem', arr[v], r[1], r[2])
      BY <1>m, <2>2, <3>1, Zenon
    <3> QED
      BY <3>1, <3>2, Zenon
<1> QED
  BY <1>1, <1>2, <1>3, <1>4, <1>5, <1>7, <1>8, <1>9, <1>11
===============================================================================
