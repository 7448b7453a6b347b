------------------------------- MODULE LogProofs -------------------------------
(***************************************************************************)
(* Machine-checked theorems about Log, for every set of goroutines, every  *)
(* MaxInt and every way in which arrays grow.                              *)
(***************************************************************************)
EXTENDS LogSteps, FiniteSetTheorems

\* Appends that have not taken an index.
Claiming == {w \in Procs : pc[w] = "claim"}

\* How often next was advanced.
Taken == IF next < 0 THEN next + 2 * (MaxInt + 1) ELSE next

LogInv ==
  /\ \E n \in Nat : Core(n) /\ n = len + Cardinality(Pending)
  /\ Taken + Cardinality(Claiming) = calls
  /\ calls <= 2 * MaxInt + 1

-----------------------------------------------------------------------------
(* The steps that give out an index, take a new call or end one.           *)

\* Append returns an index that is covered by len and written.
LEMMA ReturnStep ==
  ASSUME NEW n \in Nat, Core(n), NEW w \in Procs, Return(w)
  PROVE  Core(n)'
<1> USE DEF Core
<1>t. cap \in Int /\ len \in Nat /\ idx \in [Procs -> Nat] /\ seen \in [Procs -> Nat] /\ (\A r \in returned : r[1] \in Nat)
  BY DEF LogTypeOK
<1>a. /\ pc[w] \in {"ok", "failed", "loaded"}
      /\ pc' = [pc EXCEPT ![w] = "idle"] /\ \A v \in Procs : pc'[v] = IF v = w THEN "idle" ELSE pc[v]
  BY DEF Return, Goto, LogTypeOK
<1>b. /\ val' = [val EXCEPT ![w] = Blank] /\ idx' = [idx EXCEPT ![w] = 0]
      /\ arr' = [arr EXCEPT ![w] = 0] /\ seen' = [seen EXCEPT ![w] = 0]
      /\ UNCHANGED <<next, len, cap, ptr, mem, calls>>
  BY DEF Return, shared
<1>c. \A v \in Procs : v # w => val'[v] = val[v] /\ idx'[v] = idx[v] /\ arr'[v] = arr[v] /\ seen'[v] = seen[v]
  BY <1>b DEF LogTypeOK
<1>d. /\ returned \subseteq returned'
      /\ \A r \in returned' : r \in returned \/ (pc[w] = "ok" /\ r = <<idx[w], val[w]>>)
  BY DEF Return
<1>e. \A v \in Procs : pc'[v] # "idle" => v # w /\ pc'[v] = pc[v]
  BY <1>a
<1>f. \A r \in returned' : r \notin returned => pc[w] = "ok" /\ r[1] = idx[w] /\ r[2] = val[w] /\ r[1] \in Nat /\ r[2] \in Elems
  BY <1>d DEF LogTypeOK
<1>g. Indices \subseteq Indices'
  BY <1>d DEF Indices
<1>z. (\A v \in Procs : v # w => Same(v)) /\ pc'[w] \in Aside
  BY <1>a, <1>c DEF Same, Aside
<1>y. RoomInv' /\ CopyInv'
  BY <1>b, <1>z, AsideArrays
<1>1. LogTypeOK'
  <2>1. returned' \subseteq Nat \X Elems
    BY <1>d DEF LogTypeOK
  <2> QED
    <3>1. Blank \in Elems /\ 0 \in 0..Len(mem) /\ "idle" \in Pcs
      BY DEF LogTypeOK, Pcs, Elems
    <3>2. val' \in [Procs -> Elems] /\ idx' \in [Procs -> Nat] /\ seen' \in [Procs -> Nat]
      BY <1>b, <3>1 DEF LogTypeOK
    <3>3. arr' \in [Procs -> 0..Len(mem)]
      BY <1>b, <3>1 DEF LogTypeOK
    <3>4. pc' \in [Procs -> Pcs]
      BY <1>a, <3>1 DEF LogTypeOK
    <3>5. UNCHANGED <<next, len, cap, ptr, mem, calls>>
      BY <1>b
    <3> QED
      BY <2>1, <3>2, <3>3, <3>4, <3>5 DEF LogTypeOK
<1>2. IndexInv(n)'
  <2>1. ASSUME NEW v \in Procs, pc'[v] \in Appending
        PROVE  v # w /\ pc'[v] = pc[v] /\ idx'[v] = idx[v] /\ \A r \in returned' : r[1] # idx[v]
    <3>1. v # w /\ pc'[v] = pc[v] /\ idx'[v] = idx[v]
      BY <1>c, <1>e, <2>1 DEF Appending, Uncounted
    <3>2. \A r \in returned : r[1] # idx[v]
      BY <2>1, <3>1 DEF IndexInv
    <3>3. pc[w] = "ok" => idx[w] # idx[v]
      BY <2>1, <3>1 DEF IndexInv, Appending
    <3> QED
      BY <1>f, <3>1, <3>2, <3>3
  <2>2. \A r \in returned' : r[1] < n
    BY <1>f DEF IndexInv, Appending
  <2>3. IndicesUnique'
    BY <1>d, <1>f DEF IndexInv, IndicesUnique, Appending
  <2> QED
    <3>1. next' = next
      BY <1>b
    <3>2. \A v \in Procs : pc'[v] \in Appending =>
             /\ idx'[v] < n
             /\ \A u \in Procs : pc'[u] \in Appending /\ idx'[u] = idx'[v] => u = v
      BY <2>1 DEF IndexInv
    <3> QED
      BY <2>1, <2>2, <2>3, <3>1, <3>2 DEF IndexInv
<1>3. CapInv(n)'
  BY <1>a, <1>b, <1>c DEF CapInv, Uncounted
<1>4. GrowInv'
  <2>1. \A r \in returned' : cap < 0 \/ r[1] < cap
    BY <1>f DEF GrowInv
  <2> QED
    <3>1. UNCHANGED <<cap, len>> /\ pc'[w] # "size"
      BY <1>a, <1>b
    <3> QED
      BY <1>z, <2>1, <3>1, AsideGrowth
<1>5. RoomInv'
  BY <1>y
<1>6. ElemInv'
  BY <1>a, <1>b, <1>c, <1>e DEF ElemInv, Appending, Uncounted
<1>7. ContentInv'
  BY <1>a, <1>b, <1>c, <1>f DEF ContentInv
<1>8. CopyInv'
  BY <1>y
<1>9. LenInv'
  BY <1>a, <1>b, <1>c, <1>f DEF LenInv
<1>10. BaseInv'
  BY <1>a, <1>b, <1>c, <1>g DEF BaseInv
<1>11. ReadInv'
  BY <1>a, <1>b, <1>c, <1>d DEF ReadInv
<1>12. LoadsReturnAppended'
  BY <1>c, <1>d, <1>e DEF LoadsReturnAppended
<1> QED
  BY <1>1, <1>2, <1>3, <1>4, <1>5, <1>6, <1>7, <1>8, <1>9, <1>10, <1>11, <1>12

\* A Load of a returned index reads a len that covers it.
LEMMA LoadLenStep ==
  ASSUME NEW n \in Nat, Core(n), NEW w \in Procs, NEW i \in Indices, LoadLen(w, i)
  PROVE  Core(n)'
<1> USE DEF Core
<1>a. /\ pc[w] = "idle"
      /\ pc' = [pc EXCEPT ![w] = "base"] /\ \A v \in Procs : pc'[v] = IF v = w THEN "base" ELSE pc[v]
  BY DEF LoadLen, Step, Goto, LogTypeOK
<1>b. UNCHANGED <<next, len, cap, ptr, mem, val, arr, calls, returned>> /\ idx' = [idx EXCEPT ![w] = i] /\ (\A v \in Procs : idx'[v] = IF v = w THEN i ELSE idx[v]) /\ seen' = [seen EXCEPT ![w] = len] /\ (\A v \in Procs : seen'[v] = IF v = w THEN len ELSE seen[v])
  BY DEF LoadLen, shared, LogTypeOK
<1>t. cap \in Int /\ len \in Nat /\ idx \in [Procs -> Nat] /\ seen \in [Procs -> Nat] /\ (\A r \in returned : r[1] \in Nat)
  BY DEF LogTypeOK
<1>c. i \in Nat /\ i < len
  BY <1>t DEF LenInv, Indices
<1>z. (\A v \in Procs : v # w => Same(v)) /\ pc'[w] \in Aside
  BY <1>a, <1>b DEF Same, Aside
<1>y. RoomInv' /\ CopyInv'
  BY <1>b, <1>z, AsideArrays
<1>x. ContentInv' /\ ReadInv'
  BY <1>b, <1>z, AsideContent
<1>w. pc'[w] # "size"
  BY <1>a
<1>u. pc'[w] \notin Appending \cup {"claim"} /\ UNCHANGED returned
  BY <1>a, <1>b DEF Appending, Uncounted
<1>1. LogTypeOK'
  BY <1>a, <1>b, <1>c DEF LogTypeOK, Pcs, Loading
<1>2. IndexInv(n)'
  BY <1>a, <1>b DEF IndexInv, IndicesUnique, Appending, Uncounted
<1>3. CapInv(n)'
  BY <1>a, <1>b DEF CapInv, Uncounted
<1>4. GrowInv'
  BY <1>b, <1>w, <1>z, AsideGrowth
<1>5. RoomInv'
  BY <1>y
<1>6. ElemInv'
  BY <1>u, <1>z, ElsewhereKept
<1>7. ContentInv'
  BY <1>x
<1>8. CopyInv'
  BY <1>y
<1>9. LenInv'
  BY <1>a, <1>b, <1>t DEF LenInv
<1>10. BaseInv'
  BY <1>a, <1>b, <1>c DEF BaseInv, Indices
<1>11. ReadInv'
  BY <1>x
<1>12. LoadsReturnAppended'
  BY <1>a, <1>b DEF LoadsReturnAppended
<1> QED
  BY <1>1, <1>2, <1>3, <1>4, <1>5, <1>6, <1>7, <1>8, <1>9, <1>10, <1>11, <1>12

\* A call of Append takes nothing yet.
LEMMA CallAppendStep ==
  ASSUME NEW n \in Nat, Core(n), NEW w \in Procs, NEW x \in Vals, CallAppend(w, x)
  PROVE  Core(n)'
<1> USE DEF Core
<1>a. /\ pc[w] = "idle"
      /\ pc' = [pc EXCEPT ![w] = "claim"] /\ \A v \in Procs : pc'[v] = IF v = w THEN "claim" ELSE pc[v]
  BY DEF CallAppend, Step, Goto, LogTypeOK
<1>b. UNCHANGED <<next, len, cap, ptr, mem, idx, arr, seen, returned>> /\ calls' = calls + 1 /\ val' = [val EXCEPT ![w] = x] /\ (\A v \in Procs : val'[v] = IF v = w THEN x ELSE val[v])
  BY DEF CallAppend, shared, LogTypeOK
<1>t. cap \in Int /\ len \in Nat /\ idx \in [Procs -> Nat] /\ seen \in [Procs -> Nat] /\ (\A r \in returned : r[1] \in Nat)
  BY DEF LogTypeOK
<1>z. (\A v \in Procs : v # w => Same(v)) /\ pc'[w] \in Aside
  BY <1>a, <1>b DEF Same, Aside
<1>y. RoomInv' /\ CopyInv'
  BY <1>b, <1>z, AsideArrays
<1>x. ContentInv' /\ ReadInv'
  BY <1>b, <1>z, AsideContent
<1>e. \A v \in Procs : pc'[v] \in Appending \cup {"loaded"} => v # w /\ pc'[v] = pc[v]
  BY <1>a DEF Appending, Uncounted
<1>f. UNCHANGED <<next, idx, returned>>
  BY <1>b
<1>w. pc'[w] # "size"
  BY <1>a
<1>1. LogTypeOK'
  BY <1>a, <1>b DEF LogTypeOK, Pcs, Elems
<1>2. IndexInv(n)'
  BY <1>e, <1>f DEF IndexInv, IndicesUnique
<1>3. CapInv(n)'
  BY <1>a, <1>b DEF CapInv, Uncounted
<1>4. GrowInv'
  BY <1>b, <1>w, <1>z, AsideGrowth
<1>5. RoomInv'
  BY <1>y
<1>6. ElemInv'
  BY <1>a, <1>b DEF ElemInv, Appending, Uncounted
<1>7. ContentInv'
  BY <1>x
<1>8. CopyInv'
  BY <1>y
<1>9. LenInv'
  BY <1>a, <1>b, <1>t DEF LenInv
<1>10. BaseInv'
  BY <1>a, <1>b DEF BaseInv, Indices
<1>11. ReadInv'
  BY <1>x
<1>12. LoadsReturnAppended'
  BY <1>e, <1>f, <1>z DEF LoadsReturnAppended, Same
<1> QED
  BY <1>1, <1>2, <1>3, <1>4, <1>5, <1>6, <1>7, <1>8, <1>9, <1>10, <1>11, <1>12

\* An Append that finds no index left takes none.
LEMMA ClaimFails ==
  ASSUME NEW n \in Nat, Core(n), NEW w \in Procs, Claim(w), next' < 0
  PROVE  Core(n)'
<1> USE DEF Core
<1>t. cap \in Int /\ len \in Nat /\ idx \in [Procs -> Nat] /\ seen \in [Procs -> Nat] /\ (\A r \in returned : r[1] \in Nat)
  BY DEF LogTypeOK
<1>a. /\ pc[w] = "claim"
      /\ pc' = [pc EXCEPT ![w] = "failed"] /\ \A v \in Procs : pc'[v] = IF v = w THEN "failed" ELSE pc[v]
  BY DEF Claim, Step, Goto, LogTypeOK
<1>b. UNCHANGED <<len, cap, ptr, mem, val, arr, seen, calls, returned>> /\ idx' = [idx EXCEPT ![w] = 0] /\ \A v \in Procs : v # w => idx'[v] = idx[v]
  BY DEF Claim, LogTypeOK
<1>c. next' \in Int /\ next' <= MaxInt
  BY MaxIntAssumption DEF Claim, Wrap, LogTypeOK
<1>z. (\A v \in Procs : v # w => Same(v)) /\ pc'[w] \in Aside
  BY <1>a, <1>b DEF Same, Aside
<1>y. RoomInv' /\ CopyInv'
  BY <1>b, <1>z, AsideArrays
<1>x. ContentInv' /\ ReadInv'
  BY <1>b, <1>z, AsideContent
<1>w. pc'[w] # "size"
  BY <1>a
<1>u. pc'[w] \notin {"base", "read", "loaded"} /\ UNCHANGED returned
  BY <1>a, <1>b
<1>1. LogTypeOK'
  BY <1>a, <1>b, <1>c DEF LogTypeOK, Pcs
<1>2. IndexInv(n)'
  BY <1>a, <1>b DEF IndexInv, IndicesUnique, Appending, Uncounted
<1>3. CapInv(n)'
  BY <1>a, <1>b DEF CapInv, Uncounted
<1>4. GrowInv'
  BY <1>b, <1>w, <1>z, AsideGrowth
<1>5. RoomInv'
  BY <1>y
<1>6. ElemInv'
  BY <1>a, <1>b DEF ElemInv, Appending, Uncounted
<1>7. ContentInv'
  BY <1>x
<1>8. CopyInv'
  BY <1>y
<1>9. LenInv'
  BY <1>a, <1>b, <1>t DEF LenInv
<1>10. BaseInv'
  BY <1>u, <1>z, ElsewhereKept
<1>11. ReadInv'
  BY <1>x
<1>12. LoadsReturnAppended'
  BY <1>u, <1>z, ElsewhereKept
<1> QED
  BY <1>1, <1>2, <1>3, <1>4, <1>5, <1>6, <1>7, <1>8, <1>9, <1>10, <1>11, <1>12

\* The index an Append takes is the next one.
LEMMA ClaimStep ==
  ASSUME NEW n \in Nat, Core(n), NEW w \in Procs, Claim(w), next' >= 0, next # -1
  PROVE  Core(n + 1)'
<1> USE DEF Core
<1>t. cap \in Int /\ len \in Nat /\ idx \in [Procs -> Nat] /\ seen \in [Procs -> Nat] /\ (\A r \in returned : r[1] \in Nat)
  BY DEF LogTypeOK
<1>c. next' = next + 1 /\ next \in 0..MaxInt - 1 /\ next = n
  BY MaxIntAssumption DEF Claim, Wrap, LogTypeOK, IndexInv
<1>d. next' = Wrap(next + 1) /\ ~(next' < 0) /\ next' - 1 = n
  BY <1>c, MaxIntAssumption DEF Claim
<1>a. /\ pc[w] = "claim"
      /\ pc' = [pc EXCEPT ![w] = "size"] /\ \A v \in Procs : pc'[v] = IF v = w THEN "size" ELSE pc[v]
  BY <1>d DEF Claim, Step, Goto, LogTypeOK
<1>b. UNCHANGED <<len, cap, ptr, mem, val, arr, seen, calls, returned>> /\ idx' = [idx EXCEPT ![w] = n] /\ \A v \in Procs : idx'[v] = IF v = w THEN n ELSE idx[v]
  BY <1>d DEF Claim, LogTypeOK
<1>z. (\A v \in Procs : v # w => Same(v)) /\ pc'[w] \in Aside
  BY <1>a, <1>b DEF Same, Aside
<1>y. RoomInv' /\ CopyInv'
  BY <1>b, <1>z, AsideArrays
<1>x. ContentInv' /\ ReadInv'
  BY <1>b, <1>z, AsideContent
<1>e. idx'[w] = n /\ pc'[w] = "size"
  BY <1>a, <1>b
<1>u. pc'[w] \notin {"base", "read", "loaded"} /\ UNCHANGED returned
  BY <1>a, <1>b
<1>1. LogTypeOK'
  BY <1>a, <1>b, <1>c, MaxIntAssumption DEF LogTypeOK, Pcs, Appending, Uncounted
<1>2. IndexInv(n + 1)'
  <2>1. n + 1 <= MaxInt /\ (next' \in 0..MaxInt - 1 => next' = n + 1)
    BY <1>c, MaxIntAssumption
  <2>2. ASSUME NEW v \in Procs, pc'[v] \in Appending
        PROVE  /\ idx'[v] < n + 1
               /\ \A u \in Procs : pc'[u] \in Appending /\ idx'[u] = idx'[v] => u = v
               /\ \A r \in returned : r[1] # idx'[v]
    <3>1. \A u \in Procs : u # w /\ pc'[u] \in Appending => pc[u] \in Appending /\ idx'[u] = idx[u] /\ idx[u] < n /\ idx[u] \in Nat
      BY <1>a, <1>b, <1>t DEF IndexInv
    <3>2. CASE v = w
      <4>1. \A u \in Procs : u # w /\ pc'[u] \in Appending => idx'[u] # n
        BY <3>1
      <4>2. \A r \in returned : r[1] # n
        BY <1>t DEF IndexInv
      <4> QED
        BY <1>e, <3>2, <4>1, <4>2
    <3>3. CASE v # w
      <4>1. pc[v] \in Appending /\ idx'[v] = idx[v] /\ idx[v] < n /\ idx[v] \in Nat
        BY <2>2, <3>1, <3>3
      <4>2. ASSUME NEW u \in Procs, pc'[u] \in Appending, idx'[u] = idx'[v] PROVE u = v
        <5>1. u # w
          BY <1>e, <4>1, <4>2
        <5> QED
          BY <3>1, <4>1, <4>2, <5>1 DEF IndexInv
      <4>3. \A r \in returned : r[1] # idx[v]
        BY <4>1 DEF IndexInv
      <4>4. idx'[v] < n + 1
        BY <4>1
      <4> QED
        BY <4>1, <4>2, <4>3, <4>4
    <3> QED
      BY <3>2, <3>3
  <2>3. \A r \in returned : r[1] < n + 1
    BY <1>t DEF IndexInv
  <2> QED
    BY <1>b, <2>1, <2>2, <2>3 DEF IndexInv, IndicesUnique
<1>3. CapInv(n + 1)'
  <2> SUFFICES ASSUME cap >= 0, NEW i \in cap..n PROVE \E v \in Procs : pc'[v] \in Uncounted /\ idx'[v] = i
    <3>1. cap' = cap /\ cap..(n + 1) - 1 = cap..n
      BY <1>b, <1>t
    <3> QED
      BY <3>1 DEF CapInv
  <2>1. CASE i = n
    BY <1>a, <1>b, <2>1 DEF Uncounted
  <2>2. CASE i # n
    <3>1. PICK v \in Procs : pc[v] \in Uncounted /\ idx[v] = i
      BY <1>t, <2>2 DEF CapInv
    <3> QED
      BY <1>a, <1>b, <3>1 DEF Uncounted
  <2> QED
    BY <2>1, <2>2
<1>4. GrowInv'
  <2>1. \A v \in Procs : pc[v] \in {"grow", "publish", "resize"} => n >= cap
    BY <1>t DEF GrowInv, IndexInv, Growing, Appending, Uncounted
  <2> QED
    BY <1>b, <1>e, <1>z, <2>1, AsideGrowth
<1>5. RoomInv'
  BY <1>y
<1>6. ElemInv'
  BY <1>a, <1>b DEF ElemInv, Appending, Uncounted
<1>7. ContentInv'
  BY <1>x
<1>8. CopyInv'
  BY <1>y
<1>9. LenInv'
  BY <1>a, <1>b, <1>t DEF LenInv
<1>10. BaseInv'
  BY <1>u, <1>z, ElsewhereKept
<1>11. ReadInv'
  BY <1>x
<1>12. LoadsReturnAppended'
  BY <1>u, <1>z, ElsewhereKept
<1> QED
  BY <1>1, <1>2, <1>3, <1>4, <1>5, <1>6, <1>7, <1>8, <1>9, <1>10, <1>11, <1>12

-----------------------------------------------------------------------------
(* Sets of goroutines.                                                     *)

\* The sets of goroutines are finite.
LEMMA FinitePending ==
  /\ IsFiniteSet(Pending) /\ Cardinality(Pending) \in Nat
  /\ IsFiniteSet(Claiming) /\ Cardinality(Claiming) \in Nat
<1>1. Pending \in SUBSET Procs /\ Claiming \in SUBSET Procs
  BY DEF Pending, Claiming
<1> QED
  BY <1>1, ProcsAssumption, FS_Subset, FS_CardinalityType

\* One more.
LEMMA Joins ==
  ASSUME NEW S, NEW T, NEW x, IsFiniteSet(S), x \notin S, T = S \cup {x}
  PROVE  Cardinality(T) = Cardinality(S) + 1
  BY FS_AddElement

\* One less.
LEMMA Leaves ==
  ASSUME NEW S, NEW T, NEW x, IsFiniteSet(S), x \in S, T = S \ {x}
  PROVE  Cardinality(T) = Cardinality(S) - 1
  BY FS_RemoveElement

\* The steps that take no index and count none.
LEMMA QuietStep ==
  ASSUME LogTypeOK, NEW w \in Procs, NEW l,
         pc' = [pc EXCEPT ![w] = l], pc[w] \in Uncounted <=> l \in Uncounted, pc[w] # "claim", l # "claim"
  PROVE  Pending' = Pending /\ Claiming' = Claiming
<1>1. \A v \in Procs : pc'[v] = IF v = w THEN l ELSE pc[v]
  BY DEF LogTypeOK
<1> QED
  BY <1>1 DEF Pending, Claiming

\* When as many Appends are counted as the array has room for, those that
\* are not counted have indices beyond it.
LEMMA NoWriterLeft ==
  ASSUME NEW n \in Nat, Core(n), n = len + Cardinality(Pending), NEW w \in Procs, Drain(w)
  PROVE  \A v \in Procs : pc[v] \in Uncounted => idx[v] >= cap
<1>1. /\ pc[w] = "drain" /\ len = idx[w] /\ idx[w] = cap /\ cap \in Nat /\ len \in Nat
      /\ idx \in [Procs -> Nat] /\ n > cap
  BY DEF Core, LogTypeOK, GrowInv, Growing, IndexInv, Appending, Uncounted, Drain, Step
<1>2. \A i \in cap..n - 1 : \E v \in Pending : idx[v] = i
  BY <1>1 DEF Core, CapInv, Pending
<1> SUFFICES ASSUME NEW v \in Pending, idx[v] < cap PROVE FALSE
  BY <1>1 DEF Pending
<1> DEFINE S == cap..n - 1
           T == Pending \ {v}
           f == [i \in S |-> CHOOSE u \in T : idx[u] = i]
<1>3. \A i \in S : f[i] \in T /\ idx[f[i]] = i
  <2> TAKE i \in S
  <2>1. PICK u \in Pending : idx[u] = i
    BY <1>2
  <2>2. u \in T
    BY <1>1, <2>1
  <2> QED
    BY <2>1, <2>2
<1>4. IsFiniteSet(S) /\ Cardinality(S) = n - cap
  <2>1. cap \in Int /\ n - 1 \in Int /\ ~(cap > n - 1) /\ n - 1 - cap + 1 = n - cap
    BY <1>1
  <2> QED
    BY <2>1, FS_Interval
<1>5. IsFiniteSet(T) /\ Cardinality(T) = Cardinality(Pending) - 1
  BY FinitePending, FS_RemoveElement
<1>6. f \in [S -> T]
  BY <1>3
<1>7. Cardinality(T) < Cardinality(S)
  BY <1>1, <1>4, <1>5, FinitePending
<1> HIDE DEF S, T, f
<1>8. PICK i, j \in S : i # j /\ f[i] = f[j]
  BY <1>4, <1>5, <1>6, <1>7, FS_PigeonHole
<1> QED
  BY <1>3, <1>8
-----------------------------------------------------------------------------
(* The invariant.                                                          *)

\* A new log, and a full one, satisfy the invariant.
LEMMA LogInvInit == LogInit => LogInv
<1> SUFFICES ASSUME LogInit PROVE LogInv
  OBVIOUS
<1> USE DEF LogInit
<1>1. Pending = {} /\ Claiming = {} /\ Cardinality({}) = 0
  BY FS_EmptySet DEF Pending, Claiming, Uncounted
<1>2. LogTypeOK
  BY MaxIntAssumption DEF LogTypeOK, Pcs, Elems
<1>3. IndexInv(0)
  BY MaxIntAssumption DEF IndexInv, IndicesUnique, Appending, Uncounted
<1>4. CapInv(0) /\ GrowInv /\ RoomInv
  BY DEF CapInv, GrowInv, Growing, Writing, Uncounted, RoomInv
<1>5. ElemInv /\ ContentInv /\ CopyInv
  BY DEF ElemInv, ContentInv, CopyInv, Appending, Uncounted
<1>6. LenInv /\ BaseInv /\ ReadInv /\ LoadsReturnAppended
  BY DEF LenInv, BaseInv, ReadInv, LoadsReturnAppended
<1>7. Core(0)
  BY <1>2, <1>3, <1>4, <1>5, <1>6 DEF Core
<1>8. Taken = calls /\ calls <= 2 * MaxInt + 1 /\ calls \in Nat
  BY MaxIntAssumption DEF Taken
<1> QED
  BY <1>1, <1>7, <1>8 DEF LogInv

\* The steps that neither take nor count an index.
LEMMA QuietInv ==
  ASSUME LogInv, NEW n \in Nat, Core(n), n = len + Cardinality(Pending), Core(n)',
         NEW w \in Procs, NEW l, pc' = [pc EXCEPT ![w] = l], pc[w] \in Uncounted <=> l \in Uncounted,
         pc[w] # "claim", l # "claim", UNCHANGED <<next, len, calls>>
  PROVE  LogInv'
<1>1. Pending' = Pending /\ Claiming' = Claiming
  BY QuietStep DEF Core
<1>2. Taken' = Taken
  BY DEF Taken
<1> QED
  BY <1>1, <1>2 DEF LogInv

\* The steps that count an index.
LEMMA CountInv ==
  ASSUME LogInv, NEW n \in Nat, Core(n), n = len + Cardinality(Pending), Core(n)',
         NEW w \in Procs, NEW l, l \notin Uncounted, pc' = [pc EXCEPT ![w] = l], pc[w] \in Uncounted,
         l # "claim", len' = len + 1, UNCHANGED <<next, calls>>
  PROVE  LogInv'
<1>1. \A v \in Procs : pc'[v] = IF v = w THEN l ELSE pc[v]
  BY DEF Core, LogTypeOK
<1>2. Pending' = Pending \ {w} /\ w \in Pending /\ Claiming' = Claiming
  BY <1>1 DEF Pending, Claiming, Uncounted
<1>3. Cardinality(Pending') = Cardinality(Pending) - 1
  BY <1>2, FinitePending, Leaves
<1>4. n = len' + Cardinality(Pending')
  BY <1>3, FinitePending DEF Core, LogTypeOK
<1>5. Taken' = Taken
  BY DEF Taken
<1> QED
  BY <1>2, <1>4, <1>5 DEF LogInv

\* Taking an index, or failing to: next does not come round to 0.
LEMMA ClaimInv ==
  ASSUME LogInv, NEW n \in Nat, Core(n), n = len + Cardinality(Pending), NEW w \in Procs, Claim(w)
  PROVE  LogInv'
<1>1. /\ pc[w] = "claim" /\ pc' = [pc EXCEPT ![w] = IF next' < 0 THEN "failed" ELSE "size"]
      /\ next' = Wrap(next + 1) /\ UNCHANGED <<len, calls>>
  BY DEF Claim, Step, Goto
<1>2. \A v \in Procs : pc'[v] = IF v = w THEN (IF next' < 0 THEN "failed" ELSE "size") ELSE pc[v]
  BY <1>1 DEF Core, LogTypeOK
<1>3. Claiming' = Claiming \ {w} /\ w \in Claiming
  BY <1>1, <1>2 DEF Claiming
<1>4. Cardinality(Claiming') = Cardinality(Claiming) - 1 /\ Cardinality(Claiming') \in Nat
  <2>1. IsFiniteSet(Claiming \ {w})
    BY FinitePending, FS_RemoveElement
  <2> QED
    BY <1>3, <2>1, FinitePending, Leaves, FS_CardinalityType
<1>5. next \in Int /\ next <= MaxInt /\ len \in Nat /\ calls \in Nat
  BY DEF Core, LogTypeOK
<1>6. Taken + Cardinality(Claiming) = calls /\ calls <= 2 * MaxInt + 1
  BY DEF LogInv
<1>7. next # -1
  BY <1>4, <1>5, <1>6, FinitePending, MaxIntAssumption DEF Taken
<1>8. Taken' = Taken + 1
  BY <1>1, <1>5, <1>7, MaxIntAssumption DEF Taken, Wrap
<1>9. Taken' + Cardinality(Claiming') = calls'
  BY <1>1, <1>4, <1>5, <1>6, <1>8, FinitePending, MaxIntAssumption DEF Taken
<1>10. CASE next' < 0
  <2>1. Core(n)'
    BY <1>10, ClaimFails
  <2>2. Pending' = Pending
    BY <1>1, <1>2, <1>10 DEF Pending, Uncounted
  <2> QED
    BY <1>1, <1>6, <1>9, <2>1, <2>2 DEF LogInv
<1>11. CASE ~(next' < 0)
  <2>0. next' >= 0
    BY <1>1, <1>5, <1>11, MaxIntAssumption DEF Wrap
  <2>1. Core(n + 1)'
    BY <1>7, <2>0, ClaimStep
  <2>2. Pending' = Pending \cup {w} /\ w \notin Pending
    BY <1>1, <1>2, <1>11 DEF Pending, Uncounted
  <2>3. Cardinality(Pending') = Cardinality(Pending) + 1
    BY <2>2, FinitePending, Joins
  <2>4. n + 1 \in Nat /\ n + 1 = len' + Cardinality(Pending')
    BY <1>1, <1>5, <2>3, FinitePending
  <2> QED
    BY <1>1, <1>6, <1>9, <2>1, <2>4 DEF LogInv
<1> QED
  BY <1>10, <1>11

\* A call of Append adds to the calls that have no index.
LEMMA CallInv ==
  ASSUME LogInv, NEW n \in Nat, Core(n), n = len + Cardinality(Pending),
         NEW w \in Procs, NEW x \in Vals, CallAppend(w, x), calls < MaxCalls
  PROVE  LogInv'
<1>1. pc[w] = "idle" /\ pc' = [pc EXCEPT ![w] = "claim"] /\ calls' = calls + 1 /\ UNCHANGED <<len, next>>
  BY DEF CallAppend, Step, Goto, shared
<1>2. \A v \in Procs : pc'[v] = IF v = w THEN "claim" ELSE pc[v]
  BY <1>1 DEF Core, LogTypeOK
<1>3. Pending' = Pending /\ Claiming' = Claiming \cup {w} /\ w \notin Claiming
  BY <1>1, <1>2 DEF Pending, Claiming, Uncounted
<1>4. Cardinality(Claiming') = Cardinality(Claiming) + 1
  BY <1>3, FinitePending, Joins
<1>5. calls \in Nat /\ next \in Int /\ Taken' = Taken /\ Taken \in Int
  BY <1>1, MaxIntAssumption DEF Core, LogTypeOK, Taken
<1>6. Taken' + Cardinality(Claiming') = calls'
  BY <1>1, <1>4, <1>5, FinitePending DEF LogInv
<1>7. calls' <= 2 * MaxInt + 1
  BY <1>1, <1>5, CallsAssumption, MaxIntAssumption
<1>8. Core(n)'
  BY CallAppendStep
<1> QED
  BY <1>1, <1>3, <1>6, <1>7, <1>8 DEF LogInv

\* Every step of the log preserves the invariant.
LEMMA LogInvStep == LogInv /\ [LogNext]_logVars => LogInv'
<1> SUFFICES ASSUME LogInv, [LogNext]_logVars PROVE LogInv'
  OBVIOUS
<1> PICK n \in Nat : Core(n) /\ n = len + Cardinality(Pending)
  BY DEF LogInv
<1>1. CASE UNCHANGED logVars
  <2>1. Core(n)'
    <3>1. UNCHANGED <<next, len, cap, ptr, mem, pc, val, idx, arr, seen, calls, returned>>
      BY <1>1 DEF logVars, shared
    <3>2. LogTypeOK' /\ IndexInv(n)' /\ CapInv(n)' /\ GrowInv'
      BY <3>1 DEF Core, LogTypeOK, IndexInv, IndicesUnique, CapInv, GrowInv
    <3>3. RoomInv' /\ ElemInv' /\ ContentInv'
      BY <3>1 DEF Core, RoomInv, ElemInv, ContentInv
    <3>4. CopyInv'
      BY <3>1 DEF Core, CopyInv, Copied
    <3>5. LenInv' /\ BaseInv' /\ ReadInv' /\ LoadsReturnAppended'
      BY <3>1 DEF Core, LenInv, BaseInv, ReadInv, Indices, LoadsReturnAppended
    <3> QED
      BY <3>2, <3>3, <3>4, <3>5 DEF Core
  <2> QED
    BY <1>1, <2>1 DEF logVars, shared, LogInv, Pending, Claiming, Taken
<1>2. ASSUME NEW w \in Procs, NEW x \in Vals, CallAppend(w, x), calls < MaxCalls PROVE LogInv'
  BY <1>2, CallInv
<1>3. ASSUME NEW w \in Procs, NEW i \in Indices, LoadLen(w, i) PROVE LogInv'
  <2>1. Core(n)'
    BY <1>3, LoadLenStep
  <2>2. pc[w] = "idle" /\ pc' = [pc EXCEPT ![w] = "base"] /\ UNCHANGED <<next, len, calls>>
    BY <1>3 DEF LoadLen, Step, Goto, shared
  <2> QED
    BY <2>1, <2>2, QuietInv DEF Uncounted
<1>4. ASSUME NEW w \in Procs, Return(w) PROVE LogInv'
  <2>1. Core(n)'
    BY <1>4, ReturnStep
  <2>2. pc[w] \in {"ok", "failed", "loaded"} /\ pc' = [pc EXCEPT ![w] = "idle"] /\ UNCHANGED <<next, len, calls>>
    BY <1>4 DEF Return, Goto, shared
  <2> QED
    BY <2>1, <2>2, QuietInv DEF Uncounted
<1>5. ASSUME NEW w \in Procs, LogStep(w) PROVE LogInv'
  <2>1. CASE Claim(w)
    BY <2>1, ClaimInv
  <2>2. CASE FastPath(w)
    <3>1. Core(n)'
      BY <2>2, FastPathStep
    <3>2. pc[w] = "size" /\ pc' = [pc EXCEPT ![w] = "pointer"] /\ UNCHANGED <<next, len, calls>>
      BY <2>2 DEF FastPath, Step, Goto, shared
    <3> QED
      BY <3>1, <3>2, QuietInv DEF Uncounted
  <2>3. CASE SlowPath(w)
    <3>1. Core(n)'
      BY <2>3, SlowPathStep
    <3>2. pc[w] = "size" /\ pc' = [pc EXCEPT ![w] = "drain"] /\ UNCHANGED <<next, len, calls>>
      BY <2>3 DEF SlowPath, Step, Goto, shared
    <3> QED
      BY <3>1, <3>2, QuietInv DEF Uncounted
  <2>4. CASE FastPointer(w)
    <3>1. Core(n)'
      BY <2>4, FastPointerStep
    <3>2. pc[w] = "pointer" /\ pc' = [pc EXCEPT ![w] = "write"] /\ UNCHANGED <<next, len, calls>>
      BY <2>4 DEF FastPointer, Step, Goto, shared
    <3> QED
      BY <3>1, <3>2, QuietInv DEF Uncounted
  <2>5. CASE FastWrite(w)
    <3>1. Core(n)'
      BY <2>5, FastWriteStep
    <3>2. pc[w] = "write" /\ pc' = [pc EXCEPT ![w] = "count"] /\ UNCHANGED <<next, len, calls>>
      BY <2>5 DEF FastWrite, Step, Goto, shared
    <3> QED
      BY <3>1, <3>2, QuietInv DEF Uncounted
  <2>6. CASE FastSettle(w)
    <3>1. Core(n)'
      BY <2>6, FastSettleStep
    <3>2. pc[w] = "settle" /\ pc' = [pc EXCEPT ![w] = "ok"] /\ UNCHANGED <<next, len, calls>>
      BY <2>6 DEF FastSettle, Step, Goto, shared
    <3> QED
      BY <3>1, <3>2, QuietInv DEF Uncounted
  <2>7. CASE Grow(w)
    <3>1. Core(n)'
      BY <2>7, GrowStep
    <3>2. pc[w] = "grow" /\ pc' = [pc EXCEPT ![w] = "publish"] /\ UNCHANGED <<next, len, calls>>
      BY <2>7 DEF Grow, Step, Goto, shared
    <3> QED
      BY <3>1, <3>2, QuietInv DEF Uncounted
  <2>8. CASE PublishPtr(w)
    <3>1. Core(n)'
      BY <2>8, PublishPtrStep
    <3>2. pc[w] = "publish" /\ pc' = [pc EXCEPT ![w] = "resize"] /\ UNCHANGED <<next, len, calls>>
      BY <2>8 DEF PublishPtr, Step, Goto, shared
    <3> QED
      BY <3>1, <3>2, QuietInv DEF Uncounted
  <2>9. CASE PublishCap(w)
    <3>1. Core(n)'
      BY <2>9, PublishCapStep
    <3>2. pc[w] = "resize" /\ pc' = [pc EXCEPT ![w] = "advance"] /\ UNCHANGED <<next, len, calls>>
      BY <2>9 DEF PublishCap, Step, Goto, shared
    <3> QED
      BY <3>1, <3>2, QuietInv DEF Uncounted
  <2>10. CASE LoadPtr(w)
    <3>1. Core(n)'
      BY <2>10, LoadPtrStep
    <3>2. pc[w] = "base" /\ pc' = [pc EXCEPT ![w] = "read"] /\ UNCHANGED <<next, len, calls>>
      BY <2>10 DEF LoadPtr, Step, Goto, shared
    <3> QED
      BY <3>1, <3>2, QuietInv DEF Uncounted
  <2>11. CASE Drain(w)
    <3>1. Core(n)'
      BY <2>11, NoWriterLeft, DrainStep
    <3>2. pc[w] = "drain" /\ pc' = [pc EXCEPT ![w] = "grow"] /\ UNCHANGED <<next, len, calls>>
      BY <2>11 DEF Drain, Step, Goto, shared
    <3> QED
      BY <3>1, <3>2, QuietInv DEF Uncounted
  <2>12. CASE LoadRead(w)
    <3>1. Core(n)'
      BY <2>12, LoadReadStep
    <3>2. PICK l \in {"loaded", "panic"} : pc[w] = "read" /\ pc' = [pc EXCEPT ![w] = l] /\ UNCHANGED <<next, len, calls>>
      BY <2>12 DEF LoadRead, Step, Goto, shared
    <3> QED
      BY <3>1, <3>2, QuietInv DEF Uncounted
  <2>13. CASE FastCount(w)
    <3>1. Core(n)'
      BY <2>13, FastCountStep
    <3>2. pc[w] = "count" /\ pc' = [pc EXCEPT ![w] = "settle"] /\ len' = len + 1 /\ UNCHANGED <<next, calls>>
      BY <2>13 DEF FastCount, Step, Goto
    <3> QED
      BY <3>1, <3>2, CountInv DEF Uncounted
  <2>14. CASE SlowCount(w)
    <3>1. Core(n)'
      BY <2>14, SlowCountStep
    <3>2. pc[w] = "advance" /\ pc' = [pc EXCEPT ![w] = "ok"] /\ len' = len + 1 /\ UNCHANGED <<next, calls>>
      BY <2>14 DEF SlowCount, Step, Goto
    <3> QED
      BY <3>1, <3>2, CountInv DEF Uncounted
  <2> QED
    BY <1>5, <2>1, <2>2, <2>3, <2>4, <2>5, <2>6, <2>7, <2>8, <2>9, <2>10, <2>11, <2>12, <2>13, <2>14 DEF LogStep
<1> QED
  BY <1>1, <1>2, <1>3, <1>4, <1>5 DEF LogNext

\* The invariant of Append and Load holds throughout.
THEOREM LogInvariant == LogSpec => []LogInv
  BY LogInvInit, LogInvStep, PTL DEF LogSpec

-----------------------------------------------------------------------------
\* No Load of an index that Append has returned panics or looks beyond the
\* array it has read, whoever makes the array grow meanwhile: Load reads len
\* before ptr, and a growing Append waits until every index of the old array
\* is written.
THEOREM LoadsStayInBounds == LogSpec => []LoadsInBounds
<1>1. LogInv => LoadsInBounds
  BY DEF LogInv, Core, LogTypeOK, Pcs, Appending, Uncounted, Loading, ReadInv, Has, In, LoadsInBounds
<1> QED
  BY <1>1, LogInvariant, PTL

\* A Load returns the element that Append has returned the index for:
\* no write into an array that was replaced is lost.
THEOREM LoadsAreFaithful == LogSpec => []LoadsReturnAppended
<1>1. LogInv => LoadsReturnAppended
  BY DEF LogInv, Core
<1> QED
  BY <1>1, LogInvariant, PTL

\* Append returns no index twice, also when next has overflowed.
THEOREM IndicesStayUnique == LogSpec => []IndicesUnique
<1>1. LogInv => IndicesUnique
  BY DEF LogInv, Core, IndexInv
<1> QED
  BY <1>1, LogInvariant, PTL
================================================================================
