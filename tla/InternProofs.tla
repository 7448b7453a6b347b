------------------------------ MODULE InternProofs ------------------------------
(***************************************************************************)
(* Machine-checked theorems about Intern, for every set of goroutines and  *)
(* of strings.  What char6 computes is taken from Char6Assumption.         *)
(***************************************************************************)
EXTENDS Intern, LogProofs

Outside == {"idle", "intern", "query", "slow", "slowCell"}
InAppend == Appending \cup {"claim", "failed"}
Present == {s \in Vals : index[s] # "absent"}

\* A goroutine is inside of the Log when it should be, with its string.
PlaceInv ==
  \A w \in Procs :
    /\ at[w] \in Outside => pc[w] = "idle"
    /\ at[w] = "append" => pc[w] \in InAppend /\ val[w] = str[w]
    /\ at[w] = "value" => pc[w] \in Loading
    /\ at[w] \notin {"idle", "value"} => str[w] \in Vals

\* The goroutine that appends a string is the only one, and has no ID yet.
OwnerInv ==
  \A w \in Procs : at[w] = "append" =>
    /\ index[str[w]] = "pointer" /\ cell[str[w]] = 0
    /\ \A v \in Procs : at[v] = "append" /\ str[v] = str[w] => v = w

\* An ID in the table is an index of the Log that has the string.
CellInv == \A s \in Vals : cell[s] # 0 => index[s] = "pointer" /\ <<cell[s] - 1, s>> \in returned

\* An ID that was returned is that of char6, or in the table.
IssuedInv ==
  \A r \in issued :
    \/ r[1] \in Strings /\ CanInline(r[1]) /\ r[2] = encodeChar6(r[1])
    \/ r[1] \in Vals /\ r[2] \in Nat \ {0} /\ cell[r[1]] = r[2]

\* Append is called once for every string.
CallsInv == calls <= MaxInt + Cardinality(Present)

TableInv == TypeOK /\ PlaceInv /\ OwnerInv /\ CellInv /\ IssuedInv /\ CallsInv

-----------------------------------------------------------------------------
\* The strings of the table are finitely many.
LEMMA FinitePresent ==
  /\ IsFiniteSet(Present) /\ Cardinality(Present) \in Nat /\ IsFiniteSet(Vals) /\ Cardinality(Vals) \in Nat
  /\ Cardinality(Present) <= Cardinality(Vals)
<1>1. Present \in SUBSET Vals
  BY DEF Present
<1> QED
  BY <1>1, SpaceAssumption, FS_Subset, FS_CardinalityType

\* A step inside of the Log leaves other goroutines alone, and stays inside.
LEMMA Inside ==
  ASSUME LogInv, NEW w \in Procs, LogStep(w)
  PROVE  /\ \A v \in Procs \ {w} : pc'[v] = pc[v] /\ val'[v] = val[v]
         /\ UNCHANGED <<calls, returned>>
         /\ \/ pc[w] \in InAppend /\ pc'[w] \in InAppend /\ val'[w] = val[w]
            \/ pc[w] \in Loading /\ pc'[w] \in Loading
<1>1. LogTypeOK /\ BaseInv
  BY DEF LogInv, Core
<1>2. pc \in [Procs -> Pcs] /\ val \in [Procs -> Elems]
  BY <1>1 DEF LogTypeOK
<1>3. CASE Claim(w)
  BY <1>2, <1>3 DEF Claim, Step, Goto, InAppend, Appending, Uncounted
<1>4. CASE FastPath(w) \/ SlowPath(w) \/ FastPointer(w) \/ FastWrite(w) \/ FastCount(w) \/ FastSettle(w)
  BY <1>2, <1>4 DEF FastPath, SlowPath, FastPointer, FastWrite, FastCount, FastSettle, Step, Goto, InAppend, Appending, Uncounted
<1>5. CASE Drain(w) \/ Grow(w) \/ PublishPtr(w) \/ PublishCap(w) \/ SlowCount(w)
  BY <1>2, <1>5 DEF Drain, Grow, PublishPtr, PublishCap, SlowCount, Step, Goto, InAppend, Appending, Uncounted
<1>6. CASE LoadPtr(w)
  BY <1>2, <1>6 DEF LoadPtr, Step, Goto, Loading
<1>7. CASE LoadRead(w)
  <2>1. pc[w] = "read" /\ idx[w] < seen[w]
    BY <1>1, <1>7 DEF LoadRead, Step, BaseInv
  <2> QED
    BY <1>2, <1>7, <2>1 DEF LoadRead, Step, Goto, Loading
<1> QED
  BY <1>3, <1>4, <1>5, <1>6, <1>7 DEF LogStep

-----------------------------------------------------------------------------
(* What the steps of the table are for the Log.                            *)

\* Every step of the table takes a step of the Log, or none.
LEMMA StepsLog ==
  ASSUME LogInv, TableInv, [Next]_vars
  PROVE  [LogNext]_logVars
<1>1. CASE UNCHANGED vars \/ Rest
  BY <1>1 DEF vars, Rest
<1>2. ASSUME NEW w \in Procs, QueryInlined(w) \/ QueryIndex(w) \/ QueryCell(w) \/ SlowLoad(w) \/ SlowCell(w) PROVE UNCHANGED logVars
  BY <1>2 DEF QueryInlined, QueryIndex, QueryCell, SlowLoad, SlowCell
<1>3. ASSUME NEW w \in Procs, SlowStore(w) PROVE LogNext
  <2>1. at[w] = "slow" /\ str[w] \in Vals /\ index[str[w]] = "absent" /\ CallAppend(w, str[w])
    BY <1>3 DEF SlowStore, TableInv, PlaceInv
  <2>2. Present # Vals
    BY <2>1 DEF Present
  <2>3. Present \in SUBSET Vals
    BY DEF Present
  <2>4. Cardinality(Present) # Cardinality(Vals)
    BY <2>2, <2>3, FinitePresent, FS_Subset
  <2>5. calls \in Nat /\ MaxCalls \in Nat /\ MaxInt \in Nat
    BY CallsAssumption, MaxIntAssumption DEF LogInv, Core, LogTypeOK
  <2>6. calls < MaxCalls
    BY <2>4, <2>5, FinitePresent, SpaceAssumption DEF TableInv, CallsInv
  <2> QED
    BY <2>1, <2>6 DEF LogNext
<1>4. ASSUME NEW w \in Procs, Commit(w) \/ Poison(w) \/ ValueLoaded(w) PROVE LogNext
  BY <1>4 DEF Commit, Poison, ValueLoaded, LogNext
<1>5. ASSUME NEW w \in Procs, Value(w) PROVE LogNext
  <2>1. PICK r \in issued : r[2] > 0 /\ LoadLen(w, r[2] - 1)
    BY <1>5 DEF Value
  <2>2. r[1] \in Vals /\ r[2] \in Nat \ {0} /\ cell[r[1]] = r[2]
    BY <2>1, Char6Assumption DEF TableInv, IssuedInv
  <2>3. <<r[2] - 1, r[1]>> \in returned
    BY <2>2 DEF TableInv, CellInv
  <2>4. r[2] - 1 \in Indices
    BY <2>3 DEF Indices
  <2> QED
    BY <2>1, <2>4 DEF LogNext
<1>6. ASSUME NEW w \in Procs, InLog(w) PROVE LogNext
  BY <1>6 DEF InLog, LogNext
<1> QED
  BY <1>1, <1>2, <1>3, <1>4, <1>5, <1>6 DEF Next, Work

-----------------------------------------------------------------------------
(* The invariant of the table.                                             *)

\* A new table satisfies the invariant.
LEMMA TableInvInit == Init => TableInv
<1> SUFFICES ASSUME Init PROVE TableInv
  OBVIOUS
<1>1. TypeOK /\ PlaceInv /\ OwnerInv
  BY OpsAssumption DEF Init, LogInit, TypeOK, PlaceInv, OwnerInv
<1>2. CellInv /\ IssuedInv
  BY DEF Init, CellInv, IssuedInv
<1>3. CallsInv
  BY FinitePresent, MaxIntAssumption DEF Init, LogInit, CallsInv
<1> QED
  BY <1>1, <1>2, <1>3 DEF TableInv

\* A call that returns an ID returns one of char6 or one of the table.
LEMMA GotInv ==
  ASSUME TypeOK, IssuedInv, NEW w \in Procs, NEW s, NEW n, Got(w, s, n), UNCHANGED cell,
         \/ s \in Strings /\ CanInline(s) /\ n = encodeChar6(s)
         \/ s \in Vals /\ n \in Nat \ {0} /\ cell[s] = n
  PROVE  IssuedInv'
  BY DEF Got, IssuedInv

\* A step that changes only where one goroutine is, outside of the Log.
LEMMA OutsideInv ==
  ASSUME TableInv, NEW w \in Procs, NEW l \in Outside, NEW s \in Vals \cup {<<>>}, To(w, l, s), l # "idle" => s \in Vals,
         at[w] \in Outside, UNCHANGED <<logVars, index, cell>>, ops' \in 0..MaxOps, IssuedInv'
  PROVE  TableInv'
<1> USE DEF TableInv
<1>1. UNCHANGED <<pc, val, calls, returned, index, cell>>
  BY DEF logVars
<1>2. \A v \in Procs : at'[v] = (IF v = w THEN l ELSE at[v]) /\ str'[v] = (IF v = w THEN s ELSE str[v])
  BY DEF To, TypeOK
<1>3. TypeOK'
  BY <1>1 DEF TypeOK, To, Outside
<1>4. PlaceInv'
  BY <1>1, <1>2 DEF PlaceInv, Outside
<1>5. OwnerInv'
  BY <1>1, <1>2 DEF OwnerInv, Outside
<1>6. CellInv' /\ CallsInv'
  BY <1>1 DEF CellInv, CallsInv, Present
<1> QED
  BY <1>3, <1>4, <1>5, <1>6

\* A call begins with the look at char6 and at the index.
LEMMA QueryInv ==
  ASSUME TableInv, NEW w \in Procs, QueryInlined(w) \/ QueryIndex(w)
  PROVE  TableInv'
<1>0. /\ at[w] = "idle" /\ ops < MaxOps /\ ops' = ops + 1 /\ ops \in 0..MaxOps
      /\ UNCHANGED <<logVars, index, cell>>
  BY DEF QueryInlined, QueryIndex, Begins, TableInv, TypeOK
<1>1. ops' \in 0..MaxOps
  BY <1>0, OpsAssumption
<1>2. CASE QueryInlined(w)
  <2>1. PICK s \in Strings : CanInline(s) /\ Got(w, s, encodeChar6(s))
    BY <1>2 DEF QueryInlined
  <2>2. IssuedInv'
    BY <1>0, <2>1, GotInv DEF TableInv
  <2> QED
    BY <1>0, <1>1, <2>1, <2>2, OutsideInv DEF Got, Ends, Outside
<1>3. CASE QueryIndex(w)
  <2>1. PICK c \in {"intern", "query"}, s \in Vals :
          IF index[s] = "pointer" THEN To(w, c, s) /\ UNCHANGED issued ELSE Missed(w, c, s)
    BY <1>3 DEF QueryIndex
  <2>2. UNCHANGED issued
    BY <2>1 DEF Missed
  <2>3. IssuedInv'
    BY <1>0, <2>2 DEF TableInv, IssuedInv
  <2>4. To(w, c, s) \/ To(w, "slow", s) \/ To(w, "idle", <<>>)
    BY <2>1 DEF Missed, Ends
  <2> QED
    BY <1>0, <1>1, <2>3, <2>4, OutsideInv DEF Outside
<1> QED
  BY <1>2, <1>3

\* A look at an entry gives its ID, or sends the call on.
LEMMA WaitInv ==
  ASSUME TableInv, NEW w \in Procs, QueryCell(w) \/ SlowLoad(w) \/ SlowCell(w)
  PROVE  TableInv'
<1>0. /\ at[w] \in Outside \ {"idle"} /\ str[w] \in Vals /\ cell[str[w]] \in Nat
      /\ UNCHANGED <<logVars, index, cell>> /\ ops' \in 0..MaxOps
  BY DEF QueryCell, SlowLoad, SlowCell, TableInv, TypeOK, PlaceInv, Outside
<1>1. \/ To(w, "idle", <<>>) /\ UNCHANGED issued
      \/ \E l \in {"slow", "slowCell"} : To(w, l, str[w]) /\ UNCHANGED issued
      \/ cell[str[w]] > 0 /\ Got(w, str[w], cell[str[w]])
  BY Zenon DEF QueryCell, SlowLoad, SlowCell, Missed, Ends
<1>2. CASE UNCHANGED issued
  <2>1. IssuedInv'
    BY <1>0, <1>2, Zenon DEF TableInv, IssuedInv
  <2>2. To(w, "idle", <<>>) \/ \E l \in {"slow", "slowCell"} : To(w, l, str[w])
    BY <1>1 DEF Got, Ends
  <2> QED
    BY <1>0, <2>1, <2>2, OutsideInv DEF Outside
<1>3. CASE cell[str[w]] > 0 /\ Got(w, str[w], cell[str[w]])
  <2>1. IssuedInv'
    BY <1>0, <1>3, GotInv DEF TableInv
  <2> QED
    BY <1>0, <1>3, <2>1, OutsideInv DEF Got, Ends, Outside
<1> QED
  BY <1>1, <1>2, <1>3

\* The goroutine that stores the entry is the one to append.
LEMMA SlowStoreInv ==
  ASSUME LogInv, TableInv, NEW w \in Procs, SlowStore(w)
  PROVE  TableInv'
<1> USE DEF TableInv
<1>1. /\ at[w] = "slow" /\ str[w] \in Vals /\ index[str[w]] = "absent" /\ pc[w] = "idle"
      /\ UNCHANGED <<cell, ops, issued, returned, str>> /\ calls' = calls + 1
  BY DEF SlowStore, PlaceInv, Outside, To, CallAppend, TypeOK
<1>2. \A v \in Procs : /\ at'[v] = (IF v = w THEN "append" ELSE at[v])
                       /\ pc'[v] = (IF v = w THEN "claim" ELSE pc[v])
                       /\ val'[v] = (IF v = w THEN str[w] ELSE val[v])
  BY DEF SlowStore, To, CallAppend, Step, Goto, TypeOK, LogInv, Core, LogTypeOK
<1>3. index' = [index EXCEPT ![str[w]] = "pointer"] /\ \A s \in Vals : index'[s] = IF s = str[w] THEN "pointer" ELSE index[s]
  BY DEF SlowStore, TypeOK
<1>4. TypeOK'
  <2>1. /\ at' \in [Procs -> {"idle", "intern", "query", "slow", "slowCell", "append", "value"}]
        /\ str' \in [Procs -> Vals \cup {<<>>}]
    BY Zenon DEF TypeOK, SlowStore, To
  <2>2. index' \in [Vals -> {"absent", "pointer", "nil"}]
    BY <1>3, Zenon DEF TypeOK
  <2> QED
    BY <1>1, <2>1, <2>2, Zenon DEF TypeOK
<1>5. PlaceInv'
  BY <1>1, <1>2 DEF PlaceInv, Outside, InAppend
<1>6. cell[str[w]] = 0 /\ \A v \in Procs : at[v] = "append" => str[v] \in Vals /\ str[v] # str[w]
  BY <1>1, Zenon DEF CellInv, OwnerInv, PlaceInv
<1>7. OwnerInv'
  BY <1>1, <1>2, <1>3, <1>6 DEF OwnerInv
<1>8. CellInv' /\ IssuedInv'
  BY <1>1, <1>3, Zenon DEF CellInv, IssuedInv
<1>9. CallsInv'
  <2>1. Present' = Present \cup {str[w]} /\ str[w] \notin Present
    BY <1>1, <1>3 DEF Present
  <2>2. Cardinality(Present') = Cardinality(Present) + 1
    BY <2>1, FinitePresent, Joins
  <2>3. calls \in Nat
    BY DEF LogInv, Core, LogTypeOK
  <2> QED
    BY <1>1, <2>2, <2>3, FinitePresent, MaxIntAssumption DEF CallsInv
<1> QED
  BY <1>4, <1>5, <1>7, <1>8, <1>9

\* A string stays with the goroutine that appends it while its entry has no ID.
LEMMA OwnersKept ==
  ASSUME OwnerInv,
         \A v \in Procs : at'[v] = "append" =>
           at[v] = "append" /\ str'[v] = str[v] /\ index'[str[v]] = "pointer" /\ cell'[str[v]] = 0
  PROVE  OwnerInv'
<1> SUFFICES ASSUME NEW v \in Procs, at'[v] = "append"
             PROVE  /\ index'[str'[v]] = "pointer" /\ cell'[str'[v]] = 0
                    /\ \A u \in Procs : at'[u] = "append" /\ str'[u] = str'[v] => u = v
  BY DEF OwnerInv
<1>1. at[v] = "append" /\ str'[v] = str[v] /\ index'[str[v]] = "pointer" /\ cell'[str[v]] = 0
  OBVIOUS
<1>2. \A u \in Procs : at'[u] = "append" => at[u] = "append" /\ str'[u] = str[u]
  OBVIOUS
<1>3. \A u \in Procs : at[u] = "append" /\ str[u] = str[v] => u = v
  BY <1>1 DEF OwnerInv
<1> QED
  BY <1>1, <1>2, <1>3

\* Append and Load return.
LEMMA ReturnsInv ==
  ASSUME LogInv, TableInv, NEW w \in Procs, Commit(w) \/ Poison(w) \/ ValueLoaded(w)
  PROVE  TableInv'
<1> USE DEF TableInv
<1>1. UNCHANGED <<ops, calls>> /\ at[w] \in {"append", "value"}
  BY Zenon DEF Commit, Poison, ValueLoaded, Return
<1>2. \A v \in Procs : /\ at'[v] = (IF v = w THEN "idle" ELSE at[v]) /\ str'[v] = (IF v = w THEN <<>> ELSE str[v])
                       /\ pc'[v] = (IF v = w THEN "idle" ELSE pc[v])
                       /\ v # w => val'[v] = val[v]
  BY Zenon DEF Commit, Poison, ValueLoaded, Got, Ends, To, Return, Goto, TypeOK, LogInv, Core, LogTypeOK
<1>3. at' \in [Procs -> {"idle", "intern", "query", "slow", "slowCell", "append", "value"}] /\ str' \in [Procs -> Vals \cup {<<>>}]
  BY Zenon DEF Commit, Poison, ValueLoaded, Got, Ends, To, TypeOK
<1>4. PlaceInv'
  BY <1>2, Zenon DEF PlaceInv, Outside
<1>5. idx[w] \in Nat
  BY DEF LogInv, Core, LogTypeOK
<1>6. CASE Commit(w)
  <2>1. /\ at[w] = "append" /\ pc[w] = "ok" /\ str[w] \in Vals /\ val[w] = str[w] /\ UNCHANGED index
        /\ returned' = returned \cup {<<idx[w], val[w]>>} /\ issued' = issued \cup {<<str[w], idx[w] + 1>>}
        /\ cell' = [cell EXCEPT ![str[w]] = idx[w] + 1]
        /\ \A s \in Vals : cell'[s] = IF s = str[w] THEN idx[w] + 1 ELSE cell[s]
    BY <1>6 DEF Commit, Return, Got, PlaceInv, TypeOK
  <2>2. index[str[w]] = "pointer" /\ cell[str[w]] = 0
    BY <2>1, Zenon DEF OwnerInv
  <2>3. TypeOK'
    <3>1. idx[w] + 1 \in Nat
      BY <1>5
    <3>2. cell' = [cell EXCEPT ![str[w]] = idx[w] + 1] /\ index' = index
      BY <2>1, Zenon
    <3>3. cell \in [Vals -> Nat]
      BY DEF TypeOK
    <3>4. cell' \in [Vals -> Nat]
      BY <3>1, <3>2, <3>3, Zenon
    <3> QED
      BY <1>1, <1>3, <3>2, <3>4 DEF TypeOK
  <2>4. \A v \in Procs : v # w /\ at[v] = "append" => str[v] \in Vals /\ str[v] # str[w]
    BY <2>1 DEF OwnerInv, PlaceInv
  <2>5. OwnerInv'
    <3>1. \A v \in Procs : at'[v] = "append" => v # w /\ at[v] = "append" /\ str'[v] = str[v]
      BY <1>2, Zenon
    <3>2. \A s \in Vals : s # str[w] => cell'[s] = cell[s] /\ index'[s] = index[s]
      BY <2>1
    <3> QED
      <4>1. \A v \in Procs : at[v] = "append" => index[str[v]] = "pointer" /\ cell[str[v]] = 0
        BY DEF OwnerInv
      <4> QED
        BY <2>4, <3>1, <3>2, <4>1, OwnersKept, Zenon
  <2>6. CellInv'
    <3> SUFFICES ASSUME NEW s \in Vals, cell'[s] # 0 PROVE index'[s] = "pointer" /\ <<cell'[s] - 1, s>> \in returned'
      BY DEF CellInv
    <3>1. CASE s = str[w]
      <4>1. cell'[s] - 1 = idx[w]
        BY <1>5, <2>1, <3>1
      <4> QED
        BY <2>1, <2>2, <3>1, <4>1
    <3>2. CASE s # str[w]
      BY <2>1, <3>2 DEF CellInv
    <3> QED
      BY <3>1, <3>2
  <2>7. IssuedInv'
    <3> SUFFICES ASSUME NEW r \in issued'
                 PROVE  \/ r[1] \in Strings /\ CanInline(r[1]) /\ r[2] = encodeChar6(r[1])
                        \/ r[1] \in Vals /\ r[2] \in Nat \ {0} /\ cell'[r[1]] = r[2]
      BY DEF IssuedInv
    <3>1. CASE r \in issued
      BY <2>1, <2>2, <3>1, Zenon DEF IssuedInv
    <3>2. CASE r = <<str[w], idx[w] + 1>>
      <4>1. r[1] = str[w] /\ r[2] = idx[w] + 1
        BY <3>2
      <4>2. idx[w] + 1 \in Nat \ {0}
        BY <1>5
      <4>3. str[w] \in Vals /\ cell'[str[w]] = idx[w] + 1
        BY <2>1
      <4> QED
        BY <4>1, <4>2, <4>3, Zenon
    <3> QED
      BY <2>1, <3>1, <3>2, Zenon
  <2>8. CallsInv'
    BY <1>1, <2>1, Zenon DEF CallsInv, Present
  <2> QED
    BY <1>4, <2>3, <2>5, <2>6, <2>7, <2>8
<1>7. CASE Poison(w)
  <2>1. /\ at[w] = "append" /\ pc[w] = "failed" /\ str[w] \in Vals /\ UNCHANGED <<cell, issued, returned>>
        /\ index' = [index EXCEPT ![str[w]] = "nil"]
        /\ \A s \in Vals : index'[s] = IF s = str[w] THEN "nil" ELSE index[s]
    BY <1>7 DEF Poison, Return, PlaceInv, TypeOK
  <2>2. index[str[w]] = "pointer" /\ cell[str[w]] = 0
    BY <2>1, Zenon DEF OwnerInv
  <2>3. TypeOK'
    BY <1>1, <1>3, <2>1 DEF TypeOK
  <2>4. \A v \in Procs : v # w /\ at[v] = "append" => str[v] \in Vals /\ str[v] # str[w]
    BY <2>1, Zenon DEF OwnerInv, PlaceInv
  <2>5. OwnerInv'
    <3>1. \A v \in Procs : at'[v] = "append" => v # w /\ at[v] = "append" /\ str'[v] = str[v]
      BY <1>2, Zenon
    <3>2. cell' = cell /\ \A s \in Vals : s # str[w] => index'[s] = index[s]
      BY <2>1, Zenon
    <3>3. \A v \in Procs : at[v] = "append" => index[str[v]] = "pointer" /\ cell[str[v]] = 0
      BY DEF OwnerInv
    <3> QED
      BY <2>4, <3>1, <3>2, <3>3, OwnersKept, Zenon
  <2>6. CellInv' /\ IssuedInv'
    BY <2>1, <2>2, Zenon DEF CellInv, IssuedInv
  <2>7. Present' = Present
    BY <2>1, <2>2 DEF Present
  <2>8. CallsInv'
    BY <1>1, <2>7 DEF CallsInv
  <2> QED
    BY <1>4, <2>3, <2>5, <2>6, <2>8
<1>8. CASE ValueLoaded(w)
  <2>1. at[w] = "value" /\ pc[w] = "loaded" /\ UNCHANGED <<cell, issued, returned, index>>
    BY <1>8 DEF ValueLoaded, Return
  <2>2. TypeOK'
    BY <1>1, <1>3, <2>1 DEF TypeOK
  <2>3. OwnerInv'
    <3>1. \A v \in Procs : at'[v] = "append" => at[v] = "append" /\ str'[v] = str[v]
      BY <1>2
    <3>2. \A v \in Procs : at[v] = "append" => index'[str[v]] = "pointer" /\ cell'[str[v]] = 0
      BY <2>1 DEF OwnerInv
    <3> QED
      BY <3>1, <3>2, OwnersKept
  <2>4. CellInv' /\ IssuedInv' /\ CallsInv'
    BY <1>1, <2>1, Zenon DEF CellInv, IssuedInv, CallsInv, Present
  <2> QED
    BY <1>4, <2>2, <2>3, <2>4
<1> QED
  BY <1>6, <1>7, <1>8

\* Value begins a Load.
LEMMA ValueInv ==
  ASSUME LogInv, TableInv, NEW w \in Procs, Value(w)
  PROVE  TableInv'
<1> USE DEF TableInv
<1>0. at[w] = "idle" /\ ops < MaxOps /\ ops' = ops + 1 /\ ops \in 0..MaxOps /\ UNCHANGED <<index, cell, issued, returned, calls, val>>
  BY DEF Value, Begins, LoadLen, TypeOK, shared
<1>1. \A v \in Procs : /\ at'[v] = (IF v = w THEN "value" ELSE at[v]) /\ str'[v] = (IF v = w THEN <<>> ELSE str[v])
                       /\ pc'[v] = (IF v = w THEN "base" ELSE pc[v])
  BY DEF Value, To, LoadLen, Step, Goto, TypeOK, LogInv, Core, LogTypeOK
<1>2. ops' \in 0..MaxOps
  BY <1>0, OpsAssumption
<1>3. TypeOK'
  BY <1>0, <1>2 DEF TypeOK, Value, To
<1>4. PlaceInv'
  BY <1>0, <1>1 DEF PlaceInv, Outside, Loading
<1>5. OwnerInv'
  <2>1. \A v \in Procs : at'[v] = "append" => at[v] = "append" /\ str'[v] = str[v]
    BY <1>1
  <2>2. \A v \in Procs : at[v] = "append" => index'[str[v]] = "pointer" /\ cell'[str[v]] = 0
    BY <1>0 DEF OwnerInv
  <2> QED
    BY <2>1, <2>2, OwnersKept
<1>6. CellInv' /\ IssuedInv' /\ CallsInv'
  BY <1>0 DEF CellInv, IssuedInv, CallsInv, Present
<1> QED
  BY <1>3, <1>4, <1>5, <1>6

\* Steps inside of the log leave the table alone.
LEMMA InLogInv ==
  ASSUME LogInv, TableInv, NEW w \in Procs, InLog(w)
  PROVE  TableInv'
<1> USE DEF TableInv
<1>1. UNCHANGED <<index, cell, at, str, ops, issued>>
  BY DEF InLog, tableVars
<1>2. /\ \A v \in Procs \ {w} : pc'[v] = pc[v] /\ val'[v] = val[v]
      /\ UNCHANGED <<calls, returned>>
      /\ \/ pc[w] \in InAppend /\ pc'[w] \in InAppend /\ val'[w] = val[w]
         \/ pc[w] \in Loading /\ pc'[w] \in Loading
  BY Inside, Zenon DEF InLog
<1>3. TypeOK' /\ OwnerInv'
  BY <1>1 DEF TypeOK, OwnerInv
<1>5. UNCHANGED <<calls, returned>>
  BY <1>2, Zenon
<1>6. CellInv' /\ IssuedInv'
  BY <1>1, <1>5 DEF CellInv, IssuedInv
<1>7. CallsInv'
  BY <1>1, <1>5 DEF CallsInv, Present
<1>4. PlaceInv'
  BY <1>1, <1>2 DEF PlaceInv, Outside, InAppend, Appending, Uncounted, Loading
<1> QED
  BY <1>3, <1>4, <1>6, <1>7

\* Every step of the table preserves its invariant.
LEMMA TableInvStep == LogInv /\ TableInv /\ [Next]_vars => TableInv'
<1> SUFFICES ASSUME LogInv, TableInv, [Next]_vars PROVE TableInv'
  OBVIOUS
<1>1. CASE UNCHANGED vars \/ Rest
  <2>1. UNCHANGED <<pc, val, calls, returned, index, cell, at, str, ops, issued>>
    BY <1>1 DEF vars, Rest, logVars, tableVars
  <2>2. TypeOK' /\ PlaceInv' /\ OwnerInv'
    BY <2>1 DEF TableInv, TypeOK, PlaceInv, OwnerInv
  <2>3. CellInv' /\ IssuedInv' /\ CallsInv'
    BY <2>1 DEF TableInv, CellInv, IssuedInv, CallsInv, Present
  <2> QED
    BY <2>2, <2>3 DEF TableInv
<1>2. CASE Next /\ ~Rest
  BY <1>2, QueryInv, WaitInv, SlowStoreInv, ReturnsInv, ValueInv, InLogInv DEF Next, Work
<1> QED
  BY <1>1, <1>2

\* The table and the Log under it keep their invariants.
THEOREM TableInvariant == Spec => [](LogInv /\ TableInv)
<1>1. Init => LogInv /\ TableInv
  BY LogInvInit, TableInvInit DEF Init
<1>2. LogInv /\ TableInv /\ [Next]_vars => (LogInv /\ TableInv)'
  BY StepsLog, LogInvStep, TableInvStep
<1> QED
  BY <1>1, <1>2, PTL DEF Spec

-----------------------------------------------------------------------------
\* The Table uses its Log as Log requires: Append is called for no string
\* twice and not after the counter could come round, and Load only for
\* indices that an Append has returned.
THEOREM TableUsesLog == Spec => LogSpec
<1>1. Init => LogInit
  BY DEF Init
<1>2. LogInv /\ TableInv /\ [Next]_vars => [LogNext]_logVars
  BY StepsLog
<1> QED
  BY <1>1, <1>2, TableInvariant, PTL DEF Spec, LogSpec

\* Query finds the ID of a string, once it was returned to anyone.
THEOREM QueryAlwaysFinds == Spec => []QueryFinds
<1>1. TableInv => QueryFinds
  BY ValsAssumption, Zenon DEF TableInv, IssuedInv, CellInv, QueryFinds
<1> QED
  BY <1>1, TableInvariant, PTL

\* All goroutines get the same ID for the same string, and different IDs for
\* different strings.
THEOREM IdsAlwaysAgree == Spec => []IdsAgree
<1>1. LogInv /\ TableInv => IdsAgree
  <2> SUFFICES ASSUME LogInv, TableInv, NEW r \in issued, NEW q \in issued PROVE r[1] = q[1] <=> r[2] = q[2]
    BY DEF IdsAgree
  <2> DEFINE Inlined(x) == x[1] \in Strings /\ CanInline(x[1]) /\ x[2] = encodeChar6(x[1])
             Listed(x) == x[1] \in Vals /\ x[2] \in Nat \ {0} /\ cell[x[1]] = x[2]
  <2>1. (Inlined(r) \/ Listed(r)) /\ (Inlined(q) \/ Listed(q))
    BY DEF TableInv, IssuedInv
  <2>2. CASE Inlined(r) /\ Inlined(q)
    BY <2>2, Char6Assumption
  <2>3. \A x, y \in issued : Inlined(x) /\ Listed(y) => x[1] # y[1] /\ x[2] # y[2]
    BY Char6Assumption, ValsAssumption
  <2>4. CASE Listed(r) /\ Listed(q)
    <3>1. <<r[2] - 1, r[1]>> \in returned /\ <<q[2] - 1, q[1]>> \in returned
      BY <2>4 DEF TableInv, CellInv
    <3>2. IndicesUnique
      BY DEF LogInv, Core, IndexInv
    <3> QED
      BY <2>4, <3>1, <3>2 DEF IndicesUnique
  <2> QED
    BY <2>1, <2>2, <2>3, <2>4
<1> QED
  BY <1>1, TableInvariant, PTL
================================================================================
