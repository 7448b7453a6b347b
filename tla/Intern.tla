-------------------------------- MODULE Intern --------------------------------
(***************************************************************************)
(* intern.Table: strings to IDs and back, for many goroutines at once.  A  *)
(* short string of the right letters is its own ID (the char6 encoding);   *)
(* for the others the goroutine that adds the string to the index appends  *)
(* it to the Log, and the others wait for it.                              *)
(*                                                                         *)
(* A string is a sequence of sextets; Base stands for every byte that is   *)
(* not a letter of char6, and Base - 1 for the period.                     *)
(***************************************************************************)
EXTENDS Log

CONSTANTS
  Strings,
  Base,        \* 64
  MaxInlined,  \* 5
  MaxOps       \* bound: calls of Intern, Query and Value

ASSUME StringsAssumption == Base \in Nat \ {0, 1} /\ MaxInlined \in Nat /\ Strings \subseteq Seq(0..Base)
ASSUME OpsAssumption == MaxOps \in Nat

VARIABLES
  index,   \* the sync.Map: whether a string has no entry, a pointer or nil
  cell,    \* what the pointer points to: 0 until the ID is known
  at,      \* where each goroutine is in Intern, Query or Value
  str,     \* the string it is about
  ops,     \* calls so far
  issued   \* history: the strings and the IDs that were returned for them

tableVars == <<index, cell, at, str, ops, issued>>
vars == <<logVars, tableVars>>

Init ==
  /\ LogInit
  /\ index = [s \in Vals |-> "absent"]
  /\ cell = [s \in Vals |-> 0]
  /\ at = [w \in Procs |-> "idle"]
  /\ str = [w \in Procs |-> <<>>]
  /\ ops = 0
  /\ issued = {}

-----------------------------------------------------------------------------
(* char6.                                                                  *)

Period == Base - 1

CanInline(s) ==
  s # <<>> => Len(s) <= MaxInlined /\ s[Len(s)] # Period /\ \A i \in DOMAIN s : s[i] < Base

\* Sextets are shifted into a word of ones, the last one first.
encodeChar6(s) ==
  LET value[i \in 1..Len(s) + 1] == IF i > Len(s) THEN -1 ELSE value[i + 1] * Base + s[i]
  IN  IF s = <<>> THEN 0 ELSE value[1]

\* The sextets of the word, without the periods at the end.
decodeChar6(n) ==
  LET buf == [i \in 1..MaxInlined |-> (n \div Base^(i - 1)) % Base]
      used == {i \in 1..MaxInlined : buf[i] # Period}
  IN  IF n = 0 \/ used = {} THEN <<>> ELSE SubSeq(buf, 1, CHOOSE i \in used : \A j \in used : j <= i)

ASSUME ValsAssumption == Vals = {s \in Strings : ~CanInline(s)}
\* Each of them may be appended once.
ASSUME SpaceAssumption == IsFiniteSet(Vals) /\ MaxInt + Cardinality(Vals) <= MaxCalls
\* IDs of char6 are not positive, and different.
ASSUME Char6Assumption ==
  \A s \in {t \in Strings : CanInline(t)} :
    /\ encodeChar6(s) \in Int /\ encodeChar6(s) <= 0
    /\ \A t \in Strings : CanInline(t) /\ encodeChar6(t) = encodeChar6(s) => t = s

-----------------------------------------------------------------------------
(* Query and Intern.  Intern begins with Query.                            *)

Begins(w) == at[w] = "idle" /\ ops < MaxOps /\ ops' = ops + 1
To(w, l, s) == at' = [at EXCEPT ![w] = l] /\ str' = [str EXCEPT ![w] = s]
Ends(w) == To(w, "idle", <<>>)

\* The call returns n for s.
Got(w, s, n) == Ends(w) /\ issued' = issued \cup {<<s, n>>}

\* The string has no ID, as far as Query can tell; c is the call.
Missed(w, c, s) == (IF c = "intern" THEN To(w, "slow", s) ELSE Ends(w)) /\ UNCHANGED issued

QueryInlined(w) ==
  /\ Begins(w)
  /\ \E s \in Strings : CanInline(s) /\ Got(w, s, encodeChar6(s))
  /\ UNCHANGED <<logVars, index, cell>>

\* index.Load
QueryIndex(w) ==
  /\ Begins(w)
  /\ \E c \in {"intern", "query"}, s \in Vals :
       IF index[s] = "pointer" THEN To(w, c, s) /\ UNCHANGED issued ELSE Missed(w, c, s)
  /\ UNCHANGED <<logVars, index, cell>>

\* p.Load
QueryCell(w) ==
  /\ at[w] \in {"intern", "query"}
  /\ IF cell[str[w]] > 0 THEN Got(w, str[w], cell[str[w]]) ELSE Missed(w, at[w], str[w])
  /\ UNCHANGED <<logVars, index, cell, ops>>

\* Mutant: takes part whatever the entry is.
SlowStoreAlways(w) ==
  /\ at[w] = "slow"
  /\ To(w, "append", str[w])
  /\ index' = [index EXCEPT ![str[w]] = "pointer"]
  /\ CallAppend(w, str[w])
  /\ UNCHANGED <<cell, ops, issued>>

\* internSlow: index.LoadOrStore stores.
SlowStore(w) ==
  /\ at[w] = "slow" /\ index[str[w]] = "absent"
  /\ To(w, "append", str[w])
  /\ index' = [index EXCEPT ![str[w]] = "pointer"]
  /\ CallAppend(w, str[w])
  /\ UNCHANGED <<cell, ops, issued>>

\* index.LoadOrStore loads; nil makes Intern panic.
SlowLoad(w) ==
  /\ at[w] = "slow" /\ index[str[w]] # "absent"
  /\ IF index[str[w]] = "pointer" THEN To(w, "slowCell", str[w]) ELSE Ends(w)
  /\ UNCHANGED <<logVars, index, cell, ops, issued>>

\* p.Load: tries again while the ID is not known.
SlowCell(w) ==
  /\ at[w] = "slowCell"
  /\ IF cell[str[w]] > 0 THEN Got(w, str[w], cell[str[w]]) ELSE To(w, "slow", str[w]) /\ UNCHANGED issued
  /\ UNCHANGED <<logVars, index, cell, ops>>

\* Append returns, and p.Store.
Commit(w) ==
  /\ at[w] = "append" /\ pc[w] = "ok"
  /\ Return(w)
  /\ cell' = [cell EXCEPT ![str[w]] = idx[w] + 1]
  /\ Got(w, str[w], idx[w] + 1)
  /\ UNCHANGED <<index, ops>>

\* Mutant: leaves the entry as it is.
PoisonNot(w) ==
  /\ at[w] = "append" /\ pc[w] = "failed"
  /\ Return(w)
  /\ Ends(w)
  /\ UNCHANGED <<index, cell, ops, issued>>

\* Append fails: the entry becomes nil, and Intern panics.
Poison(w) ==
  /\ at[w] = "append" /\ pc[w] = "failed"
  /\ Return(w)
  /\ index' = [index EXCEPT ![str[w]] = "nil"]
  /\ Ends(w)
  /\ UNCHANGED <<cell, ops, issued>>

-----------------------------------------------------------------------------
(* Value, of an ID of the Log that was returned to anyone.  For the others  *)
(* it is decodeChar6.                                                      *)

\* Mutant: the ID for the index.
ValueNext(w) ==
  /\ Begins(w)
  /\ \E r \in issued : r[2] > 0 /\ LoadLen(w, r[2])
  /\ To(w, "value", <<>>)
  /\ UNCHANGED <<index, cell, issued>>

Value(w) ==
  /\ Begins(w)
  /\ \E r \in issued : r[2] > 0 /\ LoadLen(w, r[2] - 1)
  /\ To(w, "value", <<>>)
  /\ UNCHANGED <<index, cell, issued>>

ValueLoaded(w) ==
  /\ at[w] = "value" /\ pc[w] = "loaded"
  /\ Return(w)
  /\ Ends(w)
  /\ UNCHANGED <<index, cell, ops, issued>>

-----------------------------------------------------------------------------
InLog(w) == LogStep(w) /\ UNCHANGED tableVars

Work(w) ==
  \/ QueryCell(w) \/ SlowStore(w) \/ SlowLoad(w) \/ SlowCell(w) \/ Commit(w) \/ Poison(w)
  \/ ValueLoaded(w) \/ InLog(w)

\* A goroutine that finds its loop condition unchanged reads it again.
Spins(w) ==
  \/ pc[w] = "size" /\ idx[w] > cap
  \/ pc[w] = "settle" /\ len <= idx[w]
  \/ pc[w] = "drain" /\ len # idx[w]

Rest == (\A w \in Procs : at[w] = "idle" \/ Spins(w)) /\ UNCHANGED vars

Next == (\E w \in Procs : QueryInlined(w) \/ QueryIndex(w) \/ Value(w) \/ Work(w)) \/ Rest

Spec == Init /\ [][Next]_vars

\* Every goroutine that is inside of a call goes on.
FairSpec == Spec /\ \A w \in Procs : WF_vars(Work(w))

-----------------------------------------------------------------------------
(* Properties.                                                             *)

\* The table and the calls keep their types: no ID of the table is negative,
\* as those of char6 are.
TypeOK ==
  /\ index \in [Vals -> {"absent", "pointer", "nil"}]
  /\ cell \in [Vals -> Nat]
  /\ at \in [Procs -> {"idle", "intern", "query", "slow", "slowCell", "append", "value"}]
  /\ str \in [Procs -> Vals \cup {<<>>}]
  /\ ops \in 0..MaxOps

\* Strings and IDs correspond one to one, for all goroutines and all time:
\* those of the index, those of char6 and those of both.
IdsAgree == \A r, q \in issued : r[1] = q[1] <=> r[2] = q[2]

ShortStrings == UNION {[1..n -> 0..Base] : n \in 0..MaxInlined + 1}

Char6Inverts ==
  \A s \in ShortStrings : CanInline(s) => encodeChar6(s) <= 0 /\ decodeChar6(encodeChar6(s)) = s

\* Once an ID of a string has been returned to anyone, Query finds that ID,
\* for ever.
QueryFinds == \A r \in issued : r[1] \in Vals => index[r[1]] = "pointer" /\ cell[r[1]] = r[2]

\* Intern, Query and Value end: those who wait for the ID of a string get it,
\* or panic when the Log is full.  (Unless the capacity, an int32, has become
\* negative: then the indices that are left are waited for in vain.)
CallsEnd == \A w \in Procs : at[w] # "idle" ~> at[w] = "idle" \/ cap < 0
================================================================================
