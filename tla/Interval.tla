------------------------------ MODULE Interval ------------------------------
(***************************************************************************)
(* The interval map of internal/interval: from points to the values of all *)
(* intervals that contain them.                                            *)
(*                                                                         *)
(* A Go slice is a header (array, length) on an array of `arrays` that     *)
(* other slices may share: append writes in place when the array has room. *)
(***************************************************************************)
EXTENDS Integers, Sequences, SequencesExt, FiniteSets

CONSTANTS Points,     \* the endpoints of intervals
          None,       \* no entry
          Blank,      \* an element of an array that was not written yet
          MaxInserts  \* a bound on Inserts

VARIABLES tree,       \* Intersect.tree: from the end of an entry to the entry
          arrays,     \* the arrays behind the values of entries
          inserted,   \* the intervals that were inserted (for the properties)
          disjoint,   \* what the last Insert returned
          bridged,    \* an Insert covered two entries that touch
          clobbered   \* an append changed what another entry holds

intersectVars == <<tree, arrays, inserted, disjoint, bridged, clobbered>>

Intervals == {p \in Points \X Points : p[1] <= p[2]}

Ascending(S) == SetToSortSeq(S, <)

-----------------------------------------------------------------------------
(* Slices.                                                                 *)

SliceContents(mem, s) == SubSeq(mem[s.arr], 1, s.len)

\* The literal []V{value}.
SliceLiteral(mem, v) == [mem |-> Append(mem, <<v>>), slice |-> [arr |-> Len(mem) + 1, len |-> 1]]

\* append(s, vs...): a small slice without room doubles.
AppendSlice(mem, s, vs) ==
  LET need == s.len + Len(vs)
      cap == Len(mem[s.arr])
      room == IF need > 2 * cap THEN need ELSE 2 * cap
      fill(a) == [i \in DOMAIN a |-> IF i > s.len /\ i <= need THEN vs[i - s.len] ELSE a[i]]
      slice(a) == [arr |-> a, len |-> need]
  IN IF need <= cap
     THEN [mem |-> [mem EXCEPT ![s.arr] = fill(@)], slice |-> slice(s.arr)]
     ELSE [mem |-> Append(mem, fill(SliceContents(mem, s) \o [i \in 1..room - s.len |-> Blank])),
           slice |-> slice(Len(mem) + 1)]

-----------------------------------------------------------------------------
(* Intersect.                                                              *)

\* Get: the entry with the least end that is not before the point.
IntersectGet(m, point) ==
  LET ends == {e \in DOMAIN m : e >= point}
      end == Ascending(ends)[1]
  IN IF ends = {} \/ point < m[end].start THEN None ELSE end

\* intersect: from the first end that is not before start, until an entry begins after end.
Overlapping(m, start, end) ==
  LET ends == Ascending({e \in DOMAIN m : e >= start})
      past == {i \in DOMAIN ends : end < m[ends[i]].start}
  IN IF past = {} THEN ends ELSE SubSeq(ends, 1, Ascending(past)[1] - 1)

Within(start, end, point) == start <= point /\ point <= end

\* What the loop of Insert carries: the map, the arrays, the new entries, the previous entry's end.
GapEntryPastEnd(st, from, to, v) ==
  LET new == SliceLiteral(st.mem, v)
  IN [st EXCEPT !.mem = new.mem, !.pending = Append(@, [start |-> from, end |-> to + 1, value |-> new.slice])]
GapEntry(st, from, to, v) ==
  LET new == SliceLiteral(st.mem, v)
  IN [st EXCEPT !.mem = new.mem, !.pending = Append(@, [start |-> from, end |-> to, value |-> new.slice])]

VisitEntry(st, key, start, end, v) ==
  LET entry == st.map[key]
      orig == entry.value
      splitEnd == Within(entry.start, key, end) /\ end < key
      last == IF splitEnd THEN end ELSE key
      splitStart == Within(entry.start, last, start) /\ entry.start < start
      first == IF splitStart THEN start ELSE entry.start
      Before(s) == IF s.prev = None /\ start < entry.start THEN GapEntry(s, start, entry.start - 1, v) ELSE s
      Shared(s, added) == [s EXCEPT
        !.mem = added.mem,
        !.map[key] = IF splitEnd THEN [start |-> end + 1, value |-> orig]
                     ELSE [start |-> first, value |-> added.slice],
        !.pending = @ \o (IF splitEnd THEN <<[start |-> first, end |-> last, value |-> added.slice]>> ELSE <<>>)
                      \o (IF splitStart THEN <<[start |-> entry.start, end |-> start - 1, value |-> orig]>> ELSE <<>>)]
      Values(s) == Shared(s, AppendSlice(s.mem, orig, <<v>>))
      Between(s) == IF s.prev # None /\ s.prev < first THEN GapEntry(s, s.prev + 1, first - 1, v) ELSE s
  IN [Between(Values(Before(st))) EXCEPT !.prev = last]

RECURSIVE VisitEntries(_, _, _, _, _)
VisitEntries(st, keys, start, end, v) ==
  IF keys = <<>> THEN st ELSE VisitEntries(VisitEntry(st, Head(keys), start, end, v), Tail(keys), start, end, v)

\* tree.Set for the new entries, in their order.
SetEntry(m, e) == [k \in DOMAIN m \cup {e.end} |-> IF k = e.end THEN [start |-> e.start, value |-> e.value] ELSE m[k]]
SetAll(m, entries) == FoldLeft(SetEntry, m, entries)

\* The end of the loop of Insert: the rest of the interval, or all of it.
InsertLoop(m, mem, start, end, v) ==
  LET After(st) == IF st.prev = None THEN GapEntry(st, start, end, v)
                   ELSE IF st.prev < end THEN GapEntry(st, st.prev + 1, end, v)
                   ELSE st
  IN After(VisitEntries([map |-> m, mem |-> mem, pending |-> <<>>, prev |-> None], Overlapping(m, start, end), start, end, v))

\* Insert: the new state, and whether the interval was disjoint from all others.
Inserted(m, mem, start, end, v) ==
  LET Result(loop) == [map |-> SetAll(loop.map, loop.pending), mem |-> loop.mem, disjoint |-> loop.prev = None]
  IN Result(InsertLoop(m, mem, start, end, v))

\* Whether an entry of Contiguous begins where the last run ends.
Touches(run, e) == run.end + 1 = e.start

\* Contiguous(true): entries that touch are joined, by appends to the first one's values.
Joined(m, mem) ==
  LET Step(st, end) ==
        LET e == m[end]
            join == st.runs # <<>> /\ Touches(st.runs[Len(st.runs)], e)
            run == st.runs[Len(st.runs)]
            added == AppendSlice(st.mem, run.value, SliceContents(st.mem, e.value))
        IN IF join THEN [mem |-> added.mem,
                         runs |-> [st.runs EXCEPT ![Len(st.runs)] = [start |-> run.start, end |-> end, value |-> added.slice]]]
           ELSE [st EXCEPT !.runs = Append(@, [start |-> e.start, end |-> end, value |-> e.value])]
  IN FoldLeft(Step, [mem |-> mem, runs |-> <<>>], Ascending(DOMAIN m))

-----------------------------------------------------------------------------
IntersectInit ==
  /\ tree = <<>> /\ arrays = <<>> /\ inserted = <<>> /\ disjoint = TRUE
  /\ bridged = FALSE /\ clobbered = FALSE

\* Two entries inside of an interval touch.
Touching(start, end) ==
  \E d, e \in Range(Overlapping(tree, start, end)) : d < e /\ tree[e].start = d + 1

\* An entry that keeps its slice has other values in it.
Clobbered(m, mem) ==
  \E e \in DOMAIN tree \cap DOMAIN m : /\ m[e].value = tree[e].value
                                       /\ SliceContents(mem, m[e].value) # SliceContents(arrays, tree[e].value)

InsertInterval(start, end) ==
  /\ Len(inserted) < MaxInserts
  /\ \E new \in {Inserted(tree, arrays, start, end, Len(inserted) + 1)} :
     /\ tree' = new.map /\ arrays' = new.mem /\ disjoint' = new.disjoint
     /\ inserted' = Append(inserted, <<start, end>>)
     /\ bridged' = (bridged \/ Touching(start, end))
     /\ clobbered' = (clobbered \/ Clobbered(new.map, new.mem))

\* Type.OccupiedRanges reads the map with Contiguous(true); the arrays it makes are dropped.
ContiguousValues ==
  /\ arrays' = SubSeq(Joined(tree, arrays).mem, 1, Len(arrays))
  /\ clobbered' = (clobbered \/ Clobbered(tree, arrays'))
  /\ UNCHANGED <<tree, inserted, disjoint, bridged>>

IntersectNext == ContiguousValues \/ \E p \in Intervals : InsertInterval(p[1], p[2])

-----------------------------------------------------------------------------
Covering(point) == SelectSeq([i \in DOMAIN inserted |-> i], LAMBDA i : Within(inserted[i][1], inserted[i][2], point))
ValuesAt(point) == LET e == IntersectGet(tree, point) IN IF e = None THEN <<>> ELSE SliceContents(arrays, tree[e].value)

\* Get returns the values of all intervals that contain the point, in the
\* order of their Inserts.
GetIsIntersection == \A p \in Points : ValuesAt(p) = Covering(p)

\* Insert says whether the interval is disjoint from all earlier ones.
DisjointIsTold ==
  inserted # <<>> =>
    LET last == inserted[Len(inserted)]
    IN disjoint <=> \A i \in 1..Len(inserted) - 1 : last[2] < inserted[i][1] \/ inserted[i][2] < last[1]

\* Contiguous yields the longest runs of covered points.
RunsAreMaximal ==
  LET runs == Joined(tree, arrays).runs
      covered == {p \in Points : Covering(p) # <<>>}
  IN /\ \A i \in DOMAIN runs : {runs[i].start - 1, runs[i].end + 1} \cap covered = {}
     /\ UNION {runs[i].start..runs[i].end : i \in DOMAIN runs} = covered

\* All of this holds unless an Insert covered two entries that touch or an append
\* wrote into an array that another entry uses: splitting at either end, filling
\* the gaps and shortening entries in place are right, and so is the answer
\* whether the interval was disjoint.
ExactUnlessBridged == ~bridged => (clobbered \/ GetIsIntersection) /\ DisjointIsTold /\ RunsAreMaximal
=============================================================================
