------------------------------- MODULE Arena --------------------------------
(***************************************************************************)
(* arena.Arena: values in a table of slices, each twice as long as the one *)
(* before, so that they never move; a compressed pointer is the number of  *)
(* values allocated up to and including its own, and 0 is nil.             *)
(***************************************************************************)
EXTENDS Integers, Sequences, FiniteSets

CONSTANTS pointersMinLenShift, \* log2 of the length of the first slice
          MaxValues            \* a bound on allocations

VARIABLES slices,   \* Arena.table, slices from 0: [cap, len]
          given     \* compressed pointer -> where New put its value: <<slice, index>>

arenaVars == <<slices, given>>

pointersMinLen == 2^pointersMinLenShift
lenOfNthSlice(n) == pointersMinLen * 2^n
lenOfFirstNSlices(n) ==
  LET d == lenOfNthSlice(n) - lenOfNthSlice(0) IN IF d > 0 THEN d ELSE 0

SliceCount == Cardinality(DOMAIN slices)
ArenaLen == IF SliceCount = 0 THEN 0
            ELSE lenOfFirstNSlices(SliceCount - 1) + slices[SliceCount - 1].len

\* bits.UintSize - bits.LeadingZeros(n).
BitLength(n) == CHOOSE b \in 0..20 : n < 2^b /\ (b > 0 => n >= 2^(b - 1))

coordinatesEarly(idx) ==
  LET slice == BitLength(idx + pointersMinLen + 1) - (pointersMinLenShift + 1)
  IN <<slice, idx - lenOfFirstNSlices(slice)>>
coordinates(idx) ==
  LET slice == BitLength(idx + pointersMinLen) - (pointersMinLenShift + 1)
  IN <<slice, idx - lenOfFirstNSlices(slice)>>

\* Compress: the slice that holds the address, and the values before it.
Compress(at) == lenOfFirstNSlices(at[1]) + at[2] + 1

ArenaInit == slices = [i \in {} |-> 0] /\ given = [p \in {} |-> 0]

\* New and NewCompressed.
NewCompressed ==
  LET first == SliceCount = 0
      last == slices[SliceCount - 1]
      grown == IF first THEN [i \in {0} |-> [cap |-> pointersMinLen, len |-> 0]]
               ELSE IF last.len = last.cap
               THEN [i \in 0..SliceCount |-> IF i = SliceCount THEN [cap |-> 2 * last.cap, len |-> 0] ELSE slices[i]]
               ELSE slices
      at == Cardinality(DOMAIN grown) - 1
  IN /\ ArenaLen < MaxValues
     /\ slices' = [grown EXCEPT ![at].len = @ + 1]
     /\ given' = [p \in DOMAIN given \cup {ArenaLen'} |->
                    IF p \in DOMAIN given THEN given[p] ELSE <<at, grown[at].len>>]

ArenaNext == NewCompressed

-----------------------------------------------------------------------------
\* Every pointer ever given leads to the slot its value was put in, and Compress
\* takes that slot back to the pointer: across the ends of the slices, and no
\* pointer is given twice.
PointersStayExact ==
  /\ DOMAIN given = 1..ArenaLen
  /\ \A p \in DOMAIN given : coordinates(p - 1) = given[p] /\ Compress(given[p]) = p
=============================================================================
