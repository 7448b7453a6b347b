-------------------------------- MODULE Trie --------------------------------
(***************************************************************************)
(* trie.Trie: a radix trie over the halves (nybbles) of a key's bytes,     *)
(* whose node indices start as uint8 and are widened when they run out.    *)
(* The keyword table is one (experimental/token/keyword).                  *)
(***************************************************************************)
EXTENDS Integers, Sequences, SequencesExt, FiniteSets, TLC

CONSTANTS Nybbles,  \* the values of half a byte
          TrieKeys, \* the keys: sequences of <<hi, lo>>
          TrieValues,
          AllOnes   \* ^N(0) for the index types N, from the narrowest to the widest

VARIABLES width,    \* the index of the current type in AllOnes; 0 when Trie.impl is nil
          hi, lo,   \* the tables, rows from 0
          hasValue, \* the set of nodes with a value
          values,   \* Trie.values, from 0
          mapped    \* the keys and values inserted (for the properties)

trieVars == <<width, hi, lo, hasValue, values, mapped>>

Rows(t) == Cardinality(DOMAIN t)
NoRows == [i \in {} |-> 0]
appendAllOnes(t, ones) == [i \in DOMAIN t \cup {Rows(t)} |-> IF i = Rows(t) THEN [x \in Nybbles |-> ones] ELSE t[i]]

TrieInit == width = 0 /\ hi = NoRows /\ lo = NoRows /\ hasValue = {} /\ values = NoRows /\ mapped = NoRows

\* Whether the next row of `hi` would have the index that means "unset".
RunOut(rows, ones) == rows = ones

\* nybbles.insert from node n; `node` is -1 when the indices have run out, with
\* what was already added left in place.
RECURSIVE InsertFrom(_, _, _, _, _)
InsertFrom(h, l, n, key, ones) ==
  IF key = <<>> THEN [hi |-> h, lo |-> l, node |-> n]
  ELSE LET b == Head(key)
           newRow == Rows(l) <= h[n][b[1]]
           m1 == IF newRow THEN Rows(l) ELSE h[n][b[1]]
           h1 == [h EXCEPT ![n][b[1]] = m1]
           l1 == IF newRow THEN appendAllOnes(l, ones) ELSE l
           m2 == l1[m1][b[2]]
       IN IF Rows(h) > m2 THEN InsertFrom(h1, l1, m2, Tail(key), ones)
          ELSE IF RunOut(Rows(h), ones) THEN [hi |-> h1, lo |-> l1, node |-> -1]
          ELSE InsertFrom(appendAllOnes(h1, ones), [l1 EXCEPT ![m1][b[2]] = Rows(h)], Rows(h), Tail(key), ones)

WidenedBits(t, from, to) == t
\* grow: an unset index stays unset in the wider type.
Widened(t, from, to) == [i \in DOMAIN t |-> [x \in Nybbles |-> IF t[i][x] = from THEN to ELSE t[i][x]]]

RECURSIVE Inserting(_, _, _, _)
Inserting(w, h, l, key) ==
  LET Grown(r) ==
        IF r.node # -1 THEN [width |-> w] @@ r
        ELSE Inserting(w + 1, Widened(r.hi, AllOnes[w], AllOnes[w + 1]), Widened(r.lo, AllOnes[w], AllOnes[w + 1]), key)
  IN Grown(InsertFrom(h, l, 0, key, AllOnes[w]))

TrieInsert(key, v) ==
  LET w == IF width = 0 THEN 1 ELSE width
  IN \E r \in {Inserting(w, IF hi = NoRows THEN appendAllOnes(hi, AllOnes[w]) ELSE hi, lo, key)} :
     /\ width' = r.width /\ hi' = r.hi /\ lo' = r.lo
     /\ hasValue' = hasValue \cup {r.node}
     /\ values' = [i \in DOMAIN values \cup 0..r.node |->
                     IF i = r.node THEN v ELSE IF i \in DOMAIN values THEN values[i] ELSE ""]
     /\ mapped' = [k \in DOMAIN mapped \cup {key} |-> IF k = key THEN v ELSE mapped[k]]

TrieNext == \E key \in TrieKeys, v \in TrieValues : TrieInsert(key, v)

\* nybbles.step, iterated: the nodes with a value along the key, with the length
\* of their prefix.
RECURSIVE StepsFrom(_, _, _)
StepsFrom(key, i, n) ==
  LET here == IF n \in hasValue THEN << <<SubSeq(key, 1, i), values[n]>> >> ELSE <<>>
      b == key[i + 1]
  IN IF i = Len(key) \/ Rows(hi) <= n THEN here
     ELSE IF Rows(lo) <= hi[n][b[1]] THEN here
     ELSE here \o StepsFrom(key, i + 1, lo[hi[n][b[1]]][b[2]])

PrefixesOf(key) == IF width = 0 THEN <<>> ELSE StepsFrom(key, 0, 0)

-----------------------------------------------------------------------------
\* insert checks only `hi` for the last index of its type; `lo` never holds as
\* many rows, so that no row has the index that means "unset".
LowRowsNeverRunOut == width > 0 => Rows(hi) <= AllOnes[width] /\ Rows(lo) <= AllOnes[width]

\* The iterator of Prefixes gives exactly the inserted prefixes of the key with their last
\* values, shortest first (Get takes the last): also when an insertion ran out
\* of indices half way, left rows behind and was started again in a wider type.
PrefixesAreInserted ==
  /\ LowRowsNeverRunOut
  /\ \A key \in TrieKeys :
       PrefixesOf(key) =
         LET lengths == SetToSortSeq({i \in 0..Len(key) : SubSeq(key, 1, i) \in DOMAIN mapped}, <)
         IN [j \in DOMAIN lengths |-> <<SubSeq(key, 1, lengths[j]), mapped[SubSeq(key, 1, lengths[j])]>>]
=============================================================================
