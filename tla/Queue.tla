------------------------------- MODULE Queue --------------------------------
(***************************************************************************)
(* slicesx.Queue: a ring buffer whose length is zero or a power of two,    *)
(* one slot of which is always empty.                                      *)
(***************************************************************************)
EXTENDS Integers, Sequences, FiniteSets

CONSTANTS Zero,     \* the zero value of an element
          Batches,  \* the sequences that may be pushed at once
          Capacities, \* what NewQueue is called with
          MaxBuf    \* a bound on the length of the buffer

VARIABLES qbuf,      \* Queue.buf, from 0
          qstart, qend,
          qpopped   \* what the last pop returned

queueVars == <<qbuf, qstart, qend, qpopped>>

PowersOfTwo == {2^i : i \in 0..MaxBuf}
MakePowerOfTwo(n) == CHOOSE p \in PowersOfTwo : p >= n /\ \A q \in PowersOfTwo : q >= n => p <= q

BufLen == Cardinality(DOMAIN qbuf)
Zeros(n) == [i \in 0..n - 1 |-> Zero]

\* i & (len(r.buf) - 1); with no buffer that is i & -1.
Wrapped(n, i) == IF n = 0 THEN i ELSE i % n

QueueLen == IF qstart > qend THEN BufLen - qstart + qend ELSE qend - qstart
QueueCap == IF BufLen = 0 THEN 0 ELSE BufLen - 1

\* Values: the elements from start to end, around the end of the buffer.
QueueValues ==
  IF qstart <= qend THEN [i \in 1..qend - qstart |-> qbuf[qstart + i - 1]]
  ELSE [i \in 1..BufLen - qstart |-> qbuf[qstart + i - 1]] \o [i \in 1..qend |-> qbuf[i - 1]]

\* copy(dst[at:to], src).
CopyInto(dst, at, to, src) ==
  [i \in DOMAIN dst |-> IF i >= at /\ i < to /\ i - at < Len(src) THEN src[i - at + 1] ELSE dst[i]]

\* Reserve and resize: the elements move to the beginning of a longer buffer.
Reserved(n) ==
  IF QueueLen + n <= QueueCap THEN [buf |-> qbuf, start |-> qstart, end |-> qend]
  ELSE LET len == MakePowerOfTwo(QueueLen + n + 1)
       IN [buf |-> CopyInto(Zeros(len), 0, len, QueueValues), start |-> 0, end |-> QueueLen]

\* What is left of a batch when the end of the buffer was reached: v[n:].
UncopiedFromStart(vs, count) == SubSeq(vs, 1, Len(vs) - count)
Uncopied(vs, count) == SubSeq(vs, count + 1, Len(vs))

QueueInit ==
  /\ \E c \in Capacities : qbuf = IF c = 0 THEN Zeros(0) ELSE Zeros(MakePowerOfTwo(c + 1))
  /\ qstart = 0 /\ qend = 0 /\ qpopped = Zero

PushFront(vs) ==
  LET r == Reserved(Len(vs))
      n == Cardinality(DOMAIN r.buf)
      from == r.start - Len(vs)
      at == Wrapped(n, from)
      count == IF Len(vs) < n - at THEN Len(vs) ELSE n - at
  IN /\ QueueLen + Len(vs) < MaxBuf
     /\ qstart' = at /\ qend' = r.end
     /\ qbuf' = IF from < at
               THEN CopyInto(CopyInto(r.buf, at, n, vs), 0, n, Uncopied(vs, count))
               ELSE CopyInto(r.buf, at, r.start, vs)
     /\ UNCHANGED qpopped

PushBack(vs) ==
  LET r == Reserved(Len(vs))
      n == Cardinality(DOMAIN r.buf)
      to == r.end + Len(vs)
      at == Wrapped(n, to)
      count == IF Len(vs) < n - r.end THEN Len(vs) ELSE n - r.end
  IN /\ QueueLen + Len(vs) < MaxBuf
     /\ qstart' = r.start /\ qend' = at
     /\ qbuf' = IF at < to
               THEN CopyInto(CopyInto(r.buf, r.end, n, vs), 0, n, Uncopied(vs, count))
               ELSE CopyInto(r.buf, r.end, at, vs)
     /\ UNCHANGED qpopped

PopFront ==
  IF qstart = qend THEN qpopped' = Zero /\ UNCHANGED <<qbuf, qstart, qend>>
  ELSE /\ qpopped' = qbuf[qstart]
       /\ qbuf' = [qbuf EXCEPT ![qstart] = Zero]
       /\ qstart' = Wrapped(BufLen, qstart + 1)
       /\ UNCHANGED qend

PopBack ==
  IF qstart = qend THEN qpopped' = Zero /\ UNCHANGED <<qbuf, qstart, qend>>
  ELSE /\ qend' = Wrapped(BufLen, qend - 1)
       /\ qpopped' = qbuf[qend']
       /\ qbuf' = [qbuf EXCEPT ![qend'] = Zero]
       /\ UNCHANGED qstart

\* Clear drops the buffer's length, not its capacity.
QueueClear == qbuf' = Zeros(0) /\ qstart' = 0 /\ qend' = 0 /\ UNCHANGED qpopped

QueueNext == PopFront \/ PopBack \/ QueueClear \/ \E vs \in Batches : PushFront(vs) \/ PushBack(vs)

-----------------------------------------------------------------------------
\* The ring buffer is a double-ended queue, around its end and when it grows.
Abstract == INSTANCE Deque WITH items <- QueueValues, popped <- qpopped
QueueIsDeque == Abstract!DequeSpec

=============================================================================
