------------------------------- MODULE Deque --------------------------------
(***************************************************************************)
(* What a double-ended queue promises: a sequence that grows and shrinks   *)
(* at both ends.                                                           *)
(***************************************************************************)
EXTENDS Sequences, SequencesExt

CONSTANTS Zero,   \* what a pop of an empty queue returns
          Batches \* the sequences that may be pushed at once

VARIABLES items, popped

PushFrontD(vs) == items' = vs \o items /\ UNCHANGED popped
PushBackD(vs) == items' = items \o vs /\ UNCHANGED popped
PopFrontD ==
  IF items = <<>> THEN popped' = Zero /\ UNCHANGED items
  ELSE popped' = Head(items) /\ items' = Tail(items)
PopBackD ==
  IF items = <<>> THEN popped' = Zero /\ UNCHANGED items
  ELSE popped' = Last(items) /\ items' = Front(items)
ClearD == items' = <<>> /\ UNCHANGED popped

DequeInit == items = <<>> /\ popped = Zero
DequeNext == PopFrontD \/ PopBackD \/ ClearD \/ \E vs \in Batches : PushFrontD(vs) \/ PushBackD(vs)
DequeSpec == DequeInit /\ [][DequeNext]_<<items, popped>>
=============================================================================
