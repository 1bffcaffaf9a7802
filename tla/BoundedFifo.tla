---------------------------- MODULE BoundedFifo ----------------------------
(***************************************************************************)
(* What an input driver promises its readers: values come out in the order *)
(* they went in, each once, and at most `Capacity' of them wait.  A value  *)
(* that is dropped on arrival is a step that changes nothing here.         *)
(***************************************************************************)
EXTENDS Naturals, Sequences

CONSTANTS
  Values,
  Capacity,
  NoValue        \* returned when nothing waits

VARIABLES
  queue,         \* the values that wait
  taken          \* the value the reader got last

Init == queue = <<>> /\ taken = NoValue

Put ==
  /\ Len(queue) < Capacity
  /\ \E v \in Values : queue' = Append(queue, v)
  /\ UNCHANGED taken

Take ==
  /\ queue # <<>>
  /\ taken' = Head(queue)
  /\ queue' = Tail(queue)

TakeNothing ==
  /\ queue = <<>>
  /\ taken' = NoValue
  /\ UNCHANGED queue

Next == Put \/ Take \/ TakeNothing

Spec == Init /\ [][Next]_<<queue, taken>>

=============================================================================
