---------------------------- MODULE BoundedFifo -----------------------------
(***************************************************************************)
(* What the single-producer single-consumer queue of spsc.rs promises: a   *)
(* first-in first-out queue of bounded capacity that passes N payloads.    *)
(***************************************************************************)
EXTENDS Integers, Sequences

CONSTANTS N, Cap, Payload(_)

VARIABLES
  queue,    \* payloads put and not taken
  received  \* payloads taken, in order

vars == <<queue, received>>

Init == queue = <<>> /\ received = <<>>

Put ==
  LET i == Len(received) + Len(queue) IN
  /\ i < N
  /\ Len(queue) < Cap
  /\ queue' = Append(queue, Payload(i))
  /\ UNCHANGED received

Take ==
  /\ queue # <<>>
  /\ received' = Append(received, Head(queue))
  /\ queue' = Tail(queue)

\* A launch of the kernel starts with an empty queue.
Restart ==
  /\ queue' = <<>>
  /\ received' = <<>>

Next == Put \/ Take \/ Restart

Spec == Init /\ [][Next]_vars
=============================================================================
