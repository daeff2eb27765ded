-------------------------- MODULE BasicServiceSet --------------------------
(* What a station and its access points have in common.                      *)
EXTENDS Naturals, Sequences

CONSTANTS Aps,          \* the access points
          MaxQueued     \* the association frames that a queue holds, a bound

ASSUME QueueAssumption == MaxQueued \in Nat

\* A frame is put in a queue, or dropped when the queue is full.
Queued(queue, frame) == IF Len(queue) < MaxQueued THEN Append(queue, frame) ELSE queue

=============================================================================
