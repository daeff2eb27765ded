------------------------------ MODULE EventKey ------------------------------
(* The key of a simulated event, and the order in which events are due:      *)
(* first by time stamp, then in the order in which they were scheduled.      *)
EXTENDS Naturals

FirstUid == 4           \* EventId::UID::VALID
InvalidUid == 0         \* EventId::UID::INVALID

Event == [ts : Nat, uid : Nat]

Precedes(a, b) == a.ts < b.ts \/ (a.ts = b.ts /\ a.uid < b.uid)

\* e is what MapScheduler, a map ordered by the key, keeps at its beginning.
IsFirst(e, events) == e \in events /\ \A f \in events \ {e} : Precedes(e, f)

=============================================================================
