----------------------------- MODULE EventAgenda -----------------------------
(* What every scheduler promises the simulator: the event it removes next is *)
(* the earliest of those inserted and not removed.  The simulator inserts no *)
(* event before the time of the one it removed last.                         *)
EXTENDS EventKey

CONSTANTS Delays,       \* delays to schedule with
          MaxUid        \* a bound: where the count of events stops

VARIABLES events,       \* the events inserted and not removed
          m_currentTs,  \* time stamp of the event removed last
          m_uid         \* uid of the next event

Init == events = {} /\ m_currentTs = 0 /\ m_uid = FirstUid

Insert ==
    /\ m_uid < MaxUid
    /\ \E d \in Delays : events' = events \cup {[ts |-> m_currentTs + d, uid |-> m_uid]}
    /\ m_uid' = m_uid + 1
    /\ UNCHANGED m_currentTs

RemoveNext ==
    /\ \E e \in events : IsFirst(e, events) /\ events' = events \ {e} /\ m_currentTs' = e.ts
    /\ UNCHANGED m_uid

RemoveEvent ==
    /\ \E e \in events : events' = events \ {e}
    /\ UNCHANGED <<m_currentTs, m_uid>>

Next == Insert \/ RemoveNext \/ RemoveEvent

Spec == Init /\ [][Next]_<<events, m_currentTs, m_uid>>

=============================================================================
