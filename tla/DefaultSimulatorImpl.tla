------------------------ MODULE DefaultSimulatorImpl ------------------------
(* The simulator's event loop: the thread that calls Run executes events and *)
(* schedules, removes and cancels them from their handlers; other threads    *)
(* hand events over with ScheduleWithContext.  One step of the main thread   *)
(* is what it does between two points at which another thread's call can     *)
(* make a difference.                                                        *)
EXTENDS EventKey, Sequences

CONSTANTS Delays,       \* delays to schedule with
          MaxUid        \* a bound: where m_uid stops, well before it wraps around

ASSUME SimulatorAssumption == Delays \subseteq Nat /\ MaxUid \in Nat

VARIABLES
    pc,                         \* where the main thread is
    m_events,                   \* keys of the events in the scheduler, a map
    m_currentTs, m_currentUid, m_uid, m_unscheduledEvents, m_stop,
    cancelled,                  \* uids of the events whose m_cancel is set
    ids,                        \* keys in the EventIds that Schedule returned
    m_destroyEvents,            \* uids counted by ScheduleDestroy, oldest first
    m_eventsWithContext,        \* events handed over, by the number below
    m_eventsWithContextEmpty,
    handed,                     \* delay of each event handed over so far
    placed                      \* the key each got when it was inserted

loopVars == <<m_events, m_currentTs, m_currentUid, m_uid, m_unscheduledEvents, m_stop>>
callerVars == <<cancelled, ids, m_destroyEvents>>
handVars == <<m_eventsWithContext, m_eventsWithContextEmpty, handed, placed>>
vars == <<pc, loopVars, callerVars, handVars>>

-----------------------------------------------------------------------------
\* The caller's code runs in the main thread: outside Run, in a handler, or in
\* a handler that Destroy calls.
InCaller == pc \in {"idle", "handler", "destroying"}

\* A bound on the events there can be.
Room == m_uid + Len(m_eventsWithContext) < MaxUid

Key(ts) == [ts |-> ts, uid |-> m_uid]

\* Mutant of IsExpired: the event that runs is not expired yet.
IsExpiredLate(id) ==
    \/ id.ts < m_currentTs
    \/ id.ts = m_currentTs /\ id.uid < m_currentUid
    \/ id.uid \in cancelled

IsExpired(id) ==
    \/ id.ts < m_currentTs
    \/ id.ts = m_currentTs /\ id.uid <= m_currentUid
    \/ id.uid \in cancelled

Init ==
    /\ pc = "idle"
    /\ m_events = {} /\ m_currentTs = 0 /\ m_currentUid = InvalidUid /\ m_uid = FirstUid
    /\ m_unscheduledEvents = 0 /\ m_stop = FALSE
    /\ cancelled = {} /\ ids = {} /\ m_destroyEvents = <<>>
    /\ m_eventsWithContext = <<>> /\ m_eventsWithContextEmpty = TRUE
    /\ handed = <<>> /\ placed = <<>>

-----------------------------------------------------------------------------
Insert(d) ==
    /\ InCaller /\ Room
    /\ m_events' = m_events \cup {Key(m_currentTs + d)}
    /\ m_uid' = m_uid + 1
    /\ m_unscheduledEvents' = m_unscheduledEvents + 1
    /\ UNCHANGED <<pc, m_currentTs, m_currentUid, m_stop, cancelled, m_destroyEvents, handVars>>

\* ScheduleNow is Schedule with a delay of 0.
Schedule(d) == Insert(d) /\ ids' = ids \cup {Key(m_currentTs + d)}

\* ScheduleWithContext called by the main thread returns no EventId.
ScheduleWithContext(d) == Insert(d) /\ UNCHANGED ids

\* ScheduleWithContext called by another thread, at any time.
HandOver(d) ==
    /\ Room /\ pc # "disposed"
    /\ handed' = Append(handed, d)
    /\ m_eventsWithContext' = Append(m_eventsWithContext, Len(handed'))
    /\ m_eventsWithContextEmpty' = FALSE
    /\ UNCHANGED <<pc, loopVars, callerVars, placed>>

Stop ==
    /\ InCaller
    /\ m_stop' = TRUE
    /\ UNCHANGED <<pc, m_events, m_currentTs, m_currentUid, m_uid, m_unscheduledEvents,
                   callerVars, handVars>>

Remove(id) ==
    /\ InCaller /\ ~IsExpired(id)
    /\ m_events' = m_events \ {id}
    /\ cancelled' = cancelled \cup {id.uid}
    /\ m_unscheduledEvents' = m_unscheduledEvents - 1
    /\ UNCHANGED <<pc, m_currentTs, m_currentUid, m_uid, m_stop, ids, m_destroyEvents, handVars>>

Cancel(id) ==
    /\ InCaller /\ ~IsExpired(id)
    /\ cancelled' = cancelled \cup {id.uid}
    /\ UNCHANGED <<pc, loopVars, ids, m_destroyEvents, handVars>>

-----------------------------------------------------------------------------
ScheduleDestroy ==
    /\ InCaller /\ Room
    /\ m_destroyEvents' = Append(m_destroyEvents, m_uid)
    /\ m_uid' = m_uid + 1
    /\ UNCHANGED <<pc, m_events, m_currentTs, m_currentUid, m_unscheduledEvents, m_stop,
                   cancelled, ids, handVars>>

\* Remove of the i-th destroy event, which stays uncancelled.
RemoveDestroy(i) ==
    /\ InCaller
    /\ m_destroyEvents' = SubSeq(m_destroyEvents, 1, i - 1)
                            \o SubSeq(m_destroyEvents, i + 1, Len(m_destroyEvents))
    /\ UNCHANGED <<pc, loopVars, cancelled, ids, handVars>>

CancelDestroy(i) ==
    /\ InCaller
    /\ cancelled' = cancelled \cup {m_destroyEvents[i]}
    /\ UNCHANGED <<pc, loopVars, ids, m_destroyEvents, handVars>>

\* Destroy calls the handlers one by one; each may schedule more of them.
Destroy ==
    /\ pc \in {"idle", "destroying"} /\ m_destroyEvents # <<>>
    /\ pc' = "destroying"
    /\ m_destroyEvents' = Tail(m_destroyEvents)
    /\ UNCHANGED <<loopVars, cancelled, ids, handVars>>

-----------------------------------------------------------------------------
Run ==
    /\ pc = "idle"
    /\ pc' = "start"
    /\ UNCHANGED <<loopVars, callerVars, handVars>>

\* What follows ProcessEventsWithContext: the rest of Run's start, the loop, or
\* the rest of DoDispose.
Proceed ==
    /\ pc' = CASE pc \in {"dispose", "swapAtDispose"} -> "disposed" [] OTHER -> "loop"
    /\ m_stop' = IF pc \in {"start", "swapAtStart"} THEN FALSE ELSE m_stop

\* ProcessEventsWithContext reads the flag without the mutex.
ReadFlag ==
    /\ pc \in {"start", "executed", "dispose"}
    /\ IF m_eventsWithContextEmpty
       THEN Proceed
       ELSE /\ pc' = CASE pc = "start" -> "swapAtStart"
                       [] pc = "executed" -> "swap"
                       [] pc = "dispose" -> "swapAtDispose"
            /\ UNCHANGED m_stop
    /\ UNCHANGED <<m_events, m_currentTs, m_currentUid, m_uid, m_unscheduledEvents,
                   callerVars, handVars>>

\* Mutants of KeyOfHanded: the list is walked from its end; the delay is taken for the time.
KeyOfHandedBackwards(i) ==
    [ts |-> m_currentTs + handed[m_eventsWithContext[i]],
     uid |-> m_uid + Len(m_eventsWithContext) - i]
KeyOfHandedAbsolute(i) == [ts |-> handed[m_eventsWithContext[i]], uid |-> m_uid + i - 1]

\* The key the i-th event of the list handed over gets.
KeyOfHanded(i) == [ts |-> m_currentTs + handed[m_eventsWithContext[i]], uid |-> m_uid + i - 1]

\* The list is taken with the mutex held; what is in it is then the main
\* thread's own.
ProcessEventsWithContext ==
    /\ pc \in {"swapAtStart", "swap", "swapAtDispose"}
    /\ m_events' = m_events \cup {KeyOfHanded(i) : i \in DOMAIN m_eventsWithContext}
    /\ m_uid' = m_uid + Len(m_eventsWithContext)
    /\ m_unscheduledEvents' = m_unscheduledEvents + Len(m_eventsWithContext)
    /\ placed' = placed \o [i \in DOMAIN m_eventsWithContext |-> KeyOfHanded(i)]
    /\ m_eventsWithContext' = <<>>
    /\ m_eventsWithContextEmpty' = TRUE
    /\ Proceed
    /\ UNCHANGED <<m_currentTs, m_currentUid, callerVars, handed>>

\* A cancelled event is executed without its handler.
ProcessOneEvent(next) ==
    /\ pc = "loop" /\ ~m_stop /\ IsFirst(next, m_events)
    /\ m_events' = m_events \ {next}
    /\ m_unscheduledEvents' = m_unscheduledEvents - 1
    /\ m_currentTs' = next.ts
    /\ m_currentUid' = next.uid
    /\ pc' = IF next.uid \in cancelled THEN "executed" ELSE "handler"
    /\ UNCHANGED <<m_uid, m_stop, callerVars, handVars>>

HandlerReturns ==
    /\ pc = "handler"
    /\ pc' = "executed"
    /\ UNCHANGED <<loopVars, callerVars, handVars>>

RunReturns ==
    /\ pc = "loop" /\ (m_events = {} \/ m_stop)
    /\ pc' = "idle"
    /\ UNCHANGED <<loopVars, callerVars, handVars>>

\* Simulator::Destroy ends with DoDispose, which drops the events.
Dispose ==
    /\ pc \in {"idle", "destroying"} /\ m_destroyEvents = <<>>
    /\ pc' = "dispose"
    /\ UNCHANGED <<loopVars, callerVars, handVars>>

Calls ==
    \/ \E d \in Delays : Schedule(d) \/ ScheduleWithContext(d)
    \/ Stop
    \/ \E id \in ids : Remove(id) \/ Cancel(id)
    \/ ScheduleDestroy
    \/ \E i \in DOMAIN m_destroyEvents : RemoveDestroy(i) \/ CancelDestroy(i)

Loop ==
    \/ Run \/ ReadFlag \/ ProcessEventsWithContext
    \/ \E next \in m_events : ProcessOneEvent(next)
    \/ HandlerReturns \/ RunReturns \/ Destroy \/ Dispose

Next == Calls \/ Loop \/ \E d \in Delays : HandOver(d)

Spec == Init /\ [][Next]_vars

-----------------------------------------------------------------------------
\* IsExpired compares an EventId with the event executed last; by that alone
\* the caller's Remove knows that the event is in the scheduler.  However events
\* of equal times, removals and hand-overs mix, an EventId is unexpired exactly
\* while its event is in the scheduler and not cancelled.
ExpiredIsGone == \A id \in ids : ~IsExpired(id) <=> (id \in m_events /\ id.uid \notin cancelled)

\* Simulated time does not go back: what is in the scheduler is due after the
\* event executed last, also when it was handed over while that one ran.
PendingIsLater ==
    \A e \in m_events : Precedes([ts |-> m_currentTs, uid |-> m_currentUid], e)

\* Events that other threads hand over run in the order of the hand-over, unless
\* a later one asks for a shorter delay, and none is overtaken in the list.
HandOversInOrder ==
    \A y \in DOMAIN placed : \A x \in 1 .. y - 1 :
        handed[x] <= handed[y] => Precedes(placed[x], placed[y])

=============================================================================
