----------------------------- MODULE EventLoop -----------------------------
(* A simulation run by the default simulator with the default scheduler, a   *)
(* map, or one of the other schedulers under the calls a simulator makes of  *)
(* it: which one, SchedulerType says once and for all.                       *)
EXTENDS DefaultSimulatorImpl

CONSTANTS HeapDelays, CalendarDelays, SchedulerMaxUid

ASSUME EventLoopAssumption ==
    HeapDelays \subseteq Nat /\ CalendarDelays \subseteq Nat /\ SchedulerMaxUid \in Nat

VARIABLES scheduler,                            \* never changes
          heap, misplaced, heapTs, heapUid,     \* the heap with its own simulator
          calendar, calendarTs, calendarUid     \* the calendar with its own

Heap == INSTANCE HeapScheduler
            WITH Delays <- HeapDelays, MaxUid <- SchedulerMaxUid,
                 m_currentTs <- heapTs, m_uid <- heapUid
Calendar == INSTANCE CalendarScheduler
                WITH Delays <- CalendarDelays, MaxUid <- SchedulerMaxUid,
                     m_currentTs <- calendarTs, m_uid <- calendarUid

heapVars == <<heap, misplaced, heapTs, heapUid>>
calendarVars == <<calendar, calendarTs, calendarUid>>

UsesMap == scheduler = "map" /\ Next /\ UNCHANGED <<heapVars, calendarVars>>
UsesHeap == scheduler = "heap" /\ Heap!Next /\ UNCHANGED <<vars, calendarVars>>
UsesCalendar == scheduler = "calendar" /\ Calendar!Next /\ UNCHANGED <<vars, heapVars>>

EventLoopInit == scheduler \in {"map", "heap", "calendar"} /\ Init /\ Heap!Init /\ Calendar!Init

EventLoopNext == (UsesMap \/ UsesHeap \/ UsesCalendar) /\ UNCHANGED scheduler

EventLoopSpec == EventLoopInit /\ [][EventLoopNext]_<<scheduler, vars, heapVars, calendarVars>>

-----------------------------------------------------------------------------
\* The heap: it loses no event and gives out the earliest, until a Remove has
\* moved the last event of the heap under a parent that is due later.
HeapIsAgenda == Heap!AgendaUnlessMisplaced

\* The calendar: it implements the agenda through resizes and skipped years.
CalendarIsAgenda == Calendar!ImplementsAgenda

=============================================================================
