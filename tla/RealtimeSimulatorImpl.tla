----------------------- MODULE RealtimeSimulatorImpl -----------------------
(* The simulator that keeps to the wall clock.  The main thread sleeps until *)
(* the first event is due, without the lock, and takes the first event then; *)
(* other threads schedule, remove, cancel and stop meanwhile, and wake it    *)
(* with a condition variable.  One step is one critical section of m_mutex,  *)
(* or what a thread does between two of them.                                *)
EXTENDS EventKey, FiniteSets, FiniteSetsExt

CONSTANTS Delays, MaxUid,   \* as for DefaultSimulatorImpl
          Epoch,            \* the wall clock when the process starts
          Horizon,          \* a bound: the time from then to the last free tick
          MaxRuns,          \* a bound: calls of Run
          SleepMargin,      \* what SleepWait leaves of a delay to SpinWait: three jiffies
          OneSecond         \* how long Run sleeps when there is no event

ASSUME RealtimeAssumption ==
    /\ Delays \subseteq Nat /\ MaxUid \in Nat /\ MaxRuns \in Nat
    /\ Epoch \in Nat /\ Horizon \in Nat /\ SleepMargin \in Nat /\ OneSecond \in Nat

VARIABLES
    pc,                     \* where the main thread is
    m_events, m_currentTs, m_currentUid, m_uid, m_unscheduledEvents, m_stop,
    cancelled,              \* uids of the events whose m_cancel is set
    ids,                    \* keys in the EventIds that Schedule returned
    clock,                  \* the wall clock
    m_realtimeOrigin, m_running, m_condition,
    deadline, sleeping,     \* of the main thread's wait: its end, and whether it sleeps
    removing,               \* keys a thread has found unexpired and is about to remove
    stray,                  \* events scheduled between m_running and SetOrigin
    removed,                \* has another thread removed an event
    runs

queueVars == <<m_events, m_uid, m_unscheduledEvents>>
currentVars == <<m_currentTs, m_currentUid>>
waitVars == <<deadline, sleeping>>
historyVars == <<stray, removed, runs>>
vars == <<pc, queueVars, currentVars, m_stop, cancelled, ids, clock, m_realtimeOrigin,
          m_running, m_condition, waitVars, removing, historyVars>>

-----------------------------------------------------------------------------
Alive == pc # "aborted"
InCaller == pc \in {"idle", "handler"}

\* GetCurrentRealtime: the time since the origin, which is 0 until Run sets it.
Realtime == clock - m_realtimeOrigin

Key(ts) == [ts |-> ts, uid |-> m_uid]

IsExpired(id) ==
    \/ id.ts < m_currentTs
    \/ id.ts = m_currentTs /\ id.uid <= m_currentUid
    \/ id.uid \in cancelled

\* A failed assertion stops the process.
Abort ==
    /\ pc' = "aborted"
    /\ UNCHANGED <<queueVars, currentVars, m_stop, cancelled, ids, clock, m_realtimeOrigin,
                   m_running, m_condition, waitVars, removing, historyVars>>

Init ==
    /\ pc = "idle"
    /\ m_events = {} /\ m_uid = FirstUid /\ m_unscheduledEvents = 0
    /\ m_currentTs = 0 /\ m_currentUid = InvalidUid
    /\ m_stop = FALSE /\ m_running = FALSE /\ m_condition = FALSE
    /\ cancelled = {} /\ ids = {} /\ removing = {}
    /\ clock = Epoch /\ m_realtimeOrigin = 0
    /\ deadline = 0 /\ sleeping = FALSE
    /\ stray = {} /\ removed = FALSE /\ runs = 0

\* Time passes while it is within the bound, or an event is still to come, or
\* Run has been stopped and sleeps.
Tick ==
    /\ Alive
    /\ \/ clock < Epoch + Horizon
       \/ \E e \in m_events : e.uid \notin stray /\ e.ts > Realtime
       \/ m_stop /\ pc \in {"wait", "idleWait"} /\ stray = {} /\ Realtime < deadline
    /\ clock' = clock + 1
    /\ UNCHANGED <<pc, queueVars, currentVars, m_stop, cancelled, ids, m_realtimeOrigin,
                   m_running, m_condition, waitVars, removing, historyVars>>

-----------------------------------------------------------------------------
\* Mutant of Insert: nobody is signalled.
InsertSilently(ts) ==
    /\ m_events' = m_events \cup {Key(ts)}
    /\ m_uid' = m_uid + 1
    /\ m_unscheduledEvents' = m_unscheduledEvents + 1
    /\ UNCHANGED <<pc, currentVars, m_stop, cancelled, clock, m_realtimeOrigin, m_running,
                   m_condition, waitVars, removing, removed, runs>>

\* Insert and Signal, in one critical section of every Schedule function.
Insert(ts) ==
    /\ m_events' = m_events \cup {Key(ts)}
    /\ m_uid' = m_uid + 1
    /\ m_unscheduledEvents' = m_unscheduledEvents + 1
    /\ m_condition' = TRUE
    /\ UNCHANGED <<pc, currentVars, m_stop, cancelled, clock, m_realtimeOrigin, m_running,
                   waitVars, removing, removed, runs>>

\* Any thread.  The main thread's ScheduleWithContext does the same.
Schedule(d) ==
    /\ Alive /\ m_uid < MaxUid
    /\ Insert(m_currentTs + d)
    /\ ids' = ids \cup {Key(m_currentTs + d)}
    /\ UNCHANGED stray

\* Another thread's event is due the delay after now, by the wall clock if Run
\* keeps to it: ScheduleWithContext, ScheduleRealtimeNowWithContext.
ScheduleWithContext(d) ==
    LET ts == (IF m_running THEN Realtime ELSE m_currentTs) + d
    IN  /\ Alive /\ m_uid < MaxUid
        /\ IF ts >= m_currentTs
           THEN /\ Insert(ts)
                /\ stray' = IF pc = "origin" THEN stray \cup {m_uid} ELSE stray
                /\ UNCHANGED ids
           ELSE Abort

\* ScheduleRealtimeWithContext goes by the wall clock in any case.
ScheduleRealtime(d) ==
    /\ Alive /\ m_uid < MaxUid /\ m_running
    /\ IF Realtime + d >= m_currentTs
       THEN /\ Insert(Realtime + d)
            /\ stray' = IF pc = "origin" THEN stray \cup {m_uid} ELSE stray
            /\ UNCHANGED ids
       ELSE Abort

Stop ==
    /\ Alive
    /\ m_stop' = TRUE
    /\ UNCHANGED <<pc, queueVars, currentVars, cancelled, ids, clock, m_realtimeOrigin,
                   m_running, m_condition, waitVars, removing, historyVars>>

Cancel(id) ==
    /\ Alive /\ ~IsExpired(id)
    /\ cancelled' = cancelled \cup {id.uid}
    /\ UNCHANGED <<pc, queueVars, currentVars, m_stop, ids, clock, m_realtimeOrigin,
                   m_running, m_condition, waitVars, removing, historyVars>>

\* The critical section of Remove.
Erase(id) ==
    /\ m_events' = m_events \ {id}
    /\ m_unscheduledEvents' = m_unscheduledEvents - 1
    /\ cancelled' = cancelled \cup {id.uid}
    /\ UNCHANGED <<pc, m_uid, currentVars, m_stop, ids, clock, m_realtimeOrigin, m_running,
                   m_condition, waitVars, stray, runs>>

\* The main thread removes an event: it executes none in between.
Remove(id) ==
    /\ InCaller /\ ~IsExpired(id)
    /\ Erase(id)
    /\ UNCHANGED <<removing, removed>>

\* Another thread, one at a time, asks IsExpired before it has the lock.
BeginRemove(id) ==
    /\ Alive /\ ~IsExpired(id) /\ removing = {}
    /\ removing' = removing \cup {id}
    /\ UNCHANGED <<pc, queueVars, currentVars, m_stop, cancelled, ids, clock,
                   m_realtimeOrigin, m_running, m_condition, waitVars, historyVars>>

EndRemove(id) ==
    /\ Alive
    /\ IF id \in m_events
       THEN Erase(id) /\ removing' = removing \ {id} /\ removed' = TRUE
       ELSE Abort

-----------------------------------------------------------------------------
Run ==
    /\ pc = "idle" /\ runs < MaxRuns
    /\ m_stop' = FALSE
    /\ m_running' = TRUE
    /\ runs' = runs + 1
    /\ pc' = "origin"
    /\ UNCHANGED <<queueVars, currentVars, cancelled, ids, clock, m_realtimeOrigin,
                   m_condition, waitVars, removing, stray, removed>>

\* DoSetOrigin: the simulation time it is given is not used.
SetOrigin ==
    /\ pc = "origin"
    /\ m_realtimeOrigin' = clock
    /\ pc' = "loop"
    /\ UNCHANGED <<queueVars, currentVars, m_stop, cancelled, ids, clock, m_running,
                   m_condition, waitVars, removing, historyVars>>

\* Mutant of RunReturns: Run goes on until the scheduler is empty.
RunReturnsEmpty ==
    /\ pc = "loop" /\ m_stop /\ m_events = {}
    /\ m_running' = FALSE
    /\ pc' = "idle"
    /\ UNCHANGED <<queueVars, currentVars, m_stop, cancelled, ids, clock, m_realtimeOrigin,
                   m_condition, waitVars, removing, historyVars>>

RunReturns ==
    /\ pc = "loop" /\ m_stop
    /\ m_running' = FALSE
    /\ pc' = "idle"
    /\ UNCHANGED <<queueVars, currentVars, m_stop, cancelled, ids, clock, m_realtimeOrigin,
                   m_condition, waitVars, removing, historyVars>>

\* One turn of Run's loop: an event, or a sleep of a second.
Turn ==
    /\ pc = "loop" /\ ~m_stop
    /\ IF m_events # {}
       THEN pc' = "plan" /\ UNCHANGED waitVars
       ELSE pc' = "idleWait" /\ deadline' = Realtime + OneSecond /\ sleeping' = TRUE
    /\ UNCHANGED <<queueVars, currentVars, m_stop, cancelled, ids, clock, m_realtimeOrigin,
                   m_running, m_condition, removing, historyVars>>

\* The first critical section of ProcessOneEvent.
Plan ==
    /\ pc = "plan"
    /\ IF m_events = {}
       THEN Abort
       ELSE LET tsNext == Min({e.ts : e \in m_events})
            IN  /\ deadline' = Max({Realtime, tsNext})
                /\ sleeping' = (tsNext > Realtime + SleepMargin)
                /\ m_condition' = FALSE
                /\ pc' = "wait"
                /\ UNCHANGED <<queueVars, currentVars, m_stop, cancelled, ids, clock,
                               m_realtimeOrigin, m_running, removing, historyVars>>

\* Mutants of IsElapsed: a wake-up is taken for the end of the wait; the end of SleepWait is.
IsElapsedWoken == (~sleeping \/ m_condition) /\ (m_condition \/ Realtime >= deadline)
IsElapsedEarly == (~sleeping \/ m_condition) /\ Realtime + SleepMargin >= deadline

\* Synchronize returns true: SpinWait looks at the clock first.
IsElapsed == (~sleeping \/ m_condition) /\ Realtime >= deadline

\* Mutant of IsInterrupted: SleepWait waits for the condition only.
IsInterruptedSignalled == m_condition /\ Realtime < deadline

\* Synchronize returns false: SpinWait sees the condition, or SleepWait has
\* slept to its end, which it reports as if it had been interrupted.
IsInterrupted ==
    \/ m_condition /\ Realtime < deadline
    \/ sleeping /\ ~m_condition /\ Realtime + SleepMargin >= deadline

AfterWait(here) ==
    /\ pc' = here
    /\ UNCHANGED <<queueVars, currentVars, m_stop, cancelled, ids, clock, m_realtimeOrigin,
                   m_running, m_condition, waitVars, removing, historyVars>>

WaitEnds ==
    \/ pc = "wait" /\ IsElapsed /\ AfterWait("take")
    \/ pc = "wait" /\ IsInterrupted /\ AfterWait("plan")
    \/ pc = "idleWait" /\ (IsElapsed \/ IsInterrupted) /\ AfterWait("loop")

\* The second critical section of ProcessOneEvent; a cancelled event's handler
\* is not called.
Take ==
    /\ pc = "take"
    /\ \/ m_events = {} /\ Abort
       \/ \E next \in m_events :
             /\ IsFirst(next, m_events)
             /\ IF next.ts < m_currentTs
                THEN Abort
                ELSE /\ m_events' = m_events \ {next}
                     /\ m_unscheduledEvents' = m_unscheduledEvents - 1
                     /\ m_currentTs' = next.ts
                     /\ m_currentUid' = next.uid
                     /\ pc' = IF next.uid \in cancelled THEN "loop" ELSE "handler"
                     /\ UNCHANGED <<m_uid, m_stop, cancelled, ids, clock, m_realtimeOrigin,
                                    m_running, m_condition, waitVars, removing, historyVars>>

HandlerReturns == pc = "handler" /\ AfterWait("loop")

Main == SetOrigin \/ RunReturns \/ Turn \/ Plan \/ WaitEnds \/ Take \/ HandlerReturns

Calls ==
    \/ \E d \in Delays : Schedule(d) \/ ScheduleWithContext(d) \/ ScheduleRealtime(d)
    \/ Stop \/ Run
    \/ \E id \in ids : Cancel(id) \/ Remove(id) \/ BeginRemove(id)

Next == Main \/ Calls \/ Tick \/ \E id \in removing : EndRemove(id)

Spec == Init /\ [][Next]_vars

\* The clock goes on, and the operating system runs the main thread.
FairSpec == Spec /\ WF_vars(Main) /\ WF_vars(Tick)

-----------------------------------------------------------------------------
\* ProcessOneEvent: "What we can be sure of is that it is time to execute
\* whatever event is at the head of this list".
HeadIsDue == pc = "take" => m_events # {} /\ \A e \in m_events :
                                IsFirst(e, m_events) => e.ts <= Realtime

\* Whatever other threads schedule while the main thread sleeps, it finds an
\* event when it wakes, and that event is due, unless a thread has removed one.
DueUnlessRemoved == HeadIsDue \/ removed

\* No wake-up is lost: while the main thread waits and nothing has signalled it,
\* no event is due before the wait ends.
WakesInTime ==
    /\ pc = "wait" /\ ~m_condition /\ Realtime < deadline =>
          \A e \in m_events : e.ts >= deadline
    /\ pc = "idleWait" /\ ~m_condition => m_events = {}

\* No assertion fails in the first Run, unless another thread removes an event.
\* In a second Run the wall clock starts at 0 again and m_currentTs does not.
AbortsOnlyAfterRemoval == ~Alive => removed \/ removing # {} \/ runs > 1

\* While Run keeps on, each event is executed, removed or dropped by a failure;
\* not one scheduled before the origin of the wall clock was set.
EventuallyRuns ==
    \A uid \in FirstUid .. MaxUid :
        (uid \in {e.uid : e \in m_events} \ stray) ~>
            (uid \notin {e.uid : e \in m_events} \/ pc \in {"idle", "aborted"})

\* Once stopped, Run returns; Stop wakes nobody, so this takes until the next
\* event, for which an event scheduled before the origin was set makes it wait.
StopEndsRun ==
    (m_stop /\ pc # "idle") ~> (pc \in {"idle", "aborted"} \/ stray # {})

=============================================================================
