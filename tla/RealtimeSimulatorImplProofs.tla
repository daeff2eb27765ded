-------------------- MODULE RealtimeSimulatorImplProofs --------------------
(* Theorems about the real time simulator, for every set of delays, every    *)
(* precision of its sleep and any number of events and threads' calls: no    *)
(* wake-up is lost, the main thread finds the event it waited for, and no    *)
(* assertion of it fails, unless an event is removed from under it.          *)
EXTENDS RealtimeSimulatorImpl, WellFoundedInduction, TLAPS

TypeInv ==
    /\ m_events \subseteq Event
    /\ m_currentTs \in Nat /\ m_uid \in Nat /\ runs \in Nat /\ deadline \in Nat
    /\ clock \in Nat /\ m_realtimeOrigin \in Nat /\ m_realtimeOrigin <= clock

\* No event lies in the past.
NotBefore == \A e \in m_events : m_currentTs <= e.ts

\* The event the main thread plans for, waits for or takes is there.
AwaitsEvent ==
    /\ pc = "plan" => m_events # {}
    /\ pc = "wait" => \E e \in m_events : e.ts <= deadline
    /\ pc = "take" => \E e \in m_events : e.ts <= Realtime

\* Simulated time does not overtake the wall clock in the first Run.
Paced ==
    /\ runs = 0 => pc \in {"idle", "aborted"} /\ m_currentTs = 0
    /\ pc = "origin" => m_currentTs = 0
    /\ m_running => m_currentTs <= Realtime

IInv ==
    /\ TypeInv /\ NotBefore /\ WakesInTime
    /\ removed \/ AwaitsEvent
    /\ removed \/ runs > 1 \/ Paced
    /\ AbortsOnlyAfterRemoval

-----------------------------------------------------------------------------
LEMMA MinIsLeast ==
    ASSUME NEW S \in SUBSET Nat, S # {}
    PROVE  Min(S) \in S /\ \A y \in S : Min(S) <= y
  <1>1. PICK R : IsWellFoundedOn(R, Nat) /\ \A x, y \in Nat : y < x => <<y, x>> \in R
    BY NatLessThanWellFounded DEF OpToRel
  <1>2. PICK x \in S : \A y \in S : ~ (<<y, x>> \in R)
    BY <1>1, WFMin
  <1>3. ASSUME NEW y \in S PROVE x <= y
    <2>1. ~ (<<y, x>> \in R)
      BY <1>2
    <2>2. x \in Nat /\ y \in Nat /\ ~ (y < x)
      BY <1>1, <2>1
    <2> QED
      BY <2>2
  <1> QED
    BY <1>3 DEF Min

LEMMA MaxOfTwo ==
    ASSUME NEW a \in Nat, NEW b \in Nat
    PROVE  Max({a, b}) = IF a >= b THEN a ELSE b
  <1>1. \A x \in {a, b} : (\A y \in {a, b} : x >= y) => x = IF a >= b THEN a ELSE b
    OBVIOUS
  <1>2. \E x \in {a, b} : \A y \in {a, b} : x >= y
    OBVIOUS
  <1> QED
    BY <1>1, <1>2 DEF Max

LEMMA RealtimeType == TypeInv => Realtime \in Nat
  BY DEF TypeInv, Realtime

LEMMA InitInv == Init => IInv
  BY RealtimeAssumption
     DEF RealtimeAssumption, Init, IInv, TypeInv, NotBefore, WakesInTime, AwaitsEvent, Paced,
         AbortsOnlyAfterRemoval, Alive, FirstUid, Realtime

-----------------------------------------------------------------------------
\* A step that leaves alone all the invariant is about.
LEMMA QuietStep ==
    ASSUME IInv, Alive,
           UNCHANGED <<pc, m_events, m_uid, currentVars, clock, m_realtimeOrigin, m_running,
                       m_condition, waitVars, removed, runs>>
    PROVE  IInv'
  BY DEF IInv, TypeInv, NotBefore, WakesInTime, AwaitsEvent, Paced, AbortsOnlyAfterRemoval,
         Alive, Realtime, currentVars, waitVars

LEMMA AbortStep ==
    ASSUME IInv, Abort, removed \/ removing # {} \/ runs > 1
    PROVE  IInv'
  BY DEF Abort, IInv, TypeInv, NotBefore, WakesInTime, AwaitsEvent, Paced, AbortsOnlyAfterRemoval,
         Alive, Realtime, queueVars, currentVars, waitVars, historyVars

\* Only the place of the main thread changes.
LEMMA MoveStep ==
    ASSUME IInv, NEW here, here \notin {"aborted", "plan", "wait", "take", "idleWait", "origin"},
           pc' = here, here = "idle" \/ runs # 0 \/ removed,
           UNCHANGED <<m_events, m_uid, m_currentTs, clock, m_realtimeOrigin, m_condition,
                       deadline, removed, runs>>,
           m_running' => m_running
    PROVE  IInv'
  BY DEF IInv, TypeInv, NotBefore, WakesInTime, AwaitsEvent, Paced, AbortsOnlyAfterRemoval,
         Alive, Realtime

LEMMA InsertStep ==
    ASSUME IInv, Alive, NEW ts \in Nat, ts >= m_currentTs, Insert(ts)
    PROVE  IInv'
  <1>1. /\ m_events' = m_events \cup {Key(ts)} /\ m_uid' = m_uid + 1 /\ m_condition' = TRUE
        /\ UNCHANGED <<pc, m_currentTs, clock, m_realtimeOrigin, m_running, deadline, removing,
                       removed, runs>>
    BY DEF Insert, currentVars, waitVars
  <1>2. Key(ts) \in Event /\ Key(ts).ts = ts
    BY DEF Key, Event, IInv, TypeInv
  <1>3. TypeInv' /\ NotBefore'
    BY <1>1, <1>2 DEF IInv, TypeInv, NotBefore
  <1>4. WakesInTime' /\ AbortsOnlyAfterRemoval'
    BY <1>1 DEF WakesInTime, AbortsOnlyAfterRemoval, Alive
  <1>5. (removed \/ AwaitsEvent)'
    BY <1>1 DEF IInv, AwaitsEvent, Realtime
  <1>6. (removed \/ runs > 1 \/ Paced)'
    BY <1>1 DEF IInv, Paced, Realtime
  <1> QED
    BY <1>3, <1>4, <1>5, <1>6 DEF IInv

\* The main thread removes an event outside of its wait, another thread at any
\* time.
LEMMA EraseStep ==
    ASSUME IInv, Alive, NEW id, Erase(id), InCaller \/ removed', removed => removed'
    PROVE  IInv'
  <1>1. /\ m_events' \subseteq m_events
        /\ UNCHANGED <<pc, m_currentTs, m_uid, clock, m_realtimeOrigin, m_running, m_condition,
                       deadline, runs>>
    BY DEF Erase, currentVars, waitVars
  <1>2. TypeInv' /\ NotBefore'
    BY <1>1 DEF IInv, TypeInv, NotBefore
  <1>3. WakesInTime'
    BY <1>1 DEF IInv, WakesInTime, Realtime
  <1>4. AbortsOnlyAfterRemoval'
    BY <1>1 DEF AbortsOnlyAfterRemoval, Alive
  <1>5. (removed \/ AwaitsEvent)'
    BY <1>1 DEF AwaitsEvent, InCaller
  <1>6. (removed \/ runs > 1 \/ Paced)'
    BY <1>1 DEF IInv, Paced, Realtime
  <1> QED
    BY <1>2, <1>3, <1>4, <1>5, <1>6 DEF IInv

LEMMA TickStep ==
    ASSUME IInv, Tick
    PROVE  IInv'
  <1>1. /\ clock' = clock + 1
        /\ UNCHANGED <<pc, m_events, m_currentTs, m_uid, m_realtimeOrigin, m_running,
                       m_condition, deadline, removing, removed, runs>>
    BY DEF Tick, queueVars, currentVars, waitVars, historyVars
  <1>2. Realtime \in Nat /\ Realtime' = Realtime + 1
    BY <1>1 DEF IInv, TypeInv, Realtime
  <1>3. TypeInv' /\ NotBefore'
    BY <1>1 DEF IInv, TypeInv, NotBefore
  <1>4. WakesInTime'
    BY <1>1, <1>2 DEF IInv, TypeInv, WakesInTime
  <1>5. AbortsOnlyAfterRemoval'
    BY <1>1 DEF IInv, AbortsOnlyAfterRemoval, Alive
  <1>6. (removed \/ AwaitsEvent)'
    BY <1>1, <1>2 DEF IInv, TypeInv, Event, AwaitsEvent
  <1>7. (removed \/ runs > 1 \/ Paced)'
    BY <1>1, <1>2 DEF IInv, TypeInv, Paced
  <1> QED
    BY <1>3, <1>4, <1>5, <1>6, <1>7 DEF IInv

-----------------------------------------------------------------------------
LEMMA ScheduleStep ==
    ASSUME IInv, NEW d \in Delays, Schedule(d) \/ ScheduleWithContext(d) \/ ScheduleRealtime(d)
    PROVE  IInv'
  <1>1. d \in Nat /\ m_currentTs \in Nat /\ Realtime \in Nat
    BY RealtimeAssumption, RealtimeType DEF RealtimeAssumption, IInv, TypeInv
  <1>2. CASE Schedule(d)
    <2>1. m_currentTs + d \in Nat /\ m_currentTs + d >= m_currentTs
      BY <1>1
    <2> QED
      BY <1>2, <2>1, InsertStep DEF Schedule
  <1>3. CASE ScheduleWithContext(d)
    <2> DEFINE ts == (IF m_running THEN Realtime ELSE m_currentTs) + d
    <2>1. ts \in Nat
      BY <1>1
    <2>2. CASE ts >= m_currentTs
      <3>1. Alive /\ Insert(ts)
        BY <1>3, <2>2 DEF ScheduleWithContext
      <3> HIDE DEF ts
      <3> QED
        BY <2>1, <2>2, <3>1, InsertStep
    <2>3. CASE ~(ts >= m_currentTs)
      <3>1. Abort
        BY <1>3, <2>3 DEF ScheduleWithContext
      <3>2. m_running /\ ~(m_currentTs <= Realtime)
        BY <1>1, <2>3
      <3>3. removed \/ runs > 1
        BY <3>2 DEF IInv, Paced
      <3> QED
        BY <3>1, <3>3, AbortStep
    <2> QED
      BY <2>2, <2>3
  <1>4. CASE ScheduleRealtime(d)
    <2> DEFINE ts == Realtime + d
    <2>1. ts \in Nat
      BY <1>1
    <2>2. CASE ts >= m_currentTs
      <3>1. Alive /\ Insert(ts)
        BY <1>4, <2>2 DEF ScheduleRealtime
      <3> HIDE DEF ts
      <3> QED
        BY <2>1, <2>2, <3>1, InsertStep
    <2>3. CASE ~(ts >= m_currentTs)
      <3>1. Abort /\ m_running
        BY <1>4, <2>3 DEF ScheduleRealtime
      <3>2. ~(m_currentTs <= Realtime)
        BY <1>1, <2>3
      <3>3. removed \/ runs > 1
        BY <3>1, <3>2 DEF IInv, Paced
      <3> QED
        BY <3>1, <3>3, AbortStep
    <2> QED
      BY <2>2, <2>3
  <1> QED
    BY <1>2, <1>3, <1>4

LEMMA CallStep ==
    ASSUME IInv, Calls
    PROVE  IInv'
  <1>1. ASSUME NEW d \in Delays, Schedule(d) \/ ScheduleWithContext(d) \/ ScheduleRealtime(d)
        PROVE  IInv'
    BY <1>1, ScheduleStep
  <1>2. CASE Stop
    BY <1>2, QuietStep DEF Stop, queueVars, historyVars
  <1>3. CASE Run
    <2>1. /\ pc = "idle" /\ pc' = "origin" /\ m_running' = TRUE /\ runs' = runs + 1
          /\ UNCHANGED <<m_events, m_uid, m_currentTs, clock, m_realtimeOrigin, m_condition,
                         deadline, removing, removed>>
      BY <1>3 DEF Run, queueVars, currentVars, waitVars
    <2>2. TypeInv' /\ NotBefore' /\ WakesInTime' /\ AbortsOnlyAfterRemoval' /\ (removed \/ AwaitsEvent)'
      BY <2>1 DEF IInv, TypeInv, NotBefore, WakesInTime, AbortsOnlyAfterRemoval, AwaitsEvent, Alive
    <2>3. (removed \/ runs > 1 \/ Paced)'
      <3>1. Realtime' = Realtime /\ Realtime \in Nat /\ runs \in Nat
        BY <2>1, RealtimeType DEF IInv, TypeInv, Realtime
      <3> QED
        BY <2>1, <3>1 DEF IInv, Paced
    <2> QED
      BY <2>2, <2>3 DEF IInv
  <1>4. ASSUME NEW id \in ids, Cancel(id) \/ BeginRemove(id)
        PROVE  IInv'
    BY <1>4, QuietStep DEF Cancel, BeginRemove, queueVars, historyVars
  <1>5. ASSUME NEW id \in ids, Remove(id)
        PROVE  IInv'
    BY <1>5, EraseStep DEF Remove, InCaller, Alive
  <1> QED
    BY <1>1, <1>2, <1>3, <1>4, <1>5 DEF Calls

LEMMA EndRemoveStep ==
    ASSUME IInv, NEW id \in removing, EndRemove(id)
    PROVE  IInv'
  <1>1. CASE id \in m_events
    BY <1>1, EraseStep DEF EndRemove
  <1>2. CASE id \notin m_events
    BY <1>2, AbortStep DEF EndRemove
  <1> QED
    BY <1>1, <1>2

-----------------------------------------------------------------------------
LEMMA SetOriginStep ==
    ASSUME IInv, SetOrigin
    PROVE  IInv'
  <1>1. /\ pc = "origin" /\ pc' = "loop" /\ m_realtimeOrigin' = clock
        /\ UNCHANGED <<m_events, m_uid, m_currentTs, clock, m_running, m_condition, deadline,
                       removing, removed, runs>>
    BY DEF SetOrigin, queueVars, currentVars, waitVars, historyVars
  <1>2. Realtime' = 0
    BY <1>1 DEF IInv, TypeInv, Realtime
  <1>3. TypeInv' /\ NotBefore' /\ WakesInTime' /\ AbortsOnlyAfterRemoval' /\ (removed \/ AwaitsEvent)'
    BY <1>1 DEF IInv, TypeInv, NotBefore, WakesInTime, AbortsOnlyAfterRemoval, AwaitsEvent, Alive
  <1>4. (removed \/ runs > 1 \/ Paced)'
    BY <1>1, <1>2 DEF IInv, Paced
  <1> QED
    BY <1>3, <1>4 DEF IInv

LEMMA TurnStep ==
    ASSUME IInv, Turn
    PROVE  IInv'
  <1>1. /\ pc = "loop"
        /\ UNCHANGED <<m_events, m_uid, m_currentTs, clock, m_realtimeOrigin, m_running,
                       m_condition, removing, removed, runs>>
    BY DEF Turn, queueVars, currentVars, historyVars
  <1>2. \/ m_events # {} /\ pc' = "plan" /\ deadline' = deadline
        \/ m_events = {} /\ pc' = "idleWait" /\ deadline' = Realtime + OneSecond
    BY DEF Turn, waitVars
  <1>3. TypeInv' /\ NotBefore'
    <2>1. deadline' \in Nat
      BY <1>2, RealtimeAssumption, RealtimeType DEF RealtimeAssumption, IInv, TypeInv
    <2> QED
      BY <1>1, <2>1 DEF IInv, TypeInv, NotBefore
  <1>4. WakesInTime' /\ AwaitsEvent' /\ AbortsOnlyAfterRemoval'
    BY <1>1, <1>2 DEF WakesInTime, AwaitsEvent, AbortsOnlyAfterRemoval, Alive
  <1>5. (removed \/ runs > 1 \/ Paced)'
    BY <1>1, <1>2 DEF IInv, Paced, Realtime
  <1> QED
    BY <1>3, <1>4, <1>5 DEF IInv

\* What is planned for is the earliest event.
LEMMA PlanStep ==
    ASSUME IInv, Plan
    PROVE  IInv'
  <1>1. CASE m_events = {}
    BY <1>1, AbortStep DEF Plan, IInv, AwaitsEvent
  <1>2. CASE m_events # {}
    <2> DEFINE stamps == {e.ts : e \in m_events}
               tsNext == Min(stamps)
    <2>1. \A e \in m_events : e.ts \in Nat
      BY DEF IInv, TypeInv, Event
    <2>2. stamps \in SUBSET Nat /\ stamps # {}
      BY <1>2, <2>1
    <2>3. tsNext \in stamps /\ \A t \in stamps : tsNext <= t
      <3> HIDE DEF stamps
      <3> QED
        BY <2>2, MinIsLeast
    <2>4. /\ pc = "plan" /\ pc' = "wait" /\ deadline' = Max({Realtime, tsNext})
          /\ UNCHANGED <<m_events, m_uid, m_currentTs, clock, m_realtimeOrigin, m_running,
                         removing, removed, runs>>
      BY <1>2 DEF Plan, queueVars, currentVars, historyVars
    <2>5. /\ tsNext \in Nat /\ \A e \in m_events : tsNext <= e.ts
          /\ \E e \in m_events : e.ts = tsNext
      BY <2>1, <2>3
    <2> HIDE DEF stamps, tsNext
    <2>6. Realtime \in Nat /\ Realtime' = Realtime
      BY <2>4, RealtimeType DEF IInv, Realtime
    <2>7. deadline' = IF Realtime >= tsNext THEN Realtime ELSE tsNext
      BY <2>4, <2>5, <2>6, MaxOfTwo
    <2>8. TypeInv' /\ NotBefore'
      BY <2>4, <2>5, <2>6, <2>7 DEF IInv, TypeInv, NotBefore
    <2>9. WakesInTime'
      BY <2>1, <2>4, <2>5, <2>6, <2>7 DEF WakesInTime
    <2>10. AwaitsEvent'
      BY <2>4, <2>5, <2>6, <2>7 DEF AwaitsEvent
    <2>11. AbortsOnlyAfterRemoval' /\ (removed \/ runs > 1 \/ Paced)'
      BY <2>4, <2>6 DEF IInv, AbortsOnlyAfterRemoval, Alive, Paced
    <2> QED
      BY <2>8, <2>9, <2>10, <2>11 DEF IInv
  <1> QED
    BY <1>1, <1>2

LEMMA WaitEndsStep ==
    ASSUME IInv, WaitEnds
    PROVE  IInv'
  <1>1. PICK here : AfterWait(here)
    BY DEF WaitEnds
  <1>2. /\ pc' = here
        /\ UNCHANGED <<m_events, m_uid, m_currentTs, clock, m_realtimeOrigin, m_running,
                       m_condition, deadline, removing, removed, runs>>
    BY <1>1 DEF AfterWait, queueVars, currentVars, waitVars, historyVars
  <1>3. \/ pc = "wait" /\ Realtime >= deadline /\ pc' = "take"
        \/ pc = "wait" /\ pc' = "plan"
        \/ pc = "idleWait" /\ pc' = "loop"
    BY DEF WaitEnds, AfterWait, IsElapsed
  <1>4. TypeInv' /\ NotBefore' /\ WakesInTime' /\ AbortsOnlyAfterRemoval'
    BY <1>2, <1>3 DEF IInv, TypeInv, NotBefore, WakesInTime, AbortsOnlyAfterRemoval, Alive
  <1>5. (removed \/ AwaitsEvent)'
    <2>1. Realtime' = Realtime /\ Realtime \in Nat /\ deadline \in Nat
      BY <1>2, RealtimeType DEF IInv, TypeInv, Realtime
    <2>2. \A e \in m_events : e.ts \in Nat
      BY DEF IInv, TypeInv, Event
    <2> QED
      BY <1>2, <1>3, <2>1, <2>2 DEF IInv, AwaitsEvent
  <1>6. (removed \/ runs > 1 \/ Paced)'
    BY <1>2, <1>3 DEF IInv, Paced, Realtime
  <1> QED
    BY <1>4, <1>5, <1>6 DEF IInv

\* The first event is as early as the one that is due.
LEMMA FirstIsDue ==
    ASSUME TypeInv, NEW first \in m_events, IsFirst(first, m_events),
           NEW e \in m_events, e.ts <= Realtime
    PROVE  first.ts <= Realtime
  <1>1. first.ts \in Nat /\ e.ts \in Nat /\ Realtime \in Nat
    BY RealtimeType DEF TypeInv, Event
  <1>2. first = e \/ first.ts < e.ts \/ first.ts = e.ts
    BY DEF IsFirst, Precedes
  <1> QED
    BY <1>1, <1>2

LEMMA TakeStep ==
    ASSUME IInv, Take
    PROVE  IInv'
  <1>1. CASE m_events = {} /\ Abort
    BY <1>1, AbortStep DEF Take, IInv, AwaitsEvent
  <1>2. ASSUME NEW next \in m_events, IsFirst(next, m_events), ~(next.ts < m_currentTs),
               m_events' = m_events \ {next}, m_currentTs' = next.ts, pc' \in {"loop", "handler"},
               UNCHANGED <<m_uid, clock, m_realtimeOrigin, m_running, m_condition, deadline,
                           removing, removed, runs>>
        PROVE  IInv'
    <2>1. \A e \in m_events : e \in Event /\ e.ts \in Nat /\ next.ts <= e.ts
      <3>1. \A e \in m_events : e \in Event /\ e.ts \in Nat
        BY DEF IInv, TypeInv, Event
      <3>2. ASSUME NEW e \in m_events PROVE next.ts <= e.ts
        BY <1>2, <3>1, <3>2 DEF IsFirst, Precedes
      <3> QED
        BY <3>1, <3>2
    <2>2. TypeInv' /\ NotBefore'
      BY <1>2, <2>1 DEF IInv, TypeInv, NotBefore
    <2>3. WakesInTime' /\ AwaitsEvent' /\ AbortsOnlyAfterRemoval'
      BY <1>2 DEF WakesInTime, AwaitsEvent, AbortsOnlyAfterRemoval, Alive
    <2>4. (removed \/ runs > 1 \/ Paced)'
      <3>1. CASE removed \/ runs > 1
        BY <1>2, <3>1
      <3>2. CASE ~removed /\ ~(runs > 1)
        <4>1. PICK e \in m_events : e.ts <= Realtime
          BY <3>2 DEF Take, IInv, AwaitsEvent
        <4>2. next.ts <= Realtime
          BY <1>2, <4>1, FirstIsDue DEF IInv
        <4>3. runs # 0
          BY <3>2 DEF Take, IInv, Paced
        <4> QED
          BY <1>2, <4>2, <4>3 DEF Paced, Realtime
      <3> QED
        BY <3>1, <3>2
    <2> QED
      BY <2>2, <2>3, <2>4 DEF IInv
  <1>3. ASSUME NEW next \in m_events PROVE ~(next.ts < m_currentTs)
    BY DEF IInv, TypeInv, NotBefore, Event
  <1> QED
    BY <1>1, <1>2, <1>3 DEF Take, waitVars, historyVars

-----------------------------------------------------------------------------
LEMMA MainStep ==
    ASSUME IInv, Main
    PROVE  IInv'
  <1>1. CASE RunReturns
    BY <1>1, MoveStep DEF RunReturns, queueVars, currentVars, waitVars, historyVars
  <1>2. CASE HandlerReturns
    <2>1. runs # 0 \/ removed
      BY <1>2 DEF HandlerReturns, IInv, Paced
    <2> QED
      BY <1>2, <2>1, MoveStep DEF HandlerReturns, AfterWait, queueVars, currentVars, waitVars, historyVars
  <1> QED
    BY <1>1, <1>2, SetOriginStep, TurnStep, PlanStep, WaitEndsStep, TakeStep DEF Main

LEMMA NextInv == IInv /\ [Next]_vars => IInv'
  <1> SUFFICES ASSUME IInv, [Next]_vars PROVE IInv'
    OBVIOUS
  <1>1. CASE UNCHANGED vars
    BY <1>1 DEF vars, queueVars, currentVars, waitVars, historyVars, IInv, TypeInv, NotBefore,
                WakesInTime, AwaitsEvent, Paced, AbortsOnlyAfterRemoval, Alive, Realtime
  <1>2. CASE Next
    BY <1>2, MainStep, CallStep, TickStep, EndRemoveStep DEF Next
  <1> QED
    BY <1>1, <1>2

LEMMA Inductive == Spec => []IInv
  BY InitInv, NextInv, PTL DEF Spec

\* No wake-up is lost: the condition variable wakes the main thread before any
\* event that was scheduled while it waits is due.
THEOREM NoLostWakeUp == Spec => []WakesInTime
  <1>1. IInv => WakesInTime
    BY DEF IInv
  <1> QED
    BY <1>1, Inductive, PTL

\* ProcessOneEvent finds an event after its wait, and the first one is due,
\* whatever was scheduled meanwhile, unless a thread has removed an event.
THEOREM HeadIsDueAfterWait == Spec => []DueUnlessRemoved
  <1>1. IInv => DueUnlessRemoved
    <2> SUFFICES ASSUME IInv, ~removed, pc = "take"
                 PROVE  m_events # {} /\ \A e \in m_events : IsFirst(e, m_events) => e.ts <= Realtime
      BY DEF DueUnlessRemoved, HeadIsDue
    <2>1. PICK e \in m_events : e.ts <= Realtime
      BY DEF IInv, AwaitsEvent
    <2> QED
      BY <2>1, FirstIsDue DEF IInv
  <1> QED
    BY <1>1, Inductive, PTL

\* The assertions of ProcessOneEvent, of the Schedule functions and of
\* MapScheduler hold in the first Run while no other thread removes an event.
THEOREM AssertionsHold == Spec => []AbortsOnlyAfterRemoval
  <1>1. IInv => AbortsOnlyAfterRemoval
    BY DEF IInv
  <1> QED
    BY <1>1, Inductive, PTL

=============================================================================
