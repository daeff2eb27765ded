--------------------------- MODULE EventLoopProofs ---------------------------
(* Theorems about the event loop, for every set of delays and any number of  *)
(* events.  The default simulator: simulated time does not go back, an       *)
(* EventId is expired exactly when its event is gone or cancelled, and       *)
(* events handed over keep their order.  The schedulers: the binary heap and *)
(* the calendar queue give out the earliest event they hold and lose none.   *)
EXTENDS EventLoop, SequenceTheorems, FiniteSetTheorems, WellFoundedInduction, TLAPS

\* The uids given away so far.
Used == {u \in Nat : u < m_uid}

TypeInv ==
    /\ m_events \subseteq Event /\ ids \subseteq Event
    /\ m_currentTs \in Nat /\ m_currentUid \in Nat /\ m_uid \in Nat
    /\ cancelled \subseteq Used /\ m_destroyEvents \in Seq(Used)
    /\ handed \in Seq(Nat) /\ placed \in Seq(Event) /\ m_eventsWithContext \in Seq(Nat)

\* A new event has a uid of its own, greater than that of the event executed
\* last and of every event an EventId stands for.
UidsUsed ==
    /\ m_currentUid < m_uid
    /\ \A e \in m_events \cup ids : e.uid < m_uid

\* The list holds what was handed over and has no key yet, in that order.
ListInv ==
    /\ Len(handed) = Len(placed) + Len(m_eventsWithContext)
    /\ \A i \in 1 .. Len(m_eventsWithContext) : m_eventsWithContext[i] = Len(placed) + i

\* The times at which two events were taken from the list, their time stamps
\* less their delays, are in the order of the hand-over, as their uids are.
PlacedInv ==
    /\ \A x \in 1 .. Len(placed) :
          placed[x].uid < m_uid /\ placed[x].ts <= m_currentTs + handed[x]
    /\ \A y \in 1 .. Len(placed) : \A x \in 1 .. y - 1 :
          /\ placed[x].uid < placed[y].uid
          /\ placed[x].ts + handed[y] <= placed[y].ts + handed[x]

IInv == TypeInv /\ UidsUsed /\ PendingIsLater /\ ExpiredIsGone /\ ListInv /\ PlacedInv

-----------------------------------------------------------------------------
LEMMA DelayType == Delays \subseteq Nat
  BY SimulatorAssumption DEF SimulatorAssumption

LEMMA WithoutOne ==
    ASSUME NEW S, NEW s \in Seq(S), NEW i \in DOMAIN s
    PROVE  SubSeq(s, 1, i - 1) \o SubSeq(s, i + 1, Len(s)) \in Seq(S)
  <1>1. i \in 1 .. Len(s)
    BY LenProperties
  <1>2. SubSeq(s, 1, i - 1) \in Seq(S) /\ SubSeq(s, i + 1, Len(s)) \in Seq(S)
    <2>1. \A k \in 1 .. i - 1 : s[k] \in S
      BY <1>1, ElementOfSeq
    <2>2. \A k \in i + 1 .. Len(s) : s[k] \in S
      BY <1>1, ElementOfSeq
    <2> QED
      BY <1>1, <2>1, <2>2, SubSeqProperties
  <1> QED
    BY <1>2, ConcatProperties

LEMMA ConcatSecond ==
    ASSUME NEW S, NEW s \in Seq(S), NEW t \in Seq(S)
    PROVE  \A i \in 1 .. Len(t) : (s \o t)[Len(s) + i] = t[i]
  <1> SUFFICES ASSUME NEW i \in 1 .. Len(t) PROVE (s \o t)[Len(s) + i] = t[i]
    OBVIOUS
  <1>1. Len(s) \in Nat /\ Len(t) \in Nat
    BY LenProperties
  <1> DEFINE k == Len(s) + i
  <1>2. k \in 1 .. Len(s) + Len(t) /\ ~(k <= Len(s)) /\ k - Len(s) = i
    BY <1>1
  <1> HIDE DEF k
  <1>3. (s \o t)[k] = t[k - Len(s)]
    BY <1>2, ConcatProperties
  <1> QED
    BY <1>2, <1>3 DEF k

LEMMA InitInv == Init => IInv
  <1> SUFFICES ASSUME Init PROVE IInv
    OBVIOUS
  <1>1. <<>> \in Seq(Used) /\ <<>> \in Seq(Nat) /\ <<>> \in Seq(Event) /\ Len(<<>>) = 0
    BY EmptySeq
  <1>2. TypeInv
    BY <1>1 DEF Init, TypeInv, FirstUid, InvalidUid
  <1>3. UidsUsed /\ PendingIsLater /\ ExpiredIsGone
    BY DEF Init, UidsUsed, PendingIsLater, ExpiredIsGone, FirstUid, InvalidUid
  <1>4. ListInv /\ PlacedInv
    BY <1>1 DEF Init, ListInv, PlacedInv
  <1> QED
    BY <1>2, <1>3, <1>4 DEF IInv

-----------------------------------------------------------------------------
\* A step that leaves the scheduler's events, the clock and what the callers
\* know alone.
LEMMA QuietStep ==
    ASSUME IInv,
           UNCHANGED <<m_events, m_currentTs, m_currentUid, m_uid, cancelled, ids, placed>>,
           handed' \in Seq(Nat), m_destroyEvents' \in Seq(Used), m_eventsWithContext' \in Seq(Nat),
           ListInv', \A x \in 1 .. Len(placed) : handed'[x] = handed[x]
    PROVE  IInv'
  <1>1. TypeInv'
    BY DEF IInv, TypeInv, Used
  <1>2. UidsUsed' /\ PendingIsLater'
    BY DEF IInv, UidsUsed, PendingIsLater
  <1>3. ExpiredIsGone'
    BY DEF IInv, ExpiredIsGone, IsExpired
  <1>4. PlacedInv'
    <2>1. Len(placed) \in Nat
      BY LenProperties DEF IInv, TypeInv
    <2>2. \A x \in 1 .. Len(placed) :
              placed'[x].uid < m_uid' /\ placed'[x].ts <= m_currentTs' + handed'[x]
      BY DEF IInv, PlacedInv
    <2>3. ASSUME NEW y \in 1 .. Len(placed), NEW x \in 1 .. y - 1
          PROVE  /\ placed'[x].uid < placed'[y].uid
                 /\ placed'[x].ts + handed'[y] <= placed'[y].ts + handed'[x]
      <3>1. x \in 1 .. Len(placed)
        BY <2>1
      <3>2. handed'[x] = handed[x] /\ handed'[y] = handed[y] /\ placed' = placed
        BY <3>1
      <3> QED
        BY <3>2 DEF IInv, PlacedInv
    <2> QED
      BY <2>2, <2>3 DEF PlacedInv
  <1> QED
    BY <1>1, <1>2, <1>3, <1>4 DEF IInv

LEMMA HandOverStep ==
    ASSUME IInv, NEW d \in Delays, HandOver(d)
    PROVE  IInv'
  <1> USE DEF IInv, TypeInv
  <1>1. d \in Nat
    BY DelayType
  <1>2. handed' \in Seq(Nat) /\ Len(handed') = Len(handed) + 1
    BY <1>1, AppendProperties DEF HandOver
  <1>3. /\ m_eventsWithContext' \in Seq(Nat)
        /\ Len(m_eventsWithContext') = Len(m_eventsWithContext) + 1
        /\ \A i \in 1 .. Len(m_eventsWithContext) : m_eventsWithContext'[i] = m_eventsWithContext[i]
        /\ m_eventsWithContext'[Len(m_eventsWithContext) + 1] = Len(handed')
    <2>1. Len(handed') \in Nat
      BY <1>2, LenProperties
    <2>2. m_eventsWithContext' = Append(m_eventsWithContext, Len(handed'))
      BY DEF HandOver
    <2> QED
      BY <2>1, <2>2, AppendProperties
  <1>4. Len(placed) \in Nat /\ Len(m_eventsWithContext) \in Nat /\ Len(handed) \in Nat
    BY LenProperties
  <1>5. placed' = placed
    BY DEF HandOver
  <1>6. ListInv'
    <2>1. Len(handed') = Len(placed') + Len(m_eventsWithContext')
      BY <1>2, <1>3, <1>4, <1>5 DEF ListInv
    <2>2. ASSUME NEW i \in 1 .. Len(m_eventsWithContext')
          PROVE  m_eventsWithContext'[i] = Len(placed') + i
      <3>1. CASE i \in 1 .. Len(m_eventsWithContext)
        BY <3>1, <1>3, <1>5 DEF ListInv
      <3>2. CASE i = Len(m_eventsWithContext) + 1
        BY <3>2, <1>2, <1>3, <1>4, <1>5 DEF ListInv
      <3> QED
        BY <3>1, <3>2, <1>3, <1>4
    <2> QED
      BY <2>1, <2>2 DEF ListInv
  <1>7. \A x \in 1 .. Len(placed) : handed'[x] = handed[x]
    <2>1. \A x \in 1 .. Len(handed) : handed'[x] = handed[x]
      BY <1>1, AppendProperties DEF HandOver
    <2> QED
      BY <2>1, <1>4 DEF ListInv
  <1>8. m_destroyEvents' \in Seq(Used)
    BY DEF HandOver, callerVars
  <1> HIDE DEF IInv, TypeInv
  <1> QED
    BY <1>2, <1>3, <1>6, <1>7, <1>8, QuietStep DEF HandOver, loopVars, callerVars

-----------------------------------------------------------------------------
\* A step that leaves the list and its past alone: time and uids only grow.
LEMMA HandKept ==
    ASSUME IInv, UNCHANGED <<handed, placed, m_eventsWithContext>>,
           m_uid' \in Nat, m_uid' >= m_uid, m_currentTs' \in Nat, m_currentTs' >= m_currentTs
    PROVE  ListInv' /\ PlacedInv'
  <1>1. ListInv'
    BY DEF IInv, ListInv
  <1>2. /\ Len(placed) \in Nat /\ Len(handed) \in Nat
        /\ \A x \in 1 .. Len(placed) : placed[x] \in Event
        /\ \A x \in 1 .. Len(handed) : handed[x] \in Nat
    BY LenProperties, ElementOfSeq DEF IInv, TypeInv
  <1>3. Len(placed) <= Len(handed)
    <2>1. Len(m_eventsWithContext) \in Nat
      BY LenProperties DEF IInv, TypeInv
    <2> QED
      BY <1>2, <2>1 DEF IInv, ListInv
  <1>4. ASSUME NEW x \in 1 .. Len(placed)
        PROVE  placed[x].uid < m_uid' /\ placed[x].ts <= m_currentTs' + handed[x]
    <2>1. placed[x].uid < m_uid /\ placed[x].ts <= m_currentTs + handed[x]
      BY DEF IInv, PlacedInv
    <2>2. placed[x].uid \in Nat /\ placed[x].ts \in Nat
      BY <1>2 DEF Event
    <2>3. handed[x] \in Nat
      BY <1>2, <1>3
    <2>4. m_uid \in Nat /\ m_currentTs \in Nat
      BY DEF IInv, TypeInv
    <2> QED
      BY <2>1, <2>2, <2>3, <2>4
  <1> QED
    BY <1>1, <1>4 DEF IInv, PlacedInv

LEMMA UsedGrows ==
    ASSUME IInv, m_uid' \in Nat, m_uid' >= m_uid
    PROVE  Used \subseteq Used' /\ m_destroyEvents \in Seq(Used')
  <1>1. Used \subseteq Used'
    BY DEF IInv, TypeInv, Used
  <1> QED
    BY <1>1, SeqMonotonic DEF IInv, TypeInv

LEMMA InsertStep ==
    ASSUME IInv, NEW d \in Delays, Schedule(d) \/ ScheduleWithContext(d)
    PROVE  IInv'
  <1> DEFINE new == Key(m_currentTs + d)
  <1>1. /\ Insert(d)
        /\ ids' \subseteq ids \cup {new} /\ ids \subseteq ids'
    BY DEF Schedule, ScheduleWithContext
  <1>2. /\ m_events' = m_events \cup {new} /\ m_uid' = m_uid + 1
        /\ UNCHANGED <<m_currentTs, m_currentUid, cancelled, m_destroyEvents,
                       m_eventsWithContext, handed, placed>>
    BY <1>1 DEF Insert, handVars
  <1>3. d \in Nat /\ m_currentTs \in Nat /\ m_currentUid \in Nat /\ m_uid \in Nat
    BY DelayType DEF IInv, TypeInv
  <1>4. new \in Event /\ new.ts = m_currentTs + d /\ new.uid = m_uid
    BY <1>3 DEF Key, Event
  <1>5. \A e \in m_events \cup ids : e \in Event /\ e.uid < m_uid /\ e.uid \in Nat
    BY DEF IInv, TypeInv, UidsUsed, Event
  <1> HIDE DEF new
  <1>6. TypeInv'
    <2>1. m_events' \subseteq Event /\ ids' \subseteq Event
      BY <1>1, <1>2, <1>4, <1>5
    <2>2. cancelled' \subseteq Used' /\ m_destroyEvents' \in Seq(Used')
      <3>1. m_uid' \in Nat /\ m_uid' >= m_uid
        BY <1>2, <1>3
      <3> QED
        BY <3>1, <1>2, UsedGrows DEF IInv, TypeInv
    <2> QED
      BY <2>1, <2>2, <1>2, <1>3 DEF IInv, TypeInv
  <1>7. UidsUsed'
    BY <1>1, <1>2, <1>3, <1>4, <1>5 DEF IInv, UidsUsed
  <1>8. PendingIsLater'
    BY <1>2, <1>3, <1>4 DEF IInv, PendingIsLater, Precedes, UidsUsed
  <1>9. ExpiredIsGone'
    <2>1. ASSUME NEW id \in ids', id # new
          PROVE  ~IsExpired(id)' <=> (id \in m_events' /\ id.uid \notin cancelled')
      <3>1. id \in ids
        BY <2>1, <1>1
      <3> QED
        BY <3>1, <2>1, <1>2 DEF IInv, ExpiredIsGone, IsExpired
    <2>2. ASSUME NEW id \in ids', id = new
          PROVE  ~IsExpired(id)' <=> (id \in m_events' /\ id.uid \notin cancelled')
      <3>1. id \in m_events'
        BY <2>2, <1>2
      <3>2. id.uid \notin cancelled'
        BY <2>2, <1>2, <1>3, <1>4 DEF IInv, TypeInv, Used
      <3>3. ~IsExpired(id)'
        <4>1. m_currentUid < m_uid
          BY DEF IInv, UidsUsed
        <4>2. ~(id.ts < m_currentTs') /\ ~(id.ts = m_currentTs' /\ id.uid <= m_currentUid')
          BY <4>1, <2>2, <1>2, <1>3, <1>4
        <4> QED
          BY <4>2, <3>2 DEF IsExpired
      <3> QED
        BY <3>1, <3>2, <3>3
    <2> QED
      BY <2>1, <2>2 DEF ExpiredIsGone
  <1>10. ListInv' /\ PlacedInv'
    BY <1>2, <1>3, HandKept
  <1> QED
    BY <1>6, <1>7, <1>8, <1>9, <1>10 DEF IInv

\* Another uid is cancelled; with its event removed, or not.
LEMMA CancelStep ==
    ASSUME IInv, NEW u \in Used, cancelled' = cancelled \cup {u}, NEW gone, m_events' = m_events \ gone,
           \A e \in gone : e.uid = u,
           UNCHANGED <<m_currentTs, m_currentUid, m_uid, ids, m_destroyEvents, handVars>>
    PROVE  IInv'
  <1>1. TypeInv'
    BY DEF IInv, TypeInv, Used, handVars
  <1>2. UidsUsed' /\ PendingIsLater'
    BY DEF IInv, UidsUsed, PendingIsLater
  <1>3. ExpiredIsGone'
    BY DEF IInv, ExpiredIsGone, IsExpired
  <1>4. ListInv' /\ PlacedInv'
    BY HandKept DEF IInv, TypeInv, handVars
  <1> QED
    BY <1>1, <1>2, <1>3, <1>4 DEF IInv

LEMMA RemoveStep ==
    ASSUME IInv, NEW id \in ids, Remove(id) \/ Cancel(id)
    PROVE  IInv'
  <1>1. id.uid \in Used
    BY DEF IInv, TypeInv, UidsUsed, Event, Used
  <1>2. CASE Remove(id)
    <2> DEFINE gone == {id}
    <2>1. m_events' = m_events \ gone /\ \A e \in gone : e.uid = id.uid
      BY <1>2 DEF Remove
    <2> HIDE DEF gone
    <2> QED
      BY <1>1, <1>2, <2>1, CancelStep DEF Remove
  <1>3. CASE Cancel(id)
    <2> DEFINE gone == {}
    <2>1. m_events' = m_events \ gone /\ \A e \in gone : e.uid = id.uid
      BY <1>3 DEF Cancel, loopVars
    <2> HIDE DEF gone
    <2> QED
      BY <1>1, <1>3, <2>1, CancelStep DEF Cancel, loopVars
  <1> QED
    BY <1>2, <1>3

-----------------------------------------------------------------------------
LEMMA ScheduleDestroyStep ==
    ASSUME IInv, ScheduleDestroy
    PROVE  IInv'
  <1>1. /\ m_uid' = m_uid + 1 /\ m_destroyEvents' = Append(m_destroyEvents, m_uid)
        /\ UNCHANGED <<m_events, m_currentTs, m_currentUid, cancelled, ids, handed, placed,
                       m_eventsWithContext>>
    BY DEF ScheduleDestroy, handVars
  <1>2. m_uid \in Nat /\ m_currentTs \in Nat /\ m_currentUid \in Nat
    BY DEF IInv, TypeInv
  <1>3. TypeInv'
    <2>1. Used \subseteq Used' /\ m_destroyEvents \in Seq(Used')
      BY <1>1, <1>2, UsedGrows
    <2>2. m_uid \in Used'
      BY <1>1, <1>2 DEF Used
    <2>3. m_destroyEvents' \in Seq(Used')
      BY <1>1, <2>1, <2>2, AppendProperties
    <2> QED
      BY <1>1, <1>2, <2>1, <2>3 DEF IInv, TypeInv
  <1>4. UidsUsed'
    BY <1>1, <1>2 DEF IInv, UidsUsed, TypeInv, Event
  <1>5. PendingIsLater' /\ ExpiredIsGone'
    BY <1>1 DEF IInv, PendingIsLater, ExpiredIsGone, IsExpired
  <1>6. ListInv' /\ PlacedInv'
    BY <1>1, <1>2, HandKept
  <1> QED
    BY <1>3, <1>4, <1>5, <1>6 DEF IInv

LEMMA DestroyEventsStep ==
    ASSUME IInv,
           Destroy \/ (\E i \in DOMAIN m_destroyEvents : RemoveDestroy(i) \/ CancelDestroy(i))
    PROVE  IInv'
  <1>1. m_destroyEvents \in Seq(Used)
    BY DEF IInv, TypeInv
  <1>2. CASE Destroy
    <2>1. m_destroyEvents' \in Seq(Used)
      BY <1>1, <1>2, HeadTailProperties, EmptySeq DEF Destroy
    <2>2. ListInv'
      BY <1>2 DEF Destroy, handVars, IInv, ListInv
    <2> QED
      BY <1>2, <2>1, <2>2, QuietStep DEF Destroy, loopVars, handVars, IInv, TypeInv
  <1>3. ASSUME NEW i \in DOMAIN m_destroyEvents, RemoveDestroy(i)
        PROVE  IInv'
    <2>1. m_destroyEvents' \in Seq(Used)
      BY <1>1, <1>3, WithoutOne DEF RemoveDestroy
    <2>2. ListInv'
      BY <1>3 DEF RemoveDestroy, handVars, IInv, ListInv
    <2> QED
      BY <1>3, <2>1, <2>2, QuietStep DEF RemoveDestroy, loopVars, handVars, IInv, TypeInv
  <1>4. ASSUME NEW i \in DOMAIN m_destroyEvents, CancelDestroy(i)
        PROVE  IInv'
    <2>1. m_destroyEvents[i] \in Used
      BY <1>1, ElementOfSeq, LenProperties
    <2> DEFINE u == m_destroyEvents[i]
               gone == {}
    <2>2. u \in Used /\ cancelled' = cancelled \cup {u}
      BY <1>4, <2>1 DEF CancelDestroy
    <2>3. m_events' = m_events \ gone /\ \A e \in gone : e.uid = u
      BY <1>4 DEF CancelDestroy, loopVars
    <2> HIDE DEF u, gone
    <2> QED
      BY <1>4, <2>2, <2>3, CancelStep DEF CancelDestroy, loopVars
  <1> QED
    BY <1>2, <1>3, <1>4

\* The steps that change none of the state the invariant is about.
LEMMA IdleStep ==
    ASSUME IInv, UNCHANGED <<m_events, m_currentTs, m_currentUid, m_uid, callerVars, handVars>>
    PROVE  IInv'
  <1>1. ListInv'
    BY DEF handVars, IInv, ListInv
  <1> QED
    BY <1>1, QuietStep DEF callerVars, handVars, IInv, TypeInv

-----------------------------------------------------------------------------
\* The event executed next becomes the current one: all others are later.
LEMMA ProcessOneEventStep ==
    ASSUME IInv, NEW next \in m_events, ProcessOneEvent(next)
    PROVE  IInv'
  <1>1. /\ m_events' = m_events \ {next} /\ m_currentTs' = next.ts /\ m_currentUid' = next.uid
        /\ UNCHANGED <<m_uid, cancelled, ids, m_destroyEvents, handed, placed, m_eventsWithContext>>
    BY DEF ProcessOneEvent, callerVars, handVars
  <1>2. \A e \in m_events \cup ids \cup {next} : e \in Event /\ e.ts \in Nat /\ e.uid \in Nat /\ e.uid < m_uid
    BY DEF IInv, TypeInv, UidsUsed, Event
  <1>3. m_currentTs \in Nat /\ m_currentUid \in Nat /\ m_uid \in Nat
    BY DEF IInv, TypeInv
  <1>4. Precedes([ts |-> m_currentTs, uid |-> m_currentUid], next)
    BY DEF IInv, PendingIsLater
  <1>5. m_currentTs' \in Nat /\ m_currentTs' >= m_currentTs
    BY <1>1, <1>2, <1>3, <1>4 DEF Precedes
  <1>6. TypeInv'
    BY <1>1, <1>2 DEF IInv, TypeInv, Used
  <1>7. UidsUsed'
    BY <1>1, <1>2 DEF UidsUsed
  <1>8. PendingIsLater'
    <2>1. \A f \in m_events \ {next} : Precedes(next, f)
      BY DEF ProcessOneEvent, IsFirst
    <2> QED
      BY <1>1, <2>1 DEF PendingIsLater, Precedes
  <1>9. ExpiredIsGone'
    <2>1. ASSUME NEW id \in ids
          PROVE  ~IsExpired(id)' <=> (id \in m_events' /\ id.uid \notin cancelled')
      <3>1. id.ts \in Nat /\ id.uid \in Nat /\ next.ts \in Nat /\ next.uid \in Nat
        BY <1>2
      <3>2. CASE id.uid \in cancelled
        BY <3>2, <1>1 DEF IsExpired
      <3>3. CASE id.uid \notin cancelled /\ id \in m_events'
        <4>1. Precedes([ts |-> m_currentTs', uid |-> m_currentUid'], id)
          BY <3>3, <1>8 DEF PendingIsLater
        <4>2. ~(id.ts < m_currentTs') /\ ~(id.ts = m_currentTs' /\ id.uid <= m_currentUid')
          BY <4>1, <3>1, <1>1 DEF Precedes
        <4> QED
          BY <4>2, <3>3, <1>1 DEF IsExpired
      <3>4. CASE id.uid \notin cancelled /\ id = next
        <4>1. id.ts = m_currentTs' /\ id.uid <= m_currentUid'
          BY <3>1, <3>4, <1>1
        <4> QED
          BY <4>1, <3>4, <1>1 DEF IsExpired
      <3>5. CASE id.uid \notin cancelled /\ id \notin m_events
        <4>1. IsExpired(id)
          BY <3>5 DEF IInv, ExpiredIsGone
        <4>2. id.ts < m_currentTs \/ (id.ts = m_currentTs /\ id.uid <= m_currentUid)
          BY <4>1, <3>5 DEF IsExpired
        <4>3. id.ts < m_currentTs' \/ (id.ts = m_currentTs' /\ id.uid <= m_currentUid')
          BY <4>2, <3>1, <1>1, <1>3, <1>4 DEF Precedes
        <4> QED
          BY <4>3, <3>5, <1>1 DEF IsExpired
      <3> QED
        BY <3>2, <3>3, <3>4, <3>5, <1>1
    <2> QED
      BY <2>1, <1>1 DEF ExpiredIsGone
  <1>10. ListInv' /\ PlacedInv'
    BY <1>1, <1>3, <1>5, HandKept
  <1> QED
    BY <1>6, <1>7, <1>8, <1>9, <1>10 DEF IInv

\* The list is emptied: its events get the next uids, in its order, and times
\* no earlier than the current one.
LEMMA ProcessEventsStep ==
    ASSUME IInv, ProcessEventsWithContext
    PROVE  IInv'
  <1> DEFINE n == Len(m_eventsWithContext)
             p == Len(placed)
             new == [i \in 1 .. n |-> KeyOfHanded(i)]
  <1>1. /\ n \in Nat /\ p \in Nat /\ Len(handed) = p + n
        /\ DOMAIN m_eventsWithContext = 1 .. n
        /\ m_currentTs \in Nat /\ m_currentUid \in Nat /\ m_uid \in Nat
        /\ m_currentUid < m_uid
    BY LenProperties DEF IInv, TypeInv, ListInv, UidsUsed
  <1>2. \A x \in 1 .. p + n : handed[x] \in Nat
    BY <1>1, ElementOfSeq DEF IInv, TypeInv
  <1>3. ASSUME NEW i \in 1 .. n
        PROVE  /\ KeyOfHanded(i) = [ts |-> m_currentTs + handed[p + i], uid |-> m_uid + i - 1]
               /\ KeyOfHanded(i) \in Event
               /\ handed[p + i] \in Nat
    <2>1. m_eventsWithContext[i] = p + i
      BY DEF IInv, ListInv
    <2>2. handed[p + i] \in Nat
      BY <1>1, <1>2
    <2> QED
      BY <2>1, <2>2, <1>1 DEF KeyOfHanded, Event
  <1>4. /\ m_events' = m_events \cup {KeyOfHanded(i) : i \in 1 .. n}
        /\ m_uid' = m_uid + n
        /\ placed' = placed \o new
        /\ m_eventsWithContext' = <<>>
        /\ UNCHANGED <<m_currentTs, m_currentUid, cancelled, ids, m_destroyEvents, handed>>
    BY <1>1 DEF ProcessEventsWithContext, callerVars
  <1>5. /\ new \in Seq(Event) /\ Len(new) = n
        /\ \A i \in 1 .. n : new[i] = KeyOfHanded(i)
    BY <1>1, <1>3, IsASeq, LenProperties
  <1>6. /\ placed' \in Seq(Event) /\ Len(placed') = p + n
        /\ \A x \in 1 .. p : placed'[x] = placed[x]
        /\ \A i \in 1 .. n : placed'[p + i] = KeyOfHanded(i)
    <2>1. placed \in Seq(Event)
      BY DEF IInv, TypeInv
    <2> HIDE DEF new, n, p
    <2>2. /\ placed' \in Seq(Event) /\ Len(placed') = p + n
          /\ \A x \in 1 .. p + n : placed'[x] = IF x <= p THEN placed[x] ELSE new[x - p]
      <3>1. placed \o new \in Seq(Event) /\ Len(placed \o new) = Len(placed) + Len(new)
        BY <2>1, <1>5, ConcatProperties
      <3>2. \A x \in 1 .. Len(placed) + Len(new) :
                (placed \o new)[x] = IF x <= Len(placed) THEN placed[x] ELSE new[x - Len(placed)]
        BY <2>1, <1>5, ConcatProperties
      <3> QED
        BY <3>1, <3>2, <1>4, <1>5 DEF p
    <2>3. \A i \in 1 .. n : placed'[p + i] = new[i]
      BY <2>1, <1>4, <1>5, ConcatSecond DEF p
    <2>4. \A x \in 1 .. p : placed'[x] = placed[x]
      BY <2>2, <1>1
    <2>5. \A i \in 1 .. n : placed'[p + i] = KeyOfHanded(i)
      BY <2>3, <1>5
    <2> QED
      BY <2>2, <2>4, <2>5
  <1> HIDE DEF n, p, new
  <1>7. TypeInv'
    <2>1. m_uid' \in Nat /\ m_uid' >= m_uid
      BY <1>1, <1>4
    <2>2. Used \subseteq Used' /\ m_destroyEvents \in Seq(Used')
      BY <2>1, UsedGrows
    <2>3. m_events' \subseteq Event
      BY <1>3, <1>4 DEF IInv, TypeInv
    <2>4. <<>> \in Seq(Nat)
      BY EmptySeq
    <2> QED
      BY <2>1, <2>2, <2>3, <2>4, <1>4, <1>6 DEF IInv, TypeInv
  <1>8. UidsUsed'
    <2>1. m_currentUid' < m_uid'
      BY <1>1, <1>4
    <2>2. ASSUME NEW e \in m_events \cup ids
          PROVE  e.uid < m_uid'
      <3>1. e.uid < m_uid /\ e.uid \in Nat
        BY DEF IInv, TypeInv, UidsUsed, Event
      <3> QED
        BY <3>1, <1>1, <1>4
    <2>3. ASSUME NEW i \in 1 .. n
          PROVE  KeyOfHanded(i).uid < m_uid'
      BY <1>1, <1>3, <1>4
    <2> QED
      BY <2>1, <2>2, <2>3, <1>4 DEF UidsUsed
  <1>9. PendingIsLater'
    <2>1. ASSUME NEW i \in 1 .. n
          PROVE  Precedes([ts |-> m_currentTs, uid |-> m_currentUid], KeyOfHanded(i))
      <3>1. PICK h \in Nat : KeyOfHanded(i) = [ts |-> m_currentTs + h, uid |-> m_uid + i - 1]
        BY <1>3
      <3>2. m_currentUid < m_uid + i - 1
        BY <1>1
      <3> QED
        BY <3>1, <3>2, <1>1 DEF Precedes
    <2> QED
      BY <2>1, <1>4 DEF IInv, PendingIsLater
  <1>10. ExpiredIsGone'
    <2>1. ASSUME NEW id \in ids
          PROVE  id \in m_events' <=> id \in m_events
      <3>1. id.uid < m_uid /\ id.uid \in Nat
        BY DEF IInv, TypeInv, UidsUsed, Event
      <3>2. \A i \in 1 .. n : id # KeyOfHanded(i)
        BY <3>1, <1>1, <1>3
      <3> QED
        BY <3>2, <1>4
    <2>2. \A id \in ids : IsExpired(id)' <=> IsExpired(id)
      BY <1>4 DEF IsExpired
    <2> QED
      BY <2>1, <2>2, <1>4 DEF IInv, ExpiredIsGone
  <1>11. ListInv'
    <2>1. Len(<<>>) = 0
      BY EmptySeq
    <2> QED
      BY <2>1, <1>1, <1>4, <1>6 DEF ListInv
  <1>12. PlacedInv'
    <2>1. ASSUME NEW x \in 1 .. p
          PROVE  /\ placed[x].ts \in Nat /\ placed[x].uid \in Nat
                 /\ placed[x].uid < m_uid /\ placed[x].ts <= m_currentTs + handed[x]
      <3>1. placed[x] \in Event
        BY ElementOfSeq DEF IInv, TypeInv, p
      <3>2. placed[x].uid < m_uid /\ placed[x].ts <= m_currentTs + handed[x]
        BY DEF IInv, PlacedInv, p
      <3> QED
        BY <3>1, <3>2 DEF Event
    <2>2. ASSUME NEW x \in 1 .. p + n
          PROVE  placed'[x].uid < m_uid' /\ placed'[x].ts <= m_currentTs' + handed'[x]
      <3>1. CASE x \in 1 .. p
        <4>1. placed'[x] = placed[x]
          BY <3>1, <1>6
        <4> QED
          BY <4>1, <3>1, <2>1, <1>1, <1>4
      <3>2. CASE x \notin 1 .. p
        <4>1. PICK i \in 1 .. n : x = p + i
          <5>1. x - p \in 1 .. n /\ x = p + (x - p)
            BY <3>2, <1>1
          <5> QED
            BY <5>1
        <4>2. placed'[x] = [ts |-> m_currentTs + handed[x], uid |-> m_uid + i - 1]
          BY <4>1, <1>3, <1>6
        <4> QED
          BY <4>1, <4>2, <1>1, <1>2, <1>4
      <3> QED
        BY <3>1, <3>2
    <2>3. ASSUME NEW y \in 1 .. p + n, NEW x \in 1 .. y - 1
          PROVE  /\ placed'[x].uid < placed'[y].uid
                 /\ placed'[x].ts + handed'[y] <= placed'[y].ts + handed'[x]
      <3>0. x \in 1 .. p + n /\ handed[x] \in Nat /\ handed[y] \in Nat
        BY <1>1, <1>2
      <3>1. CASE y \in 1 .. p
        <4>1. x \in 1 .. p
          BY <3>1, <1>1
        <4>2. placed'[x] = placed[x] /\ placed'[y] = placed[y]
          BY <4>1, <3>1, <1>6
        <4> QED
          BY <4>2, <3>1, <1>4 DEF IInv, PlacedInv, p
      <3>2. CASE y \notin 1 .. p
        <4>1. PICK i \in 1 .. n : y = p + i
          <5>1. y - p \in 1 .. n /\ y = p + (y - p)
            BY <3>2, <1>1
          <5> QED
            BY <5>1
        <4>2. placed'[y] = [ts |-> m_currentTs + handed[y], uid |-> m_uid + i - 1]
          BY <4>1, <1>3, <1>6
        <4>3. CASE x \in 1 .. p
          <5>1. placed'[x] = placed[x] /\ handed' = handed
            BY <4>3, <1>4, <1>6
          <5>2. /\ placed[x].ts \in Nat /\ placed[x].uid \in Nat
                /\ placed[x].uid < m_uid /\ placed[x].ts <= m_currentTs + handed[x]
            BY <4>3, <2>1
          <5>3. placed[x].uid < m_uid + i - 1
            BY <5>2, <1>1
          <5>4. placed[x].ts + handed[y] <= m_currentTs + handed[y] + handed[x]
            BY <5>2, <3>0, <1>1
          <5> QED
            BY <5>1, <5>3, <5>4, <4>2
        <4>4. CASE x \notin 1 .. p
          <5>1. PICK j \in 1 .. n : x = p + j
            <6>1. x - p \in 1 .. n /\ x = p + (x - p)
              BY <4>4, <3>0, <1>1
            <6> QED
              BY <6>1
          <5>2. placed'[x] = [ts |-> m_currentTs + handed[x], uid |-> m_uid + j - 1]
            BY <5>1, <1>3, <1>6
          <5>3. j < i
            BY <4>1, <5>1, <1>1
          <5> QED
            BY <4>2, <5>2, <5>3, <3>0, <1>1, <1>4
        <4> QED
          BY <4>3, <4>4
      <3> QED
        BY <3>1, <3>2
    <2> QED
      BY <2>2, <2>3, <1>6 DEF PlacedInv
  <1> QED
    BY <1>7, <1>8, <1>9, <1>10, <1>11, <1>12 DEF IInv

-----------------------------------------------------------------------------
LEMMA NextInv == IInv /\ [Next]_vars => IInv'
  <1> SUFFICES ASSUME IInv, [Next]_vars PROVE IInv'
    OBVIOUS
  <1>1. CASE \E d \in Delays : Schedule(d) \/ ScheduleWithContext(d)
    BY <1>1, InsertStep
  <1>2. CASE \E id \in ids : Remove(id) \/ Cancel(id)
    BY <1>2, RemoveStep
  <1>3. CASE ScheduleDestroy
    BY <1>3, ScheduleDestroyStep
  <1>4. CASE Destroy \/ \E i \in DOMAIN m_destroyEvents : RemoveDestroy(i) \/ CancelDestroy(i)
    BY <1>4, DestroyEventsStep
  <1>5. CASE ProcessEventsWithContext
    BY <1>5, ProcessEventsStep
  <1>6. CASE \E next \in m_events : ProcessOneEvent(next)
    BY <1>6, ProcessOneEventStep
  <1>7. CASE \E d \in Delays : HandOver(d)
    BY <1>7, HandOverStep
  <1>8. CASE Stop \/ Run \/ ReadFlag \/ HandlerReturns \/ RunReturns \/ Dispose
    BY <1>8, IdleStep DEF Stop, Run, ReadFlag, HandlerReturns, RunReturns, Dispose, loopVars, callerVars
  <1>9. CASE UNCHANGED vars
    BY <1>9, IdleStep DEF vars, loopVars
  <1> QED
    BY <1>1, <1>2, <1>3, <1>4, <1>5, <1>6, <1>7, <1>8, <1>9 DEF Next, Calls, Loop

LEMMA Inductive == Spec => []IInv
  <1> QED
    BY InitInv, NextInv, PTL DEF Spec

\* Whatever the delays are, and however hand-overs, removals and destroy events
\* interleave with Run, no pending event is before the one executed last.
THEOREM TimeAdvances == Spec => []PendingIsLater
  <1>1. IInv => PendingIsLater
    BY DEF IInv
  <1> QED
    BY <1>1, Inductive, PTL

\* An EventId is unexpired exactly while its event is in the scheduler and not
\* cancelled: the simulator's comparison with the current event decides this
\* for any number of events.
THEOREM ExpiryIsExact == Spec => []ExpiredIsGone
  <1>1. IInv => ExpiredIsGone
    BY DEF IInv
  <1> QED
    BY <1>1, Inductive, PTL

\* Of two events handed over, the earlier one runs first unless the later one
\* asked for a shorter delay, however many calls of the main loop took them.
THEOREM HandOverOrder == Spec => []HandOversInOrder
  <1>1. IInv => HandOversInOrder
    <2> SUFFICES ASSUME IInv, NEW y \in 1 .. Len(placed), NEW x \in 1 .. y - 1, handed[x] <= handed[y]
                 PROVE  Precedes(placed[x], placed[y])
      BY LenProperties DEF IInv, TypeInv, HandOversInOrder
    <2>1. Len(placed) \in Nat /\ Len(m_eventsWithContext) \in Nat /\ Len(handed) \in Nat
      BY LenProperties DEF IInv, TypeInv
    <2>2. Len(placed) <= Len(handed)
      BY <2>1 DEF IInv, ListInv
    <2>3. x \in 1 .. Len(placed) /\ x \in 1 .. Len(handed) /\ y \in 1 .. Len(handed)
      BY <2>1, <2>2
    <2>4. handed[x] \in Nat /\ handed[y] \in Nat
      BY <2>3, ElementOfSeq DEF IInv, TypeInv
    <2>5. placed[x].ts \in Nat /\ placed[y].ts \in Nat
      <3>1. placed[x] \in Event /\ placed[y] \in Event
        BY <2>3, ElementOfSeq DEF IInv, TypeInv
      <3> QED
        BY <3>1 DEF Event
    <2>6. /\ placed[x].uid < placed[y].uid
          /\ placed[x].ts + handed[y] <= placed[y].ts + handed[x]
      BY DEF IInv, PlacedInv
    <2> QED
      BY <2>4, <2>5, <2>6 DEF Precedes
  <1> QED
    BY <1>1, Inductive, PTL

-----------------------------------------------------------------------------
\* The heap.

\* A set of numbers that is not empty has a least one.
LEMMA NatMin ==
  ASSUME NEW Bad \in SUBSET Nat, Bad # {}
  PROVE  \E k \in Bad : \A j \in Bad : k <= j
  <1> DEFINE Less == {ss \in Nat \X Nat : ss[1] < ss[2]}
  <1>1. IsWellFoundedOn(Less, Nat)
    BY NatLessThanWellFounded DEF OpToRel
  <1>2. PICK k \in Bad : \A j \in Bad : ~(<<j, k>> \in Less)
    <2> HIDE DEF Less
    <2> QED
      BY <1>1, WFMin
  <1>3. ASSUME NEW j \in Bad PROVE k <= j
    <2>1. j \in Nat /\ k \in Nat
      OBVIOUS
    <2>2. ~(j < k)
      <3>1. SUFFICES ASSUME j < k PROVE <<j, k>> \in Less
        BY <1>2
      <3> QED
        BY <2>1, <3>1
    <2> QED
      BY <2>1, <2>2
  <1> QED
    BY <1>3

\* Induction up to k, over a set in place of a predicate.
LEMMA Induction ==
  ASSUME NEW k \in Nat, NEW P, 0 \in P,
         \A n \in 1 .. k : n - 1 \in P => n \in P
  PROVE  \A n \in 0 .. k : n \in P
  <1> DEFINE Bad  == {n \in 0 .. k : n \notin P}
  <1> SUFFICES ASSUME Bad # {}
               PROVE  FALSE
    OBVIOUS
  <1>1. PICK n \in Bad : \A j \in Bad : n <= j
    <2>1. Bad \in SUBSET Nat
      OBVIOUS
    <2> HIDE DEF Bad
    <2> QED
      BY <2>1, NatMin
  <1>2. n \in 1 .. k /\ n - 1 \in 0 .. k /\ ~(n <= n - 1)
    OBVIOUS
  <1> QED
    BY <1>1, <1>2

\* The bodies of the k turns of a loop whose state stays in S.
Bodies(k, S) == [1 .. k -> [S -> S]]

\* g is the course of the loop that starts with o and runs the bodies T.
IsLoop(g, T, o, k, S) == g \in [0 .. k -> S] /\ g[0] = o /\ \A n \in 1 .. k : g[n] = T[n][g[n - 1]]

\* A loop whose bodies keep its state in S has a course: by induction on its turns.
LEMMA LoopExists ==
  ASSUME NEW S, NEW o \in S, NEW k \in Nat, NEW T \in Bodies(k, S)
  PROVE  \E g : IsLoop(g, T, o, k, S)
  <1> USE DEF Bodies
  <1> DEFINE Upto(m) == \E g \in [0 .. m -> S] :
                          g[0] = o /\ \A n \in 1 .. m : g[n] = T[n][g[n - 1]]
             P == {m \in 0 .. k : Upto(m)}
  <1>1. 0 \in P
    <2> DEFINE g == [n \in 0 .. 0 |-> o]
    <2>1. g \in [0 .. 0 -> S] /\ g[0] = o
      OBVIOUS
    <2> HIDE DEF g
    <2>2. \A n \in 1 .. 0 : g[n] = T[n][g[n - 1]]
      OBVIOUS
    <2>3. Upto(0)
      BY <2>1, <2>2
    <2> QED
      BY <2>3
  <1>2. ASSUME NEW m \in 1 .. k, m - 1 \in P
        PROVE  m \in P
    <2>1. PICK g \in [0 .. m - 1 -> S] : g[0] = o /\ \A n \in 1 .. m - 1 : g[n] = T[n][g[n - 1]]
      BY <1>2
    <2> DEFINE h == [n \in 0 .. m |-> IF n = m THEN T[m][g[m - 1]] ELSE g[n]]
    <2>2. g[m - 1] \in S /\ T[m] \in [S -> S]
      BY <2>1
    <2>3. h \in [0 .. m -> S]
      BY <2>2
    <2>4. h[0] = o /\ \A n \in 1 .. m : h[n] = T[n][h[n - 1]]
      BY <2>1
    <2> HIDE DEF h
    <2> QED
      BY <2>3, <2>4
  <1> HIDE DEF P
  <1>3. k \in P
    <2>1. \A n \in 0 .. k : n \in P
      BY <1>1, <1>2, Induction
    <2> QED
      BY <2>1
  <1> QED
    BY <1>3 DEF P, IsLoop

-----------------------------------------------------------------------------
\* The scheduler modules order events by the key of module EventKey.
LEMMA HeapKeys ==
  /\ \A a, b : Heap!Precedes(a, b) <=> Precedes(a, b)
  /\ Heap!Event = Event
  /\ Heap!FirstUid = FirstUid
  BY DEF Heap!Precedes, Precedes, Heap!Event, Event, Heap!FirstUid, FirstUid

\* The order of the keys is total and strict.
LEMMA PrecedesOrder ==
  ASSUME NEW a \in Event, NEW b \in Event
  PROVE  /\ a.uid # b.uid => Precedes(a, b) \/ Precedes(b, a)
         /\ Precedes(a, b) => ~Precedes(b, a) /\ a # b
         /\ \A c \in Event : Precedes(a, b) /\ Precedes(b, c) => Precedes(a, c)
         /\ \A c \in Event : Precedes(a, b) /\ ~Precedes(c, b) => Precedes(a, c)
  BY DEF Event, Precedes

\* No two items of the sequence are the same event.
Distinct(h) == \A i \in 1 .. Len(h) : \A j \in 1 .. Len(h) : h[i].uid = h[j].uid => i = j

\* The same events, one of them perhaps elsewhere.
Rearranged(h, x) ==
    x \in Seq(Event) /\ Len(x) = Len(h) /\ Range(x) = Range(h) /\ Distinct(x)

\* No item precedes its parent.
Ordered(h) == \A j \in 2 .. Len(h) : Precedes(h[j \div 2], h[j])

\* The heap is in order but for the event at index and its parent.
OrderedBelow(h, index) ==
    /\ \A j \in 2 .. Len(h) : j # index => Precedes(h[j \div 2], h[j])
    /\ \A j \in 2 .. Len(h) : j \div 2 = index /\ index > 1 => Precedes(h[index \div 2], h[j])

\* The heap is in order but for the event at index and its children.
OrderedAbove(h, index) ==
    /\ \A j \in 2 .. Len(h) : j \div 2 # index => Precedes(h[j \div 2], h[j])
    /\ \A j \in 2 .. Len(h) : j \div 2 = index /\ index > 1 => Precedes(h[index \div 2], h[j])

\* An item of the heap but the root has a parent in it, and is below it.
LEMMA Parent ==
  /\ \A j \in Nat : j > 1 => j \div 2 \in Nat /\ 1 <= j \div 2 /\ j \div 2 < j
  /\ \A j \in Nat : \A i \in Nat : j \div 2 = i <=> j = 2 * i \/ j = 2 * i + 1
  OBVIOUS

\* x is h with the items at a and b exchanged.
Exchanged(x, h, a, b) ==
    /\ x \in Seq(Event) /\ Len(x) = Len(h)
    /\ \A i \in 1 .. Len(h) : x[i] = IF i = a THEN h[b] ELSE IF i = b THEN h[a] ELSE h[i]

\* What Exch does to the items.
LEMMA ExchSeq ==
  ASSUME NEW h \in Seq(Event), NEW a \in 1 .. Len(h), NEW b \in 1 .. Len(h)
  PROVE  Exchanged(Heap!Exch(h, a, b), h, a, b)
  <1> DEFINE x == Heap!Exch(h, a, b)
  <1>1. h \in [1 .. Len(h) -> Event] /\ Len(h) \in Nat
    BY LenProperties
  <1>2. x \in [1 .. Len(h) -> Event]
    BY <1>1 DEF Heap!Exch
  <1>3. x \in Seq(Event) /\ Len(x) = Len(h)
    BY <1>1, <1>2, IsASeq, LenProperties
  <1>4. \A i \in 1 .. Len(h) : x[i] = IF i = a THEN h[b] ELSE IF i = b THEN h[a] ELSE h[i]
    BY <1>1 DEF Heap!Exch
  <1> QED
    BY <1>3, <1>4 DEF Exchanged

\* Exch loses no event.
LEMMA ExchRearranges ==
  ASSUME NEW h \in Seq(Event), Distinct(h), NEW a \in 1 .. Len(h), NEW b \in 1 .. Len(h)
  PROVE  Rearranged(h, Heap!Exch(h, a, b))
  <1> DEFINE x == Heap!Exch(h, a, b)
  <1>1. /\ x \in Seq(Event) /\ Len(x) = Len(h)
        /\ \A i \in 1 .. Len(h) : x[i] = IF i = a THEN h[b] ELSE IF i = b THEN h[a] ELSE h[i]
    <2>1. Exchanged(x, h, a, b)
      BY ExchSeq
    <2> HIDE DEF x
    <2> QED
      BY <2>1 DEF Exchanged
  <1>2. DOMAIN x = 1 .. Len(h) /\ DOMAIN h = 1 .. Len(h)
    BY <1>1, LenProperties
  <1> HIDE DEF x
  <1>3. Range(x) = Range(h)
    <2>1. \A e : e \in Range(x) => e \in Range(h)
      BY <1>1, <1>2 DEF Range
    <2>2. ASSUME NEW i \in 1 .. Len(h) PROVE h[i] \in Range(x)
      <3>1. \E j \in 1 .. Len(h) : x[j] = h[i]
        BY <1>1
      <3> QED
        BY <1>2, <3>1 DEF Range
    <2>3. \A e : e \in Range(h) => e \in Range(x)
      BY <1>2, <2>2 DEF Range
    <2> QED
      BY <2>1, <2>3
  <1>4. Distinct(x)
    BY <1>1 DEF Distinct
  <1> QED
    BY <1>1, <1>3, <1>4 DEF Rearranged, x

-----------------------------------------------------------------------------
\* What a heap and an event that rises in it may be, after h and its last event.
Rising(h) ==
    {s \in [heap : Seq(Event), index : Nat] :
        /\ s.index \in 1 .. Len(h)
        /\ Rearranged(h, s.heap)
        /\ OrderedBelow(h, Len(h)) => OrderedBelow(s.heap, s.index)}

\* Where BottomUp stops.
Risen(s) == s.index = 1 \/ ~Precedes(s.heap[s.index], s.heap[s.index \div 2])

\* One turn of BottomUp: what was out of order moves up.
LEMMA RiseOrders ==
  ASSUME NEW h \in Seq(Event), NEW i \in 2 .. Len(h), Distinct(h),
         OrderedBelow(h, i), Precedes(h[i], h[i \div 2])
  PROVE  OrderedBelow(Heap!Exch(h, i, i \div 2), i \div 2)
  <1> DEFINE p == i \div 2
             x == Heap!Exch(h, i, p)
  <1>1. Len(h) \in Nat /\ i \in 1 .. Len(h) /\ p \in 1 .. Len(h) /\ p < i /\ \A k \in 1 .. Len(h) : h[k] \in Event
    BY LenProperties, ElementOfSeq
  <1>2. Len(x) = Len(h) /\ \A k \in 1 .. Len(h) : x[k] = IF k = i THEN h[p] ELSE IF k = p THEN h[i] ELSE h[k]
    <2> HIDE DEF p
    <2>1. i \in 1 .. Len(h) /\ p \in 1 .. Len(h)
      BY <1>1
    <2>2. Exchanged(x, h, i, p)
      BY <2>1, ExchSeq
    <2> HIDE DEF x
    <2> QED
      BY <2>2 DEF Exchanged
  <1> HIDE DEF x
  <1>3. ASSUME NEW j \in 2 .. Len(h), j # p
        PROVE  Precedes(x[j \div 2], x[j])
    <2>1. j \div 2 \in 1 .. Len(h) /\ j \div 2 < j
      BY <1>1
    <2>2. CASE j = i
      BY <1>1, <1>2, <2>2
    <2>3. CASE j # i /\ j \div 2 = p
      <3>1. Precedes(h[p], h[j])
        BY <1>1, <2>3 DEF OrderedBelow
      <3>2. x[j] = h[j] /\ x[j \div 2] = h[i]
        BY <1>1, <1>2, <1>3, <2>3
      <3> HIDE DEF p
      <3> QED
        BY <1>1, <3>1, <3>2, PrecedesOrder DEF p
    <2>4. CASE j # i /\ j \div 2 = i
      BY <1>1, <1>2, <1>3, <2>1, <2>4 DEF OrderedBelow
    <2>5. CASE j # i /\ j \div 2 # p /\ j \div 2 # i
      BY <1>1, <1>2, <1>3, <2>1, <2>5 DEF OrderedBelow
    <2> QED
      BY <2>2, <2>3, <2>4, <2>5
  <1>4. ASSUME NEW j \in 2 .. Len(h), j \div 2 = p, p > 1
        PROVE  Precedes(x[p \div 2], x[j])
    <2>1. p \div 2 \in 1 .. Len(h) /\ p \div 2 < p /\ j > p
      BY <1>1, <1>4
    <2>2. Precedes(h[p \div 2], h[p])
      BY <1>1, <1>4 DEF OrderedBelow
    <2>3. x[p \div 2] = h[p \div 2]
      BY <1>1, <1>2, <2>1
    <2>4. CASE j = i
      BY <1>2, <2>2, <2>3, <2>4
    <2>5. CASE j # i
      <3>1. Precedes(h[p], h[j])
        BY <1>4, <2>5 DEF OrderedBelow
      <3>2. x[j] = h[j]
        BY <1>2, <2>1, <2>5
      <3>3. Precedes(h[p \div 2], h[j])
        <4> HIDE DEF p
        <4> QED
          BY <1>1, <2>1, <2>2, <3>1, PrecedesOrder
      <3> QED
        BY <2>3, <3>2, <3>3
    <2> QED
      BY <2>4, <2>5
  <1> QED
    BY <1>2, <1>3, <1>4 DEF OrderedBelow, x

\* A turn of BottomUp keeps the state of the loop.
LEMMA RiseCloses ==
  ASSUME NEW h \in Seq(Event), NEW s \in Rising(h)
  PROVE  /\ Heap!Rise(s) \in Rising(h)
         /\ Risen(s) => Heap!Rise(s) = s
         /\ ~Risen(s) => Heap!Rise(s).index < s.index
  <1> DEFINE p == s.index \div 2
             x == Heap!Exch(s.heap, s.index, p)
  <1>1. /\ s \in [heap : Seq(Event), index : Nat] /\ s.heap \in Seq(Event)
        /\ Len(s.heap) = Len(h) /\ Len(h) \in Nat /\ s.index \in 1 .. Len(h) /\ Distinct(s.heap)
        /\ Range(s.heap) = Range(h)
    BY LenProperties DEF Rising, Rearranged
  <1>2. CASE Risen(s)
    BY <1>1, <1>2, HeapKeys DEF Heap!Rise, Risen
  <1>3. CASE ~Risen(s)
    <2>1. s.index \in 2 .. Len(h) /\ p \in 1 .. Len(h) /\ p < s.index
      BY <1>1, <1>3 DEF Risen
    <2>2. Heap!Rise(s) = [heap |-> x, index |-> p]
      BY <1>1, <1>3, HeapKeys DEF Heap!Rise, Risen
    <2>3. Rearranged(s.heap, x)
      BY <1>1, <2>1, ExchRearranges
    <2>4. OrderedBelow(s.heap, s.index) => OrderedBelow(x, p)
      <3>1. Precedes(s.heap[s.index], s.heap[p])
        BY <1>3 DEF Risen
      <3> QED
        BY <1>1, <2>1, <3>1, RiseOrders
    <2> HIDE DEF x, p
    <2>5. [heap |-> x, index |-> p] \in Rising(h)
      BY <1>1, <2>1, <2>3, <2>4 DEF Rising, Rearranged
    <2> QED
      BY <1>3, <2>1, <2>2, <2>5
  <1> QED
    BY <1>2, <1>3

\* The course of the loop in BottomUp: it has risen when its turns are over.
LEMMA BottomUpLoop ==
  ASSUME NEW h \in Seq(Event), h # <<>>, Distinct(h)
  PROVE  \E g : /\ g \in [0 .. Len(h) -> Rising(h)]
                /\ g[0] = [heap |-> h, index |-> Len(h)]
                /\ \A n \in 1 .. Len(h) : g[n] = Heap!Rise(g[n - 1])
                /\ Heap!BottomUp(h) = g[Len(h)].heap
  <1> DEFINE o == [heap |-> h, index |-> Len(h)]
             Body(g) == [n \in 0 .. Len(h) |-> IF n = 0 THEN o ELSE Heap!Rise(g[n - 1])]
             g == CHOOSE f : f = Body(f)
             S == Rising(h)
             T == [n \in 1 .. Len(h) |-> [s \in S |-> Heap!Rise(s)]]
  <1>0. Len(h) \in Nat /\ o \in S /\ T \in Bodies(Len(h), S)
    <2>1. Len(h) \in Nat /\ Len(h) \in 1 .. Len(h)
      BY LenProperties, EmptySeq
    <2>2. o \in S
      BY <2>1 DEF Rising, Rearranged
    <2>3. T \in Bodies(Len(h), S)
      BY RiseCloses DEF Bodies
    <2> QED
      BY <2>1, <2>2, <2>3
  <1> HIDE DEF S
  <1>1. PICK f : IsLoop(f, T, o, Len(h), S)
    <2> HIDE DEF T, o
    <2> QED
      BY <1>0, LoopExists
  <1>2. \A n \in 1 .. Len(h) : f[n] = Heap!Rise(f[n - 1])
    <2>1. ASSUME NEW n \in 1 .. Len(h)
          PROVE  f[n] = Heap!Rise(f[n - 1])
      <3>0. n - 1 \in 0 .. Len(h)
        BY <1>0
      <3>1. f[n - 1] \in S
        BY <1>1, <3>0 DEF IsLoop
      <3>2. T[n][f[n - 1]] = Heap!Rise(f[n - 1])
        BY <3>1
      <3> QED
        BY <1>1, <3>2 DEF IsLoop
    <2> QED
      BY <2>1
  <1>3. f = Body(f)
    <2>1. f[0] = o /\ f = [n \in 0 .. Len(h) |-> f[n]]
      BY <1>1 DEF IsLoop
    <2> HIDE DEF T, o
    <2> QED
      BY <1>0, <1>2, <2>1
  <1>4. g = Body(g)
    <2> HIDE DEF Body
    <2> QED
      BY <1>3
  <1>5. Heap!BottomUp(h) = g[Len(h)].heap
    BY DEF Heap!BottomUp
  <1> HIDE DEF g
  <1>6. g[0] = o /\ (\A n \in 1 .. Len(h) : g[n] = Heap!Rise(g[n - 1])) /\ g = [n \in 0 .. Len(h) |-> g[n]]
    BY <1>0, <1>4
  <1>7. \A n \in 0 .. Len(h) : g[n] \in S
    <2> DEFINE P == {n \in 0 .. Len(h) : g[n] \in S}
    <2>1. 0 \in P
      BY <1>0, <1>6
    <2>2. ASSUME NEW n \in 1 .. Len(h), n - 1 \in P PROVE n \in P
      <3>1. g[n - 1] \in Rising(h)
        BY <2>2 DEF S
      <3> QED
        BY <1>6, <3>1, RiseCloses DEF S
    <2> HIDE DEF P
    <2>3. \A n \in 0 .. Len(h) : n \in P
      BY <1>0, <2>1, <2>2, Induction
    <2> QED
      BY <2>3 DEF P
  <1> QED
    BY <1>5, <1>6, <1>7 DEF S

\* BottomUp puts a heap in order whose last item alone may be misplaced.
LEMMA BottomUpOrders ==
  ASSUME NEW h \in Seq(Event), h # <<>>, Distinct(h)
  PROVE  /\ Rearranged(h, Heap!BottomUp(h))
         /\ OrderedBelow(h, Len(h)) => Ordered(Heap!BottomUp(h))
  <1>1. PICK g : /\ g \in [0 .. Len(h) -> Rising(h)]
                 /\ g[0] = [heap |-> h, index |-> Len(h)]
                 /\ \A n \in 1 .. Len(h) : g[n] = Heap!Rise(g[n - 1])
                 /\ Heap!BottomUp(h) = g[Len(h)].heap
    BY BottomUpLoop
  <1>0. Len(h) \in Nat
    BY LenProperties
  <1>2. \A n \in 0 .. Len(h) : Risen(g[n]) \/ g[n].index <= Len(h) - n
    <2> DEFINE P == {n \in 0 .. Len(h) : Risen(g[n]) \/ g[n].index <= Len(h) - n}
    <2>1. 0 \in P
      BY <1>0, <1>1
    <2>2. ASSUME NEW n \in 1 .. Len(h), n - 1 \in P PROVE n \in P
      <3>1. g[n - 1] \in Rising(h) /\ g[n] \in Rising(h) /\ g[n] = Heap!Rise(g[n - 1])
        BY <1>0, <1>1
      <3>2. g[n - 1].index \in Nat /\ g[n].index \in Nat
        BY <3>1 DEF Rising
      <3>3. Risen(g[n - 1]) => g[n] = g[n - 1]
        BY <3>1, RiseCloses
      <3>4. ~Risen(g[n - 1]) => g[n].index < g[n - 1].index
        BY <3>1, RiseCloses
      <3> QED
        BY <1>0, <2>2, <3>2, <3>3, <3>4
    <2> HIDE DEF P
    <2>3. \A n \in 0 .. Len(h) : n \in P
      BY <1>0, <2>1, <2>2, Induction
    <2> QED
      BY <2>3 DEF P
  <1> DEFINE s == g[Len(h)]
  <1>3. s \in Rising(h) /\ Heap!BottomUp(h) = s.heap
    BY <1>0, <1>1
  <1>4. Risen(s)
    <2>1. Risen(s) \/ s.index <= 0
      BY <1>0, <1>2
    <2>2. s.index \in 1 .. Len(h)
      BY <1>3 DEF Rising
    <2> QED
      BY <2>1, <2>2
  <1> HIDE DEF s
  <1>5. Rearranged(h, s.heap) /\ s.index \in 1 .. Len(h)
    BY <1>3 DEF Rising
  <1>6. ASSUME OrderedBelow(h, Len(h)), NEW j \in 2 .. Len(s.heap)
        PROVE  Precedes(s.heap[j \div 2], s.heap[j])
    <2>1. OrderedBelow(s.heap, s.index)
      BY <1>3, <1>6 DEF Rising
    <2>2. CASE j # s.index
      BY <2>1, <2>2 DEF OrderedBelow
    <2>3. CASE j = s.index
      <3>1. ~Precedes(s.heap[j], s.heap[j \div 2])
        BY <1>4, <2>3 DEF Risen
      <3>2. j \div 2 \in 1 .. Len(h) /\ j \div 2 # j /\ j \in 1 .. Len(h) /\ Len(s.heap) = Len(h)
        BY <1>0, <1>5 DEF Rearranged
      <3>3. s.heap[j \div 2] \in Event /\ s.heap[j] \in Event
        BY <1>5, <3>2, ElementOfSeq DEF Rearranged
      <3>4. s.heap[j].uid # s.heap[j \div 2].uid
        BY <1>5, <3>2 DEF Rearranged, Distinct
      <3> QED
        BY <3>1, <3>3, <3>4, PrecedesOrder
    <2> QED
      BY <2>2, <2>3
  <1> QED
    BY <1>3, <1>5, <1>6 DEF Ordered

-----------------------------------------------------------------------------
\* The child of item i that is due first.
Child(h, i) == IF 2 * i < Len(h) THEN Heap!Smallest(h, 2 * i, 2 * i + 1) ELSE 2 * i

\* The states of the loop in TopDown, from the item at start.
Sinking(h, start) ==
    {s \in [heap : Seq(Event), index : Nat] :
        /\ s.index >= 1
        /\ Rearranged(h, s.heap)
        /\ OrderedAbove(h, start) => OrderedAbove(s.heap, s.index)}

\* Where TopDown stops.
Sunk(s) ==
    \/ 2 * s.index > Len(s.heap)
    \/ Precedes(s.heap[s.index], s.heap[Child(s.heap, s.index)])

\* The child TopDown looks at is due before the other one.
LEMMA ChildIsFirst ==
  ASSUME NEW h \in Seq(Event), Distinct(h), NEW i \in Nat, i >= 1, 2 * i <= Len(h)
  PROVE  /\ Child(h, i) \in 2 .. Len(h) /\ Child(h, i) > i /\ Child(h, i) \div 2 = i
         /\ \A j \in 2 .. Len(h) :
               j \div 2 = i => j = Child(h, i) \/ Precedes(h[Child(h, i)], h[j])
  <1>1. Len(h) \in Nat /\ \A k \in 1 .. Len(h) : h[k] \in Event
    BY LenProperties, ElementOfSeq
  <1>2. CASE 2 * i < Len(h)
    <2>1. CASE Precedes(h[2 * i], h[2 * i + 1])
      <3>1. Child(h, i) = 2 * i
        BY <1>2, <2>1, HeapKeys DEF Child, Heap!Smallest
      <3> QED
        BY <1>1, <1>2, <2>1, <3>1, Parent
    <2>2. CASE ~Precedes(h[2 * i], h[2 * i + 1])
      <3>1. Child(h, i) = 2 * i + 1
        BY <1>2, <2>2, HeapKeys DEF Child, Heap!Smallest
      <3>2. 2 * i \in 1 .. Len(h) /\ 2 * i + 1 \in 1 .. Len(h)
        BY <1>1, <1>2
      <3>3. h[2 * i].uid # h[2 * i + 1].uid
        BY <3>2 DEF Distinct
      <3>4. h[2 * i] \in Event /\ h[2 * i + 1] \in Event
        BY <1>1, <3>2
      <3>5. Precedes(h[2 * i + 1], h[2 * i])
        BY <2>2, <3>3, <3>4, PrecedesOrder
      <3> QED
        BY <1>1, <1>2, <3>1, <3>5, Parent
    <2> QED
      BY <2>1, <2>2
  <1>3. CASE ~(2 * i < Len(h))
    BY <1>1, <1>3 DEF Child
  <1> QED
    BY <1>2, <1>3

\* One turn of TopDown: what was out of order moves down.
LEMMA SinkOrders ==
  ASSUME NEW h \in Seq(Event), Distinct(h), NEW i \in Nat, i >= 1, 2 * i <= Len(h),
         OrderedAbove(h, i), ~Precedes(h[i], h[Child(h, i)])
  PROVE  OrderedAbove(Heap!Exch(h, i, Child(h, i)), Child(h, i))
  <1> DEFINE c == Child(h, i)
             x == Heap!Exch(h, i, c)
  <1>1. Len(h) \in Nat /\ i \in 1 .. Len(h) /\ \A k \in 1 .. Len(h) : h[k] \in Event
    BY LenProperties, ElementOfSeq
  <1>2. c \in 2 .. Len(h) /\ c > i /\ c \div 2 = i /\ c \in 1 .. Len(h)
    BY <1>1, ChildIsFirst
  <1>3. \A j \in 2 .. Len(h) : j \div 2 = i => j = c \/ Precedes(h[c], h[j])
    BY ChildIsFirst
  <1>4. Precedes(h[c], h[i])
    <2>1. h[c].uid # h[i].uid
      BY <1>1, <1>2 DEF Distinct
    <2> QED
      BY <1>1, <1>2, <2>1, PrecedesOrder
  <1> HIDE DEF c
  <1>5. Len(x) = Len(h) /\ \A k \in 1 .. Len(h) : x[k] = IF k = i THEN h[c] ELSE IF k = c THEN h[i] ELSE h[k]
    <2>1. i \in 1 .. Len(h) /\ c \in 1 .. Len(h)
      BY <1>1, <1>2
    <2>2. Exchanged(x, h, i, c)
      BY <2>1, ExchSeq
    <2> HIDE DEF x
    <2> QED
      BY <2>2 DEF Exchanged
  <1> HIDE DEF x
  <1>6. ASSUME NEW j \in 2 .. Len(h), j \div 2 # c
        PROVE  Precedes(x[j \div 2], x[j])
    <2>1. j \div 2 \in 1 .. Len(h) /\ j \div 2 < j /\ j \in 1 .. Len(h)
      BY <1>1
    <2>2. CASE j = c
      BY <1>1, <1>2, <1>4, <1>5, <2>2
    <2>3. CASE j # c /\ j \div 2 = i
      <3>1. j # i
        BY <2>1, <2>3
      <3> QED
        BY <1>3, <1>5, <2>1, <2>3, <3>1
    <2>4. CASE j = i
      <3>1. Precedes(h[i \div 2], h[c])
        BY <1>2, <2>4 DEF OrderedAbove
      <3>2. x[j \div 2] = h[i \div 2] /\ x[j] = h[c]
        BY <1>2, <1>5, <1>6, <2>1, <2>4
      <3> QED
        BY <3>1, <3>2
    <2>5. CASE j # c /\ j # i /\ j \div 2 # i
      BY <1>5, <1>6, <2>1, <2>5 DEF OrderedAbove
    <2> QED
      BY <2>2, <2>3, <2>4, <2>5
  <1>7. ASSUME NEW j \in 2 .. Len(h), j \div 2 = c
        PROVE  Precedes(x[c \div 2], x[j])
    <2>1. j > c /\ j \in 1 .. Len(h)
      BY <1>2, <1>7
    <2>2. Precedes(h[c], h[j])
      BY <1>2, <1>7 DEF OrderedAbove
    <2>3. x[i] = h[c] /\ x[j] = h[j]
      BY <1>1, <1>2, <1>5, <2>1
    <2> QED
      BY <1>2, <2>2, <2>3
  <1> QED
    BY <1>5, <1>6, <1>7 DEF OrderedAbove, x, c

\* A turn of TopDown keeps the state of the loop.
LEMMA SinkCloses ==
  ASSUME NEW h \in Seq(Event), NEW start, NEW s \in Sinking(h, start)
  PROVE  /\ Heap!Sink(s) \in Sinking(h, start)
         /\ Sunk(s) => Heap!Sink(s) = s
         /\ ~Sunk(s) => Heap!Sink(s).index > s.index
  <1> DEFINE c == Child(s.heap, s.index)
             x == Heap!Exch(s.heap, s.index, c)
  <1>1. /\ s \in [heap : Seq(Event), index : Nat] /\ s.heap \in Seq(Event) /\ s.index \in Nat
        /\ Len(s.heap) = Len(h) /\ Len(h) \in Nat /\ s.index >= 1 /\ Distinct(s.heap)
        /\ Range(s.heap) = Range(h)
    BY LenProperties DEF Sinking, Rearranged
  <1>2. CASE Sunk(s)
    BY <1>1, <1>2, HeapKeys DEF Heap!Sink, Sunk, Child
  <1>3. CASE ~Sunk(s)
    <2>1. 2 * s.index <= Len(s.heap) /\ s.index \in 1 .. Len(s.heap)
      BY <1>1, <1>3 DEF Sunk
    <2>2. c \in 1 .. Len(s.heap) /\ c > s.index
      <3>1. c \in 2 .. Len(s.heap) /\ c > s.index
        BY <1>1, <2>1, ChildIsFirst
      <3> QED
        BY <3>1
    <2>3. Heap!Sink(s) = [heap |-> x, index |-> c]
      BY <1>1, <1>3, HeapKeys DEF Heap!Sink, Sunk, Child
    <2>4. Rearranged(s.heap, x)
      <3> HIDE DEF c
      <3> QED
        BY <1>1, <2>1, <2>2, ExchRearranges
    <2>5. OrderedAbove(s.heap, s.index) => OrderedAbove(x, c)
      BY <1>1, <1>3, <2>1, SinkOrders DEF Sunk
    <2> HIDE DEF x, c
    <2>6. [heap |-> x, index |-> c] \in Sinking(h, start)
      BY <1>1, <2>2, <2>4, <2>5 DEF Sinking, Rearranged
    <2> QED
      BY <1>3, <2>2, <2>3, <2>6
  <1> QED
    BY <1>2, <1>3

\* The course of the loop in TopDown: it has sunk when its turns are over.
LEMMA TopDownLoop ==
  ASSUME NEW h \in Seq(Event), NEW start \in Nat, start >= 1, Distinct(h)
  PROVE  \E g : /\ g \in [0 .. Len(h) -> Sinking(h, start)]
                /\ g[0] = [heap |-> h, index |-> start]
                /\ \A n \in 1 .. Len(h) : g[n] = Heap!Sink(g[n - 1])
                /\ Heap!TopDown(h, start) = g[Len(h)].heap
  <1> DEFINE o == [heap |-> h, index |-> start]
             Body(g) == [n \in 0 .. Len(h) |-> IF n = 0 THEN o ELSE Heap!Sink(g[n - 1])]
             g == CHOOSE f : f = Body(f)
             S == Sinking(h, start)
             T == [n \in 1 .. Len(h) |-> [s \in S |-> Heap!Sink(s)]]
  <1>0. Len(h) \in Nat /\ o \in S /\ T \in Bodies(Len(h), S)
    <2>1. Len(h) \in Nat
      BY LenProperties
    <2>2. o \in S
      BY DEF Sinking, Rearranged
    <2>3. T \in Bodies(Len(h), S)
      BY SinkCloses DEF Bodies
    <2> QED
      BY <2>1, <2>2, <2>3
  <1> HIDE DEF S
  <1>1. PICK f : IsLoop(f, T, o, Len(h), S)
    <2> HIDE DEF T, o
    <2> QED
      BY <1>0, LoopExists
  <1>2. \A n \in 1 .. Len(h) : f[n] = Heap!Sink(f[n - 1])
    <2>1. ASSUME NEW n \in 1 .. Len(h)
          PROVE  f[n] = Heap!Sink(f[n - 1])
      <3>0. n - 1 \in 0 .. Len(h)
        BY <1>0
      <3>1. f[n - 1] \in S
        BY <1>1, <3>0 DEF IsLoop
      <3>2. T[n][f[n - 1]] = Heap!Sink(f[n - 1])
        BY <3>1
      <3> QED
        BY <1>1, <3>2 DEF IsLoop
    <2> QED
      BY <2>1
  <1>3. f = Body(f)
    <2>1. f[0] = o /\ f = [n \in 0 .. Len(h) |-> f[n]]
      BY <1>1 DEF IsLoop
    <2> HIDE DEF T, o
    <2> QED
      BY <1>0, <1>2, <2>1
  <1>4. g = Body(g)
    <2> HIDE DEF Body
    <2> QED
      BY <1>3
  <1>5. Heap!TopDown(h, start) = g[Len(h)].heap
    BY DEF Heap!TopDown
  <1> HIDE DEF g
  <1>6. g[0] = o /\ (\A n \in 1 .. Len(h) : g[n] = Heap!Sink(g[n - 1])) /\ g = [n \in 0 .. Len(h) |-> g[n]]
    BY <1>0, <1>4
  <1>7. \A n \in 0 .. Len(h) : g[n] \in S
    <2> DEFINE P == {n \in 0 .. Len(h) : g[n] \in S}
    <2>1. 0 \in P
      BY <1>0, <1>6
    <2>2. ASSUME NEW n \in 1 .. Len(h), n - 1 \in P PROVE n \in P
      <3>1. g[n - 1] \in Sinking(h, start)
        BY <2>2 DEF S
      <3> QED
        BY <1>6, <3>1, SinkCloses DEF S
    <2> HIDE DEF P
    <2>3. \A n \in 0 .. Len(h) : n \in P
      BY <1>0, <2>1, <2>2, Induction
    <2> QED
      BY <2>3 DEF P
  <1> QED
    BY <1>5, <1>6, <1>7 DEF S

\* TopDown puts a heap in order whose item at index alone may be due after a child.
LEMMA TopDownOrders ==
  ASSUME NEW h \in Seq(Event), NEW start \in Nat, start >= 1, Distinct(h)
  PROVE  /\ Rearranged(h, Heap!TopDown(h, start))
         /\ OrderedAbove(h, start) => Ordered(Heap!TopDown(h, start))
  <1>1. PICK g : /\ g \in [0 .. Len(h) -> Sinking(h, start)]
                 /\ g[0] = [heap |-> h, index |-> start]
                 /\ \A n \in 1 .. Len(h) : g[n] = Heap!Sink(g[n - 1])
                 /\ Heap!TopDown(h, start) = g[Len(h)].heap
    BY TopDownLoop
  <1>0. Len(h) \in Nat
    BY LenProperties
  <1>2. \A n \in 0 .. Len(h) : Sunk(g[n]) \/ g[n].index > n
    <2> DEFINE P == {n \in 0 .. Len(h) : Sunk(g[n]) \/ g[n].index > n}
    <2>1. 0 \in P
      BY <1>0, <1>1
    <2>2. ASSUME NEW n \in 1 .. Len(h), n - 1 \in P PROVE n \in P
      <3>1. g[n - 1] \in Sinking(h, start) /\ g[n] \in Sinking(h, start) /\ g[n] = Heap!Sink(g[n - 1])
        BY <1>0, <1>1
      <3>2. g[n - 1].index \in Nat /\ g[n].index \in Nat
        BY <3>1 DEF Sinking
      <3>3. Sunk(g[n - 1]) => g[n] = g[n - 1]
        BY <3>1, SinkCloses
      <3>4. ~Sunk(g[n - 1]) => g[n].index > g[n - 1].index
        BY <3>1, SinkCloses
      <3> QED
        BY <1>0, <2>2, <3>2, <3>3, <3>4
    <2> HIDE DEF P
    <2>3. \A n \in 0 .. Len(h) : n \in P
      BY <1>0, <2>1, <2>2, Induction
    <2> QED
      BY <2>3 DEF P
  <1> DEFINE s == g[Len(h)]
  <1>3. s \in Sinking(h, start) /\ Heap!TopDown(h, start) = s.heap
    BY <1>0, <1>1
  <1>5. Rearranged(h, s.heap) /\ s.index \in Nat /\ s.index >= 1
    BY <1>3 DEF Sinking
  <1>4. Sunk(s)
    <2>1. Sunk(s) \/ s.index > Len(h)
      BY <1>0, <1>2
    <2>2. Len(s.heap) = Len(h)
      BY <1>5 DEF Rearranged
    <2> QED
      BY <1>0, <1>5, <2>1, <2>2 DEF Sunk
  <1> HIDE DEF s
  <1>6. ASSUME OrderedAbove(h, start), NEW j \in 2 .. Len(s.heap)
        PROVE  Precedes(s.heap[j \div 2], s.heap[j])
    <2>1. OrderedAbove(s.heap, s.index)
      BY <1>3, <1>6 DEF Sinking
    <2>2. CASE j \div 2 # s.index
      BY <2>1, <2>2 DEF OrderedAbove
    <2>3. CASE j \div 2 = s.index
      <3>1. s.heap \in Seq(Event) /\ Distinct(s.heap) /\ Len(s.heap) \in Nat /\ j <= Len(s.heap) /\ j >= 2 * s.index
        BY <1>0, <1>5, <2>3 DEF Rearranged
      <3>2. 2 * s.index <= Len(s.heap)
        BY <1>5, <3>1
      <3> DEFINE c == Child(s.heap, s.index)
      <3>3. c \in 2 .. Len(s.heap) /\ (j = c \/ Precedes(s.heap[c], s.heap[j]))
        BY <1>5, <2>3, <3>1, <3>2, ChildIsFirst
      <3>4. Precedes(s.heap[s.index], s.heap[c])
        BY <1>4, <1>5, <3>1, <3>2 DEF Sunk
      <3> HIDE DEF c
      <3>5. s.index \in 1 .. Len(s.heap) /\ c \in 1 .. Len(s.heap) /\ j \in 1 .. Len(s.heap)
        BY <1>5, <3>1, <3>2, <3>3
      <3>6. s.heap[s.index] \in Event /\ s.heap[c] \in Event /\ s.heap[j] \in Event
        BY <3>1, <3>5, ElementOfSeq
      <3> QED
        BY <2>3, <3>3, <3>4, <3>6, PrecedesOrder
    <2> QED
      BY <2>2, <2>3
  <1> QED
    BY <1>3, <1>5, <1>6 DEF Ordered

-----------------------------------------------------------------------------
\* The events of a sequence are its items.
LEMMA RangeItems ==
  ASSUME NEW h \in Seq(Event)
  PROVE  /\ \A e : e \in Range(h) <=> \E i \in 1 .. Len(h) : e = h[i]
         /\ Range(h) \subseteq Event
         /\ Heap!ToSet(h) = Range(h)
         /\ DOMAIN h = 1 .. Len(h)
  <1>1. DOMAIN h = 1 .. Len(h) /\ \A i \in 1 .. Len(h) : h[i] \in Event
    BY LenProperties, ElementOfSeq
  <1> QED
    BY <1>1 DEF Range, Heap!ToSet

\* A heap from which item i was removed.
LEMMA WithoutItem ==
  ASSUME NEW h \in Seq(Event), Distinct(h), NEW i \in 1 .. Len(h)
  PROVE  /\ Heap!Without(h, i) \in Seq(Event)
         /\ Len(Heap!Without(h, i)) = Len(h) - 1
         /\ Distinct(Heap!Without(h, i))
         /\ Range(Heap!Without(h, i)) = Range(h) \ {h[i]}
         /\ Ordered(h) /\ ~(i > 1 /\ Precedes(h[Len(h)], h[i \div 2])) => Ordered(Heap!Without(h, i))
  <1> DEFINE L == Len(h)
             x == Heap!Exch(h, i, L)
             y == SubSeq(x, 1, L - 1)
  <1>1. L \in Nat /\ L \in 1 .. L /\ i \in Nat /\ i >= 1 /\ \A k \in 1 .. L : h[k] \in Event
    BY LenProperties, ElementOfSeq
  <1>2. x \in Seq(Event) /\ Len(x) = L /\ \A k \in 1 .. L : x[k] = IF k = i THEN h[L] ELSE IF k = L THEN h[i] ELSE h[k]
    <2>1. i \in 1 .. Len(h) /\ L \in 1 .. Len(h)
      BY <1>1
    <2> HIDE DEF L
    <2>2. /\ x \in Seq(Event) /\ Len(x) = Len(h)
          /\ \A k \in 1 .. Len(h) : x[k] = IF k = i THEN h[L] ELSE IF k = L THEN h[i] ELSE h[k]
      <3>1. Exchanged(x, h, i, L)
        BY <2>1, ExchSeq
      <3> HIDE DEF x
      <3> QED
        BY <3>1 DEF Exchanged
    <2> QED
      BY <2>2 DEF L
  <1>3. y \in Seq(Event) /\ Len(y) = L - 1 /\ \A k \in 1 .. L - 1 : y[k] = x[k]
    <2>1. \A k \in 1 .. L - 1 : x[k] \in Event
      BY <1>1, <1>2, ElementOfSeq
    <2> HIDE DEF x
    <2> QED
      BY <1>1, <1>2, <2>1, SubSeqProperties
  <1>4. \A k \in 1 .. L - 1 : y[k] = IF k = i THEN h[L] ELSE h[k]
    BY <1>1, <1>2, <1>3
  <1> HIDE DEF L, x, y
  <1>5. Distinct(y)
    BY <1>1, <1>3, <1>4 DEF Distinct, L
  <1>6. \A e : e \in Range(y) <=> e \in Range(h) \ {h[i]}
    <2>1. ASSUME NEW k \in 1 .. L - 1 PROVE y[k] \in Range(h) \ {h[i]}
      <3>1. CASE k = i
        <4>1. L # i /\ L \in 1 .. Len(h)
          BY <1>1, <2>1, <3>1 DEF L
        <4>2. h[L] # h[i]
          BY <4>1 DEF Distinct
        <4> QED
          BY <1>4, <3>1, <4>1, <4>2, RangeItems
      <3>2. CASE k # i
        <4>1. k \in 1 .. Len(h)
          BY <1>1 DEF L
        <4>2. h[k] # h[i]
          BY <3>2, <4>1 DEF Distinct
        <4> QED
          BY <1>4, <3>2, <4>1, <4>2, RangeItems
      <3> QED
        BY <3>1, <3>2
    <2>2. ASSUME NEW k \in 1 .. L, k # i PROVE \E j \in 1 .. L - 1 : y[j] = h[k]
      <3>1. CASE k = L
        <4>1. i \in 1 .. L - 1
          BY <1>1, <2>2, <3>1 DEF L
        <4> QED
          BY <1>4, <3>1, <4>1
      <3>2. CASE k # L
        <4>1. k \in 1 .. L - 1
          BY <1>1, <3>2
        <4> QED
          BY <1>4, <2>2, <4>1
      <3> QED
        BY <3>1, <3>2
    <2>3. \A e : e \in Range(y) <=> \E k \in 1 .. L - 1 : e = y[k]
      BY <1>3, RangeItems
    <2>4. \A e : e \in Range(h) <=> \E k \in 1 .. L : e = h[k]
      BY RangeItems DEF L
    <2>5. ASSUME NEW e \in Range(h) \ {h[i]} PROVE e \in Range(y)
      <3>1. PICK k \in 1 .. L : e = h[k]
        BY <2>4
      <3> QED
        BY <2>2, <2>3, <3>1
    <2> QED
      BY <2>1, <2>3, <2>5
  <1>7. ASSUME Ordered(h), ~(i > 1 /\ Precedes(h[Len(h)], h[i \div 2]))
        PROVE  OrderedAbove(y, i)
    <2>1. ASSUME NEW j \in 2 .. L - 1, j \div 2 # i
          PROVE  Precedes(y[j \div 2], y[j])
      <3>1. j \div 2 \in 1 .. L - 1 /\ j \div 2 < j /\ j \in 2 .. L /\ j \in 1 .. L - 1
        BY <1>1
      <3>2. Precedes(h[j \div 2], h[j])
        BY <1>7, <3>1 DEF Ordered, L
      <3>3. y[j \div 2] = h[j \div 2]
        BY <1>4, <2>1, <3>1
      <3>4. CASE j # i
        BY <1>4, <3>1, <3>2, <3>3, <3>4
      <3>5. CASE j = i
        <4>1. ~Precedes(h[L], h[j \div 2])
          BY <1>7, <3>1, <3>5 DEF L
        <4>2. L # j \div 2 /\ L \in 1 .. Len(h) /\ j \div 2 \in 1 .. Len(h)
          BY <1>1, <3>1 DEF L
        <4>3. h[L].uid # h[j \div 2].uid
          BY <4>2 DEF Distinct
        <4>4. Precedes(h[j \div 2], h[L])
          BY <1>1, <4>1, <4>2, <4>3, PrecedesOrder DEF L
        <4>5. y[j] = h[L]
          BY <1>4, <3>1, <3>5
        <4> QED
          BY <3>3, <4>4, <4>5
      <3> QED
        BY <3>4, <3>5
    <2>2. ASSUME NEW j \in 2 .. L - 1, j \div 2 = i, i > 1
          PROVE  Precedes(y[i \div 2], y[j])
      <3>1. i \div 2 \in 1 .. L - 1 /\ i \div 2 < i /\ i < j /\ i \in 2 .. L /\ j \in 2 .. L
        BY <1>1, <2>2
      <3>2. Precedes(h[i \div 2], h[i]) /\ Precedes(h[i], h[j])
        BY <1>7, <2>2, <3>1 DEF Ordered, L
      <3>3. y[i \div 2] = h[i \div 2] /\ y[j] = h[j]
        BY <1>4, <3>1
      <3>4. i \div 2 \in 1 .. L /\ j \in 1 .. L /\ i \in 1 .. L
        BY <1>1, <3>1
      <3>5. h[i \div 2] \in Event /\ h[j] \in Event /\ h[i] \in Event
        BY <1>1, <3>4
      <3>6. Precedes(h[i \div 2], h[j])
        BY <3>2, <3>5, PrecedesOrder
      <3> QED
        BY <3>3, <3>6
    <2> QED
      BY <1>3, <2>1, <2>2 DEF OrderedAbove
  <1>8. Heap!Without(h, i) = Heap!TopDown(y, i)
    BY DEF Heap!Without, y, x, L
  <1>9. Rearranged(y, Heap!TopDown(y, i)) /\ (OrderedAbove(y, i) => Ordered(Heap!TopDown(y, i)))
    BY <1>1, <1>3, <1>5, TopDownOrders
  <1> QED
    BY <1>3, <1>6, <1>7, <1>8, <1>9 DEF Rearranged, L

\* Inserting adds the event, and keeps the heap in order.
LEMMA InsertItem ==
  ASSUME NEW h \in Seq(Event), Distinct(h), NEW e \in Event, \A f \in Range(h) : f.uid # e.uid
  PROVE  /\ Heap!InsertOne(h, e) \in Seq(Event)
         /\ Len(Heap!InsertOne(h, e)) = Len(h) + 1
         /\ Distinct(Heap!InsertOne(h, e))
         /\ Range(Heap!InsertOne(h, e)) = Range(h) \cup {e}
         /\ Ordered(h) => Ordered(Heap!InsertOne(h, e))
  <1> DEFINE L == Len(h)
             x == Append(h, e)
  <1>1. L \in Nat
    BY LenProperties
  <1>2. x \in Seq(Event) /\ Len(x) = L + 1 /\ (\A k \in 1 .. L : x[k] = h[k]) /\ x[L + 1] = e
    BY AppendProperties
  <1>3. \A k \in 1 .. L : h[k].uid # e.uid
    BY RangeItems
  <1> HIDE DEF x
  <1>4. Distinct(x)
    <2> SUFFICES ASSUME NEW i \in 1 .. L + 1, NEW j \in 1 .. L + 1, x[i].uid = x[j].uid
                 PROVE  i = j
      BY <1>2 DEF Distinct
    <2>1. CASE i \in 1 .. L /\ j \in 1 .. L
      BY <1>2, <2>1 DEF Distinct
    <2>2. CASE i = L + 1 /\ j \in 1 .. L
      BY <1>2, <1>3, <2>2
    <2>3. CASE i \in 1 .. L /\ j = L + 1
      BY <1>2, <1>3, <2>3
    <2>4. CASE i = L + 1 /\ j = L + 1
      BY <2>4
    <2> QED
      BY <1>1, <2>1, <2>2, <2>3, <2>4
  <1>5. Range(x) = Range(h) \cup {e}
    <2>1. \A f : f \in Range(x) <=> \E k \in 1 .. L + 1 : f = x[k]
      BY <1>2, RangeItems
    <2>2. \A f : f \in Range(h) <=> \E k \in 1 .. L : f = h[k]
      BY RangeItems
    <2>3. \A k \in 1 .. L + 1 : k \in 1 .. L \/ k = L + 1
      BY <1>1
    <2>4. L + 1 \in 1 .. L + 1 /\ \A k \in 1 .. L : k \in 1 .. L + 1
      BY <1>1
    <2> QED
      BY <1>2, <2>1, <2>2, <2>3, <2>4
  <1>6. ASSUME Ordered(h)
        PROVE  OrderedBelow(x, Len(x))
    <2>1. ASSUME NEW j \in 2 .. L + 1, j # L + 1
          PROVE  Precedes(x[j \div 2], x[j])
      <3>1. j \in 2 .. L /\ j \div 2 \in 1 .. L /\ j \in 1 .. L
        BY <1>1, <2>1
      <3> QED
        BY <1>2, <1>6, <3>1 DEF Ordered
    <2>2. \A j \in 2 .. L + 1 : j \div 2 # L + 1
      BY <1>1
    <2> QED
      BY <1>2, <2>1, <2>2 DEF OrderedBelow
  <1>7. Heap!InsertOne(h, e) = Heap!BottomUp(x)
    BY DEF Heap!InsertOne, x
  <1>8. x # <<>>
    BY <1>1, <1>2, EmptySeq
  <1>9. Rearranged(x, Heap!BottomUp(x)) /\ (OrderedBelow(x, Len(x)) => Ordered(Heap!BottomUp(x)))
    BY <1>2, <1>4, <1>8, BottomUpOrders
  <1> QED
    BY <1>2, <1>5, <1>6, <1>7, <1>9 DEF Rearranged

\* The root of a heap in order is the earliest event.
LEMMA RootIsFirst ==
  ASSUME NEW h \in Seq(Event), Distinct(h), Ordered(h), h # <<>>
  PROVE  IsFirst(h[1], Range(h))
  <1>1. Len(h) \in Nat /\ 1 \in 1 .. Len(h) /\ \A k \in 1 .. Len(h) : h[k] \in Event
    BY LenProperties, EmptySeq, ElementOfSeq
  <1> DEFINE Bad == {k \in 2 .. Len(h) : ~Precedes(h[1], h[k])}
  <1>2. Bad = {}
    <2> SUFFICES ASSUME Bad # {} PROVE FALSE
      OBVIOUS
    <2>1. Bad \in SUBSET Nat
      OBVIOUS
    <2>2. PICK k \in Bad : \A j \in Bad : k <= j
      <3> HIDE DEF Bad
      <3> QED
        BY <2>1, NatMin
    <2>3. k \div 2 \in 1 .. Len(h) /\ k \div 2 < k /\ k \in 1 .. Len(h)
      BY <1>1
    <2>4. Precedes(h[k \div 2], h[k])
      BY DEF Ordered
    <2>5. k \div 2 # 1
      BY <2>4
    <2>6. Precedes(h[1], h[k \div 2])
      BY <1>1, <2>2, <2>3, <2>5
    <2> QED
      BY <1>1, <2>3, <2>4, <2>6, PrecedesOrder
  <1>3. \A k \in 1 .. Len(h) : k = 1 \/ Precedes(h[1], h[k])
    BY <1>1, <1>2
  <1> QED
    BY <1>1, <1>3, RangeItems DEF IsFirst

-----------------------------------------------------------------------------
\* What the simulator holds while the events of h change over to a new heap.
Changing(h) ==
    {s \in [old : Seq(Event), new : Seq(Event)] :
        /\ Distinct(s.old) /\ Distinct(s.new) /\ Ordered(s.new)
        /\ Range(s.old) \cup Range(s.new) = Range(h)
        /\ \A a \in Range(s.old) : \A b \in Range(s.new) : a.uid # b.uid}

\* An event changes over: none is lost, and the new heap stays in order.
LEMMA ChangeOverCloses ==
  ASSUME NEW h \in Seq(Event), NEW s \in Changing(h), s.old # <<>>
  PROVE  /\ Heap!ChangeOver(s) \in Changing(h)
         /\ Len(Heap!ChangeOver(s).old) = Len(s.old) - 1
  <1> DEFINE old == Heap!Without(s.old, 1)
             new == Heap!InsertOne(s.new, s.old[1])
             e == s.old[1]
  <1>1. /\ s.old \in Seq(Event) /\ s.new \in Seq(Event) /\ Distinct(s.old) /\ Distinct(s.new)
        /\ Ordered(s.new) /\ Range(s.old) \cup Range(s.new) = Range(h)
        /\ \A a \in Range(s.old) : \A b \in Range(s.new) : a.uid # b.uid
    BY DEF Changing
  <1>2. 1 \in 1 .. Len(s.old)
    BY <1>1, LenProperties, EmptySeq
  <1>3. e \in Range(s.old) /\ e \in Event
    BY <1>1, <1>2, RangeItems
  <1>4. \A f \in Range(s.new) : f.uid # e.uid
    BY <1>1, <1>3
  <1>5. /\ old \in Seq(Event) /\ Len(old) = Len(s.old) - 1 /\ Distinct(old)
        /\ Range(old) = Range(s.old) \ {e}
    BY <1>1, <1>2, WithoutItem
  <1>6. /\ new \in Seq(Event) /\ Distinct(new) /\ Ordered(new)
        /\ Range(new) = Range(s.new) \cup {e}
    BY <1>1, <1>3, <1>4, InsertItem
  <1>7. \A a \in Range(s.old) : a.uid = e.uid => a = e
    <2> SUFFICES ASSUME NEW a \in Range(s.old), a.uid = e.uid PROVE a = e
      OBVIOUS
    <2>1. PICK k \in 1 .. Len(s.old) : a = s.old[k]
      BY <1>1, RangeItems
    <2>2. k = 1
      BY <1>2, <1>1, <2>1 DEF Distinct
    <2> QED
      BY <2>1, <2>2
  <1>8. Heap!ChangeOver(s) = [old |-> old, new |-> new]
    BY DEF Heap!ChangeOver
  <1> HIDE DEF old, new, e
  <1>9. \A a \in Range(old) : \A b \in Range(new) : a.uid # b.uid
    BY <1>1, <1>5, <1>6, <1>7
  <1>10. Range(old) \cup Range(new) = Range(h)
    BY <1>1, <1>3, <1>5, <1>6
  <1> QED
    BY <1>5, <1>6, <1>8, <1>9, <1>10 DEF Changing

\* The heap the simulator changes to has all the events, in order.
LEMMA HeapChangesOver ==
  ASSUME heap \in Seq(Event), Distinct(heap), Heap!SetScheduler
  PROVE  heap' \in Seq(Event) /\ Distinct(heap') /\ Ordered(heap') /\ Range(heap') = Range(heap)
  <1> DEFINE o == [old |-> heap, new |-> <<>>]
             Body(g) == [n \in 0 .. Len(heap) |-> IF n = 0 THEN o ELSE Heap!ChangeOver(g[n - 1])]
             g == CHOOSE f : f = Body(f)
             S == Changing(heap)
             Over(s) == IF s.old = <<>> THEN s ELSE Heap!ChangeOver(s)
             T == [n \in 1 .. Len(heap) |-> [s \in S |-> Over(s)]]
  <1>0. Len(heap) \in Nat /\ o \in S /\ T \in Bodies(Len(heap), S)
    <2>1. Len(heap) \in Nat
      BY LenProperties
    <2>2. <<>> \in Seq(Event) /\ Distinct(<<>>) /\ Ordered(<<>>) /\ Range(<<>>) = {}
      BY EmptySeq DEF Distinct, Ordered, Range
    <2>3. o \in S
      <3> HIDE DEF Distinct, Ordered
      <3> QED
        BY <2>2 DEF Changing
    <2>4. \A s \in S : Over(s) \in S
      BY ChangeOverCloses
    <2>5. T \in Bodies(Len(heap), S)
      BY <2>4 DEF Bodies
    <2> QED
      BY <2>1, <2>3, <2>5
  <1> HIDE DEF S
  <1>1. PICK f : IsLoop(f, T, o, Len(heap), S)
    <2> HIDE DEF T, o
    <2> QED
      BY <1>0, LoopExists
  <1>2. \A n \in 1 .. Len(heap) : f[n - 1] \in S /\ f[n] = Over(f[n - 1])
    <2>1. ASSUME NEW n \in 1 .. Len(heap)
          PROVE  f[n - 1] \in S /\ f[n] = Over(f[n - 1])
      <3>1. f[n - 1] \in S
        BY <1>0, <1>1 DEF IsLoop
      <3>2. T[n][f[n - 1]] = Over(f[n - 1])
        BY <3>1
      <3> QED
        BY <1>1, <3>1, <3>2 DEF IsLoop
    <2> QED
      BY <2>1
  <1> HIDE DEF T
  <1>3. \A n \in 0 .. Len(heap) : Len(f[n].old) = Len(heap) - n
    <2> DEFINE P == {n \in 0 .. Len(heap) : Len(f[n].old) = Len(heap) - n}
    <2>1. 0 \in P
      BY <1>0, <1>1 DEF IsLoop
    <2>2. ASSUME NEW n \in 1 .. Len(heap), n - 1 \in P PROVE n \in P
      <3>1. Len(f[n - 1].old) = Len(heap) - (n - 1)
        BY <2>2
      <3>2. f[n - 1].old # <<>>
        BY <1>0, <3>1, EmptySeq
      <3>3. Len(Heap!ChangeOver(f[n - 1]).old) = Len(f[n - 1].old) - 1
        BY <1>2, <3>2, ChangeOverCloses DEF S
      <3> QED
        BY <1>0, <1>2, <3>1, <3>2, <3>3
    <2> HIDE DEF P
    <2>3. \A n \in 0 .. Len(heap) : n \in P
      BY <1>0, <2>1, <2>2, Induction
    <2> QED
      BY <2>3 DEF P
  <1>4. \A n \in 1 .. Len(heap) : f[n] = Heap!ChangeOver(f[n - 1])
    <2> SUFFICES ASSUME NEW n \in 1 .. Len(heap)
                 PROVE  f[n] = Heap!ChangeOver(f[n - 1])
      OBVIOUS
    <2>0. n - 1 \in 0 .. Len(heap)
      BY <1>0
    <2>1. Len(f[n - 1].old) = Len(heap) - (n - 1)
      BY <1>3, <2>0
    <2>2. f[n - 1].old # <<>>
      BY <1>0, <2>1, EmptySeq
    <2> QED
      BY <1>2, <2>2
  <1>5. f = Body(f)
    <2>1. f[0] = o /\ f = [n \in 0 .. Len(heap) |-> f[n]]
      BY <1>1 DEF IsLoop
    <2> HIDE DEF o
    <2> QED
      BY <1>0, <1>4, <2>1
  <1>6. g = Body(g)
    <2> HIDE DEF Body
    <2> QED
      BY <1>5
  <1>7. heap' = g[Len(heap)].new
    BY DEF Heap!SetScheduler
  <1> HIDE DEF g
  <1>8. /\ g[0] = o /\ (\A n \in 1 .. Len(heap) : g[n] = Heap!ChangeOver(g[n - 1]))
    BY <1>0, <1>6
  <1>9. \A n \in 0 .. Len(heap) : g[n] \in S /\ Len(g[n].old) = Len(heap) - n
    <2> DEFINE P == {n \in 0 .. Len(heap) : g[n] \in S /\ Len(g[n].old) = Len(heap) - n}
    <2>1. 0 \in P
      BY <1>0, <1>8
    <2>2. ASSUME NEW n \in 1 .. Len(heap), n - 1 \in P PROVE n \in P
      <3>1. g[n - 1] \in Changing(heap) /\ Len(g[n - 1].old) = Len(heap) - (n - 1)
        BY <2>2 DEF S
      <3>2. g[n - 1].old # <<>>
        BY <1>0, <3>1, EmptySeq
      <3>3. Heap!ChangeOver(g[n - 1]) \in Changing(heap)
         /\ Len(Heap!ChangeOver(g[n - 1]).old) = Len(g[n - 1].old) - 1
        BY <3>1, <3>2, ChangeOverCloses
      <3> QED
        BY <1>0, <1>8, <3>1, <3>3 DEF S
    <2> HIDE DEF P
    <2>3. \A n \in 0 .. Len(heap) : n \in P
      BY <1>0, <2>1, <2>2, Induction
    <2> QED
      BY <2>3 DEF P
  <1> DEFINE s == g[Len(heap)]
  <1>10. s \in Changing(heap) /\ Len(s.old) = 0
    BY <1>0, <1>9 DEF S
  <1> HIDE DEF s
  <1>11. s.old = <<>>
    BY <1>10, EmptySeq DEF Changing
  <1>12. Range(s.old) = {}
    BY <1>11 DEF Range
  <1> QED
    BY <1>7, <1>10, <1>12 DEF Changing, s

-----------------------------------------------------------------------------
\* The inductive invariant of the heap.
HeapInv ==
    /\ heap \in Seq(Event) /\ misplaced \in BOOLEAN /\ heapTs \in Nat /\ heapUid \in Nat
    /\ Distinct(heap)
    /\ \A e \in Range(heap) : e.uid < heapUid
    /\ ~misplaced => Ordered(heap)

\* Insert is the agenda's Insert.
LEMMA HeapInsertStep ==
  ASSUME HeapInv, Heap!Insert
  PROVE  HeapInv' /\ Heap!Agenda!Insert
  <1> USE DEF HeapInv
  <1>1. PICK d \in HeapDelays : heap' = Heap!InsertOne(heap, [ts |-> heapTs + d, uid |-> heapUid])
    BY DEF Heap!Insert
  <1> DEFINE e == [ts |-> heapTs + d, uid |-> heapUid]
  <1>2. e \in Event
    BY EventLoopAssumption DEF EventLoopAssumption, Event
  <1>3. \A f \in Range(heap) : f.uid # e.uid
    <2>1. \A f \in Range(heap) : f.uid \in Nat
      BY RangeItems DEF Event
    <2> QED
      BY <2>1
  <1> HIDE DEF e
  <1>4. /\ heap' \in Seq(Event) /\ Distinct(heap')
        /\ Range(heap') = Range(heap) \cup {e} /\ (Ordered(heap) => Ordered(heap'))
    BY <1>1, <1>2, <1>3, InsertItem DEF e
  <1>5. heapUid < SchedulerMaxUid /\ heapUid' = heapUid + 1 /\ heapTs' = heapTs /\ misplaced' = misplaced
    BY DEF Heap!Insert
  <1>6. \A f \in Range(heap') : f.uid < heapUid'
    <2>1. \A f \in Range(heap') : f.uid \in Nat
      BY <1>4, RangeItems DEF Event
    <2>2. e.uid = heapUid
      BY DEF e
    <2> QED
      BY <1>4, <1>5, <2>1, <2>2
  <1>7. Heap!ToSet(heap) = Range(heap) /\ Heap!ToSet(heap') = Range(heap')
    BY <1>4, RangeItems
  <1>8. HeapInv'
    BY <1>4, <1>5, <1>6
  <1> QED
    BY <1>4, <1>5, <1>7, <1>8 DEF Heap!Agenda!Insert, e

\* RemoveNext gives out the earliest event, unless one was misplaced.
LEMMA HeapRemoveNextStep ==
  ASSUME HeapInv, Heap!RemoveNext
  PROVE  HeapInv' /\ (Heap!Agenda!RemoveNext \/ Heap!GiveAnother)
  <1> USE DEF HeapInv
  <1>1. /\ heap # <<>> /\ heap' = Heap!Without(heap, 1) /\ heapTs' = heap[1].ts
        /\ heapUid' = heapUid /\ misplaced' = misplaced
    BY DEF Heap!RemoveNext
  <1>2. 1 \in 1 .. Len(heap)
    BY <1>1, LenProperties, EmptySeq
  <1>3. /\ heap' \in Seq(Event) /\ Distinct(heap') /\ Range(heap') = Range(heap) \ {heap[1]}
        /\ (Ordered(heap) => Ordered(heap'))
    BY <1>1, <1>2, WithoutItem
  <1>4. heap[1] \in Range(heap) /\ heap[1] \in Event
    BY <1>2, RangeItems
  <1>5. HeapInv'
    BY <1>1, <1>3, <1>4 DEF Event
  <1>6. Heap!ToSet(heap) = Range(heap) /\ Heap!ToSet(heap') = Range(heap')
    BY <1>3, RangeItems
  <1>7. CASE misplaced
    <2>1. Heap!GiveAnother
      <3> HIDE DEF HeapInv
      <3> QED
        BY <1>1, <1>3, <1>4, <1>6, <1>7 DEF Heap!GiveAnother
    <2> QED
      BY <1>5, <2>1
  <1>8. CASE ~misplaced
    <2>1. IsFirst(heap[1], Range(heap))
      BY <1>1, <1>8, RootIsFirst
    <2>2. Heap!Agenda!IsFirst(heap[1], Range(heap))
      BY <2>1 DEF IsFirst, Heap!Agenda!IsFirst, Precedes, Heap!Agenda!Precedes
    <2>3. Heap!Agenda!RemoveNext
      <3> HIDE DEF HeapInv
      <3> QED
        BY <1>1, <1>3, <1>4, <1>6, <2>2 DEF Heap!Agenda!RemoveNext
    <2> QED
      BY <1>5, <2>3
  <1> QED
    BY <1>5, <1>7, <1>8

\* RemoveEvent removes that event, and says whether it misplaced another.
LEMMA HeapRemoveEventStep ==
  ASSUME HeapInv, Heap!RemoveEvent
  PROVE  HeapInv' /\ Heap!Agenda!RemoveEvent
  <1> USE DEF HeapInv
  <1>1. PICK i \in DOMAIN heap :
            /\ heap' = Heap!Without(heap, i)
            /\ misplaced' = (misplaced \/ (i > 1 /\ Heap!Precedes(heap[Len(heap)], heap[i \div 2])))
    BY DEF Heap!RemoveEvent
  <1>2. i \in 1 .. Len(heap)
    BY <1>1, RangeItems
  <1>3. heapTs' = heapTs /\ heapUid' = heapUid
    BY DEF Heap!RemoveEvent
  <1>4. /\ heap' \in Seq(Event) /\ Distinct(heap') /\ Range(heap') = Range(heap) \ {heap[i]}
        /\ (Ordered(heap) /\ ~(i > 1 /\ Precedes(heap[Len(heap)], heap[i \div 2])) => Ordered(heap'))
    BY <1>1, <1>2, WithoutItem
  <1>5. misplaced' \in BOOLEAN /\ (~misplaced' => Ordered(heap'))
    BY <1>1, <1>4, HeapKeys
  <1>6. HeapInv'
    BY <1>3, <1>4, <1>5
  <1>7. Heap!ToSet(heap) = Range(heap) /\ Heap!ToSet(heap') = Range(heap') /\ heap[i] \in Range(heap)
    BY <1>2, <1>4, RangeItems
  <1> QED
    BY <1>3, <1>4, <1>6, <1>7 DEF Heap!Agenda!RemoveEvent

\* Changing to a new heap is invisible.
LEMMA HeapSetSchedulerStep ==
  ASSUME HeapInv, Heap!SetScheduler
  PROVE  HeapInv' /\ UNCHANGED <<Heap!ToSet(heap), heapTs, heapUid>>
  <1> USE DEF HeapInv
  <1>1. heap' \in Seq(Event) /\ Distinct(heap') /\ Ordered(heap') /\ Range(heap') = Range(heap)
    BY HeapChangesOver
  <1>2. misplaced' = FALSE /\ heapTs' = heapTs /\ heapUid' = heapUid
    BY DEF Heap!SetScheduler
  <1>3. Heap!ToSet(heap) = Range(heap) /\ Heap!ToSet(heap') = Range(heap')
    BY <1>1, RangeItems
  <1> QED
    BY <1>1, <1>2, <1>3

\* The heap starts empty.
LEMMA HeapInitInv == Heap!Init => HeapInv /\ Heap!Agenda!Init
  <1> SUFFICES ASSUME Heap!Init PROVE HeapInv /\ Heap!Agenda!Init
    OBVIOUS
  <1>1. heap = <<>> /\ heapTs = 0 /\ heapUid = 4 /\ misplaced = FALSE
    BY DEF Heap!Init, Heap!FirstUid
  <1>2. <<>> \in Seq(Event) /\ Distinct(<<>>) /\ Ordered(<<>>) /\ Range(<<>>) = {}
    BY EmptySeq DEF Distinct, Ordered, Range
  <1>3. Heap!ToSet(<<>>) = {}
    BY DEF Heap!ToSet
  <1> QED
    BY <1>1, <1>2, <1>3 DEF HeapInv, Heap!Agenda!Init, Heap!Agenda!FirstUid

\* Every step of the heap is one of the agenda, or of a heap with a misplaced event.
LEMMA HeapNextStep ==
  ASSUME HeapInv, Heap!Next
  PROVE  HeapInv' /\ [Heap!Agenda!Next \/ Heap!GiveAnother]_<<Heap!ToSet(heap), heapTs, heapUid>>
  BY HeapInsertStep, HeapRemoveNextStep, HeapRemoveEventStep, HeapSetSchedulerStep
     DEF Heap!Next, Heap!Agenda!Next

\* The binary heap keeps its promise, whatever the simulator asks of it.
THEOREM HeapKeepsAgenda == EventLoopSpec => HeapIsAgenda
  <1> DEFINE Step == [Heap!Agenda!Next \/ Heap!GiveAnother]_<<Heap!ToSet(heap), heapTs, heapUid>>
  <1>1. EventLoopInit => HeapInv /\ Heap!Agenda!Init
    BY HeapInitInv DEF EventLoopInit
  <1>2. ASSUME HeapInv, [EventLoopNext]_<<scheduler, vars, heapVars, calendarVars>>
        PROVE  HeapInv' /\ Step
    <2>1. CASE UsesHeap
      BY <1>2, <2>1, HeapNextStep DEF UsesHeap
    <2>2. CASE UNCHANGED heapVars
      BY <1>2, <2>2 DEF HeapInv, heapVars
    <2> QED
      BY <1>2, <2>1, <2>2 DEF EventLoopNext, UsesMap, UsesCalendar
  <1> QED
    BY <1>1, <1>2, PTL DEF EventLoopSpec, HeapIsAgenda, Heap!AgendaUnlessMisplaced

-----------------------------------------------------------------------------
\* The calendar queue.

\* What \div and % give.
LEMMA DivisionOf ==
  ASSUME NEW w \in Nat \ {0}, NEW t \in Nat
  PROVE  t = w * (t \div w) + (t % w) /\ t \div w \in Nat /\ t % w \in 0 .. w - 1
  BY SMTT(30)

\* The day an event is due in.
LEMMA DayOf ==
  ASSUME NEW w \in Nat \ {0}, NEW t \in Nat, NEW a \in Nat
  PROVE  t < (a + 1) * w <=> t \div w <= a
  <1> DEFINE q == t \div w
             r == t % w
  <1>1. t = w * q + r /\ q \in Nat /\ r \in 0 .. w - 1
    BY DivisionOf
  <1> HIDE DEF q, r
  <1>2. (a + 1) * w = w * a + w
    BY SMTT(30)
  <1>3. CASE q <= a
    <2>1. w * q <= w * a
      BY <1>1, <1>3, SMTT(30)
    <2>2. w * q \in Nat /\ w * a \in Nat
      BY <1>1
    <2> HIDE DEF q
    <2> QED
      BY <1>1, <1>2, <1>3, <2>1, <2>2 DEF q
  <1>4. CASE ~(q <= a)
    <2>1. w * q >= w * (a + 1) /\ w * (a + 1) = (a + 1) * w
      BY <1>1, <1>4, SMTT(30)
    <2>2. w * q \in Nat /\ w * (a + 1) \in Nat
      BY <1>1
    <2> QED
      BY <1>1, <1>4, <2>1, <2>2 DEF q
  <1> QED
    BY <1>3, <1>4

\* A time before the end of a day belongs to that day or to an earlier one.
LEMMA DaysInOrder ==
  ASSUME NEW w \in Nat \ {0}, NEW s \in Nat, NEW t \in Nat
  PROVE  /\ s <= t => s \div w <= t \div w
         /\ s \div w < t \div w => s < t
  <1>1. s \div w \in Nat /\ t \div w \in Nat
    BY DivisionOf
  <1>2. t < ((t \div w) + 1) * w
    BY <1>1, DayOf
  <1>3. ((t \div w) + 1) * w \in Nat
    BY <1>1
  <1>4. s <= t => s \div w <= t \div w
    BY <1>1, <1>2, <1>3, DayOf
  <1>5. t <= s => t \div w <= s \div w
    <2>1. s < ((s \div w) + 1) * w /\ ((s \div w) + 1) * w \in Nat
      BY <1>1, DayOf
    <2> QED
      BY <1>1, <2>1, DayOf
  <1> QED
    BY <1>1, <1>4, <1>5

\* The same bucket, less than a year apart: the same day.
LEMMA SameDay ==
  ASSUME NEW n \in Nat \ {0}, NEW a \in Nat, NEW b \in Nat, a <= b, b - a < n, a % n = b % n
  PROVE  a = b
  <1>1. a = n * (a \div n) + (a % n) /\ b = n * (b \div n) + (b % n)
        /\ a \div n \in Nat /\ b \div n \in Nat /\ a % n \in 0 .. n - 1
    BY DivisionOf
  <1> DEFINE qa == a \div n
             qb == b \div n
             r == a % n
  <1>2. a = n * qa + r /\ b = n * qb + r /\ qa \in Nat /\ qb \in Nat /\ r \in Nat
    BY <1>1
  <1> HIDE DEF qa, qb, r
  <1>3. n * qa \in Nat /\ n * qb \in Nat /\ n * qb - n * qa = b - a
    BY <1>2
  <1>4. CASE qa = qb
    BY <1>2, <1>4
  <1>5. CASE qb > qa
    <2>1. n * qb >= n * (qa + 1) /\ n * (qa + 1) = n * qa + n
      BY <1>2, <1>5, SMTT(30)
    <2> QED
      BY <1>3, <2>1
  <1>6. CASE qb < qa
    <2>1. n * qa >= n * (qb + 1) /\ n * (qb + 1) = n * qb + n
      BY <1>2, <1>6, SMTT(30)
    <2> QED
      BY <1>3, <2>1
  <1> QED
    BY <1>2, <1>4, <1>5, <1>6

\* The days of one year are in buckets of their own.
LEMMA BucketAfter ==
  ASSUME NEW n \in Nat \ {0}, NEW q \in Nat, NEW k \in Nat
  PROVE  ((q % n) + k) % n = (q + k) % n /\ (q + k) % n \in 0 .. n - 1
  <1> DEFINE d == q \div n
             r == q % n
             x == r + k
             e == x \div n
             m == x % n
  <1>1. q = n * d + r /\ d \in Nat /\ r \in 0 .. n - 1
    BY DivisionOf
  <1> HIDE DEF d, r
  <1>2. x \in Nat
    BY <1>1
  <1> HIDE DEF x
  <1>3. x = n * e + m /\ e \in Nat /\ m \in 0 .. n - 1
    BY <1>2, DivisionOf
  <1> HIDE DEF e, m
  <1>4. q + k = n * (d + e) + m
    <2>1. n * (d + e) = n * d + n * e
      BY <1>1, <1>3
    <2> QED
      BY <1>1, <1>3, <2>1 DEF x
  <1>5. (n * (d + e) + m) % n = m
    <2> DEFINE f == d + e
    <2>1. f \in Nat
      BY <1>1, <1>3
    <2> HIDE DEF f
    <2>2. (n * f + m) % n = m
      BY <1>3, <2>1, SMTT(30)
    <2> QED
      BY <2>2 DEF f
  <1> QED
    BY <1>3, <1>4, <1>5 DEF x, m, r

-----------------------------------------------------------------------------
\* x is s with e inserted before its i-th item.
Inserted(x, s, i, e) ==
    /\ x \in Seq(Event) /\ Len(x) = Len(s) + 1
    /\ \A k \in 1 .. Len(s) + 1 : x[k] = IF k < i THEN s[k] ELSE IF k = i THEN e ELSE s[k - 1]

\* What InsertAt returns.
LEMMA InsertedAt ==
  ASSUME NEW s \in Seq(Event), NEW i \in 1 .. Len(s) + 1, NEW e \in Event
  PROVE  Inserted(Calendar!InsertAt(s, i, e), s, i, e)
  <1> DEFINE L == Len(s)
             p == SubSeq(s, 1, i - 1)
             q == SubSeq(s, i, L)
             x == p \o <<e>>
  <1>1. L \in Nat /\ i \in Nat /\ i >= 1 /\ i <= L + 1 /\ \A k \in 1 .. L : s[k] \in Event
    BY LenProperties, ElementOfSeq
  <1>2. p \in Seq(Event) /\ Len(p) = i - 1 /\ \A k \in 1 .. i - 1 : p[k] = s[k]
    <2>1. \A k \in 1 .. i - 1 : s[k] \in Event
      BY <1>1
    <2> QED
      BY <1>1, <2>1, SubSeqProperties
  <1>3. q \in Seq(Event) /\ Len(q) = L - i + 1 /\ \A k \in 1 .. L - i + 1 : q[k] = s[i + k - 1]
    <2>1. \A k \in i .. L : s[k] \in Event
      BY <1>1
    <2> QED
      BY <1>1, <2>1, SubSeqProperties
  <1>4. <<e>> \in Seq(Event) /\ Len(<<e>>) = 1 /\ <<e>>[1] = e
    OBVIOUS
  <1> HIDE DEF p, q, L
  <1>5. x \in Seq(Event) /\ Len(x) = i /\ \A k \in 1 .. i : x[k] = IF k < i THEN s[k] ELSE e
    <2>1. x \in Seq(Event) /\ Len(x) = Len(p) + Len(<<e>>)
          /\ \A k \in 1 .. Len(p) + Len(<<e>>) : x[k] = IF k <= Len(p) THEN p[k] ELSE <<e>>[k - Len(p)]
      BY <1>2, <1>4, ConcatProperties
    <2> QED
      BY <1>1, <1>2, <1>4, <2>1
  <1> HIDE DEF x
  <1>6. /\ x \o q \in Seq(Event) /\ Len(x \o q) = L + 1
        /\ \A k \in 1 .. L + 1 : (x \o q)[k] = IF k <= i THEN x[k] ELSE q[k - i]
    <2>1. x \o q \in Seq(Event) /\ Len(x \o q) = Len(x) + Len(q)
          /\ \A k \in 1 .. Len(x) + Len(q) : (x \o q)[k] = IF k <= Len(x) THEN x[k] ELSE q[k - Len(x)]
      BY <1>3, <1>5, ConcatProperties
    <2>2. Len(x) = i /\ Len(x) + Len(q) = L + 1
      BY <1>1, <1>3, <1>5
    <2> HIDE DEF x
    <2> QED
      BY <2>1, <2>2
  <1>7. Calendar!InsertAt(s, i, e) = x \o q
    BY DEF Calendar!InsertAt, x, p, q, L
  <1>8. \A k \in 1 .. L + 1 : (x \o q)[k] = IF k < i THEN s[k] ELSE IF k = i THEN e ELSE s[k - 1]
    <2> SUFFICES ASSUME NEW k \in 1 .. L + 1
                 PROVE  (x \o q)[k] = IF k < i THEN s[k] ELSE IF k = i THEN e ELSE s[k - 1]
      OBVIOUS
    <2>1. CASE k <= i
      BY <1>1, <1>5, <1>6, <2>1
    <2>2. CASE k > i
      <3> DEFINE j == k - i
      <3>1. j \in 1 .. L - i + 1 /\ i + j - 1 = k - 1
        BY <1>1, <2>2
      <3>2. q[j] = s[i + j - 1]
        BY <1>3, <3>1
      <3>3. (x \o q)[k] = q[j]
        BY <1>1, <1>6, <2>2
      <3> HIDE DEF j
      <3> QED
        BY <1>1, <2>2, <3>1, <3>2, <3>3
    <2>3. k <= i \/ k > i
      BY <1>1
    <2> QED
      BY <2>1, <2>2, <2>3
  <1> QED
    BY <1>6, <1>7, <1>8 DEF L, Inserted

\* What RemoveAt returns.
LEMMA RemovedAt ==
  ASSUME NEW s \in Seq(Event), NEW i \in 1 .. Len(s)
  PROVE  /\ Calendar!RemoveAt(s, i) \in Seq(Event)
         /\ Len(Calendar!RemoveAt(s, i)) = Len(s) - 1
         /\ \A k \in 1 .. Len(s) - 1 :
               Calendar!RemoveAt(s, i)[k] = IF k < i THEN s[k] ELSE s[k + 1]
  <1> DEFINE L == Len(s)
             p == SubSeq(s, 1, i - 1)
             q == SubSeq(s, i + 1, L)
  <1>1. L \in Nat /\ i \in Nat /\ i >= 1 /\ i <= L /\ \A k \in 1 .. L : s[k] \in Event
    BY LenProperties, ElementOfSeq
  <1>2. p \in Seq(Event) /\ Len(p) = i - 1 /\ \A k \in 1 .. i - 1 : p[k] = s[k]
    <2>1. \A k \in 1 .. i - 1 : s[k] \in Event
      BY <1>1
    <2> QED
      BY <1>1, <2>1, SubSeqProperties
  <1>3. q \in Seq(Event) /\ Len(q) = L - i /\ \A k \in 1 .. L - i : q[k] = s[i + k]
    <2>1. \A k \in i + 1 .. L : s[k] \in Event
      BY <1>1
    <2>2. \A k \in 1 .. L - (i + 1) + 1 : q[k] = s[(i + 1) + k - 1]
      BY <1>1, <2>1, SubSeqProperties
    <2>3. q \in Seq(Event) /\ Len(q) = L - i
      BY <1>1, <2>1, SubSeqProperties
    <2> HIDE DEF q
    <2> QED
      BY <1>1, <2>2, <2>3
  <1> HIDE DEF p, q, L
  <1>6. /\ p \o q \in Seq(Event) /\ Len(p \o q) = L - 1
        /\ \A k \in 1 .. L - 1 : (p \o q)[k] = IF k <= i - 1 THEN p[k] ELSE q[k - (i - 1)]
    <2>1. p \o q \in Seq(Event) /\ Len(p \o q) = Len(p) + Len(q)
          /\ \A k \in 1 .. Len(p) + Len(q) : (p \o q)[k] = IF k <= Len(p) THEN p[k] ELSE q[k - Len(p)]
      BY <1>2, <1>3, ConcatProperties
    <2> QED
      BY <1>1, <1>2, <1>3, <2>1
  <1>7. Calendar!RemoveAt(s, i) = p \o q
    BY DEF Calendar!RemoveAt, p, q, L
  <1>8. \A k \in 1 .. L - 1 : (p \o q)[k] = IF k < i THEN s[k] ELSE s[k + 1]
    <2> SUFFICES ASSUME NEW k \in 1 .. L - 1
                 PROVE  (p \o q)[k] = IF k < i THEN s[k] ELSE s[k + 1]
      OBVIOUS
    <2>1. CASE k <= i - 1
      BY <1>1, <1>2, <1>6, <2>1
    <2>2. CASE k > i - 1
      <3> DEFINE j == k - (i - 1)
      <3>1. j \in 1 .. L - i /\ i + j = k + 1
        BY <1>1, <2>2
      <3>2. q[j] = s[i + j]
        BY <1>3, <3>1
      <3>3. (p \o q)[k] = q[j]
        BY <1>1, <1>6, <2>2
      <3> HIDE DEF j
      <3> QED
        BY <1>1, <2>2, <3>1, <3>2, <3>3
    <2>3. k <= i - 1 \/ k > i - 1
      BY <1>1
    <2> QED
      BY <2>1, <2>2, <2>3
  <1> QED
    BY <1>6, <1>7, <1>8 DEF L

-----------------------------------------------------------------------------
\* The events of a bucket, in the order in which they are due.
Sorted(s) == \A j \in 1 .. Len(s) : \A i \in 1 .. Len(s) : i < j => Precedes(s[i], s[j])

\* The type of a calendar, its buckets apart.
Calendars == [buckets : UNION {[0 .. n - 1 -> Seq(Event)] : n \in Nat}, nBuckets : Nat \ {0},
              width : Nat \ {0}, qSize : Nat, lastPrio : Nat, lastBucket : Nat, bucketTop : Nat]

\* A calendar opened at the day of the event taken last.
AtItsDay(c) ==
    /\ c.lastBucket = (c.lastPrio \div c.width) % c.nBuckets
    /\ c.bucketTop = (c.lastPrio \div c.width + 1) * c.width

\* A bucket has the events of its days in order, none before the last taken.
Filed(c, b, s) ==
    /\ Sorted(s)
    /\ \A i \in 1 .. Len(s) : Calendar!Hash(c, s[i].ts) = b /\ s[i].ts >= c.lastPrio

\* Two events of E have uids of their own.
OneEach(E) == \A e \in E : \A f \in E : e.uid = f.uid => e = f

\* What every operation of the calendar keeps, its count of events apart.
Shape(c) ==
    /\ c \in Calendars
    /\ c.buckets \in [0 .. c.nBuckets - 1 -> Seq(Event)]
    /\ AtItsDay(c)
    /\ \A b \in 0 .. c.nBuckets - 1 : Filed(c, b, c.buckets[b])
    /\ OneEach(Calendar!Events(c))

\* The events of a calendar are those of its buckets.
LEMMA EventsOf ==
  ASSUME NEW c, NEW n, c.buckets \in [0 .. n - 1 -> Seq(Event)]
  PROVE  /\ \A e : e \in Calendar!Events(c) <=> \E b \in 0 .. n - 1 : e \in Range(c.buckets[b])
         /\ \A b \in 0 .. n - 1 : c.buckets[b] \in Seq(Event)
         /\ DOMAIN c.buckets = 0 .. n - 1
         /\ Calendar!Events(c) \subseteq Event
  <1>1. DOMAIN c.buckets = 0 .. n - 1 /\ \A b \in 0 .. n - 1 : c.buckets[b] \in Seq(Event)
    OBVIOUS
  <1>2. \A b \in 0 .. n - 1 : Calendar!ToSet(c.buckets[b]) = Range(c.buckets[b])
    BY DEF Calendar!ToSet, Range
  <1>3. \A e : e \in Calendar!Events(c) <=> \E b \in 0 .. n - 1 : e \in Range(c.buckets[b])
    BY <1>1, <1>2 DEF Calendar!Events
  <1>4. \A b \in 0 .. n - 1 : Range(c.buckets[b]) \subseteq Event
    BY <1>1, RangeItems
  <1> QED
    BY <1>1, <1>3, <1>4

\* What the shape of a calendar says of its parts and its events.
LEMMA ShapeFacts ==
  ASSUME NEW c, Shape(c)
  PROVE  /\ c.nBuckets \in Nat \ {0} /\ c.width \in Nat \ {0} /\ c.lastPrio \in Nat /\ c.qSize \in Nat
         /\ c.buckets \in [0 .. c.nBuckets - 1 -> Seq(Event)]
         /\ Calendar!Events(c) \subseteq Event
         /\ \A e : e \in Calendar!Events(c) <=> \E b \in 0 .. c.nBuckets - 1 : e \in Range(c.buckets[b])
         /\ \A b \in 0 .. c.nBuckets - 1 : \A e \in Range(c.buckets[b]) :
               Calendar!Hash(c, e.ts) = b /\ e.ts >= c.lastPrio
         /\ \A e \in Event : Calendar!Hash(c, e.ts) \in 0 .. c.nBuckets - 1
  <1>1. /\ c.nBuckets \in Nat \ {0} /\ c.width \in Nat \ {0} /\ c.lastPrio \in Nat /\ c.qSize \in Nat
        /\ c.buckets \in [0 .. c.nBuckets - 1 -> Seq(Event)]
    BY DEF Shape, Calendars
  <1>2. /\ Calendar!Events(c) \subseteq Event
        /\ \A e : e \in Calendar!Events(c) <=> \E b \in 0 .. c.nBuckets - 1 : e \in Range(c.buckets[b])
    BY <1>1, EventsOf
  <1>3. ASSUME NEW b \in 0 .. c.nBuckets - 1, NEW e \in Range(c.buckets[b])
        PROVE  Calendar!Hash(c, e.ts) = b /\ e.ts >= c.lastPrio
    <2>1. c.buckets[b] \in Seq(Event)
      BY <1>1
    <2>2. PICK i \in 1 .. Len(c.buckets[b]) : e = c.buckets[b][i]
      BY <2>1, RangeItems
    <2> QED
      BY <2>2 DEF Shape, Filed
  <1>4. ASSUME NEW e \in Event
        PROVE  Calendar!Hash(c, e.ts) \in 0 .. c.nBuckets - 1
    <2>1. e.ts \in Nat
      BY DEF Event
    <2> DEFINE q == e.ts \div c.width
    <2>2. q \in Nat
      BY <1>1, <2>1, DivisionOf
    <2> HIDE DEF q
    <2>3. q % c.nBuckets \in 0 .. c.nBuckets - 1
      BY <1>1, <2>2, DivisionOf
    <2> QED
      BY <2>3 DEF Calendar!Hash, q
  <1> QED
    BY <1>1, <1>2, <1>3, <1>4

\* The calendar d is c with another bucket b, s, and so with the events E.
Refiled(c, b, s, d, E) ==
    /\ Shape(c) /\ d \in Calendars /\ s \in Seq(Event)
    /\ b \in 0 .. c.nBuckets - 1
    /\ d.nBuckets = c.nBuckets /\ d.width = c.width /\ AtItsDay(d)
    /\ d.buckets = [c.buckets EXCEPT ![b] = s]
    /\ Sorted(s)
    /\ \A e \in Range(s) : Calendar!Hash(c, e.ts) = b
    /\ \A e : e \in E <=> e \in Range(s) \/ (e \in Calendar!Events(c) /\ e \notin Range(c.buckets[b]))
    /\ \A e \in E : e.ts >= d.lastPrio
    /\ OneEach(E)

\* A calendar keeps its shape when one bucket is filed again.
LEMMA Refile ==
  ASSUME NEW c, NEW b, NEW s, NEW d, NEW E, Refiled(c, b, s, d, E)
  PROVE  Shape(d) /\ Calendar!Events(d) = E
  <1> USE DEF Refiled
  <1>1. /\ c.nBuckets \in Nat \ {0} /\ c.buckets \in [0 .. c.nBuckets - 1 -> Seq(Event)]
        /\ \A e : e \in Calendar!Events(c) <=> \E a \in 0 .. c.nBuckets - 1 : e \in Range(c.buckets[a])
        /\ \A a \in 0 .. c.nBuckets - 1 : \A e \in Range(c.buckets[a]) :
               Calendar!Hash(c, e.ts) = a /\ e.ts >= c.lastPrio
    BY ShapeFacts
  <1>2. /\ d.buckets \in [0 .. d.nBuckets - 1 -> Seq(Event)] /\ d.buckets[b] = s
        /\ \A a \in 0 .. d.nBuckets - 1 : a # b => d.buckets[a] = c.buckets[a]
    BY <1>1
  <1>3. Calendar!Events(d) = E
    <2>1. \A e : e \in Calendar!Events(d) <=> \E a \in 0 .. d.nBuckets - 1 : e \in Range(d.buckets[a])
      BY <1>2, EventsOf
    <2>2. \A a \in 0 .. c.nBuckets - 1 : a # b => \A e \in Range(c.buckets[a]) : e \notin Range(c.buckets[b])
      BY <1>1
    <2>3. ASSUME NEW e \in E PROVE e \in Calendar!Events(d)
      <3>1. CASE e \in Range(s)
        BY <1>2, <2>1, <3>1
      <3>2. CASE e \notin Range(s)
        <4>1. PICK a \in 0 .. c.nBuckets - 1 : e \in Range(c.buckets[a])
          BY <1>1, <2>3, <3>2
        <4>2. a # b
          BY <2>3, <3>2, <4>1
        <4> QED
          BY <1>2, <2>1, <4>1, <4>2
      <3> QED
        BY <3>1, <3>2
    <2>4. ASSUME NEW e \in Calendar!Events(d) PROVE e \in E
      <3>1. PICK a \in 0 .. d.nBuckets - 1 : e \in Range(d.buckets[a])
        BY <2>1
      <3>2. CASE a = b
        BY <1>2, <3>1, <3>2
      <3>3. CASE a # b
        BY <1>1, <1>2, <2>2, <3>1, <3>3
      <3> QED
        BY <3>2, <3>3
    <2> QED
      BY <2>3, <2>4
  <1>4. ASSUME NEW a \in 0 .. d.nBuckets - 1
        PROVE  Filed(d, a, d.buckets[a])
    <2>1. \A t : Calendar!Hash(d, t) = Calendar!Hash(c, t)
      BY DEF Calendar!Hash
    <2>2. d.buckets[a] \in Seq(Event)
      BY <1>2
    <2>3. \A e \in Range(d.buckets[a]) : e.ts >= d.lastPrio
      <3>1. Range(d.buckets[a]) \subseteq Calendar!Events(d)
        BY <1>2, EventsOf
      <3> QED
        BY <1>3, <3>1
    <2>4. \A e \in Range(d.buckets[a]) : Calendar!Hash(d, e.ts) = a
      BY <1>1, <1>2, <2>1
    <2>5. Sorted(d.buckets[a])
      <3>1. CASE a = b
        BY <1>2, <3>1
      <3>2. CASE a # b
        BY <1>2, <3>2 DEF Shape, Filed
      <3> QED
        BY <3>1, <3>2
    <2>6. \A i \in 1 .. Len(d.buckets[a]) : d.buckets[a][i] \in Range(d.buckets[a])
      BY <2>2, RangeItems
    <2> QED
      BY <2>3, <2>4, <2>5, <2>6 DEF Filed
  <1> QED
    BY <1>2, <1>3, <1>4 DEF Shape

-----------------------------------------------------------------------------
\* Min gives the least of a set of numbers.
LEMMA MinOf ==
  ASSUME NEW S \in SUBSET Nat, S # {}
  PROVE  Calendar!Min(S) \in S /\ \A k \in S : Calendar!Min(S) <= k
  <1>1. \E k \in S : \A j \in S : k <= j
    BY NatMin
  <1> QED
    BY <1>1 DEF Calendar!Min

\* What the parts of a calendar say of the calendar.
LEMMA CalendarType ==
  ASSUME NEW d, NEW n \in Nat \ {0}, NEW x \in [0 .. n - 1 -> Seq(Event)], NEW w \in Nat \ {0},
         NEW q \in Nat, NEW p \in Nat, NEW l \in Nat, NEW t \in Nat,
         d = [buckets |-> x, nBuckets |-> n, width |-> w, qSize |-> q, lastPrio |-> p,
              lastBucket |-> l, bucketTop |-> t]
  PROVE  d \in Calendars
  <1>1. x \in UNION {[0 .. k - 1 -> Seq(Event)] : k \in Nat}
    OBVIOUS
  <1> QED
    BY <1>1 DEF Calendars

\* The members of a calendar.
LEMMA CalendarFields ==
  ASSUME NEW c \in Calendars
  PROVE  /\ c = [buckets |-> c.buckets, nBuckets |-> c.nBuckets, width |-> c.width, qSize |-> c.qSize,
                 lastPrio |-> c.lastPrio, lastBucket |-> c.lastBucket, bucketTop |-> c.bucketTop]
         /\ c.nBuckets \in Nat \ {0} /\ c.width \in Nat \ {0} /\ c.qSize \in Nat
         /\ c.lastPrio \in Nat /\ c.lastBucket \in Nat /\ c.bucketTop \in Nat
  BY DEF Calendars

\* DoInsert puts an event at its place in the bucket.
LEMMA SortedInsert ==
  ASSUME NEW s \in Seq(Event), Sorted(s), NEW e \in Event, \A f \in Range(s) : f.uid # e.uid,
         NEW later, later = {i \in 1 .. Len(s) : Precedes(e, s[i])},
         NEW place, place = IF later = {} THEN Len(s) + 1 ELSE Calendar!Min(later)
  PROVE  /\ Calendar!InsertAt(s, place, e) \in Seq(Event)
         /\ Sorted(Calendar!InsertAt(s, place, e))
         /\ Range(Calendar!InsertAt(s, place, e)) = Range(s) \cup {e}
  <1> DEFINE L == Len(s)
             x == Calendar!InsertAt(s, place, e)
  <1>1. L \in Nat /\ \A k \in 1 .. L : s[k] \in Event /\ s[k] \in Range(s)
    BY LenProperties, ElementOfSeq, RangeItems
  <1>2. /\ place \in 1 .. L + 1
        /\ \A k \in 1 .. L : k < place => Precedes(s[k], e)
        /\ \A k \in 1 .. L : k >= place => Precedes(e, s[k])
    <2>1. CASE later = {}
      <3>1. place = L + 1
        BY <2>1
      <3>2. \A k \in 1 .. L : ~Precedes(e, s[k])
        BY <2>1
      <3>3. \A k \in 1 .. L : Precedes(s[k], e)
        BY <1>1, <3>2, PrecedesOrder
      <3>4. place \in 1 .. L + 1
        BY <1>1, <3>1
      <3>5. \A k \in 1 .. L : ~(k >= place)
        BY <1>1, <3>1
      <3> QED
        BY <3>3, <3>4, <3>5
    <2>2. CASE later # {}
      <3>1. later \in SUBSET Nat
        OBVIOUS
      <3>2. place \in later /\ \A k \in later : place <= k
        BY <2>2, <3>1, MinOf
      <3>3. place \in 1 .. L /\ Precedes(e, s[place])
        BY <3>2
      <3>4. ASSUME NEW k \in 1 .. L, k < place PROVE Precedes(s[k], e)
        <4>1. ~Precedes(e, s[k])
          BY <3>2, <3>3, <3>4
        <4> QED
          BY <1>1, <4>1, PrecedesOrder
      <3>5. ASSUME NEW k \in 1 .. L, k >= place PROVE Precedes(e, s[k])
        <4>1. k = place \/ Precedes(s[place], s[k])
          BY <3>3, <3>5 DEF Sorted
        <4> QED
          BY <1>1, <3>3, <4>1, PrecedesOrder
      <3>6. place \in 1 .. L + 1
        BY <1>1, <3>3
      <3> QED
        BY <3>4, <3>5, <3>6
    <2> QED
      BY <2>1, <2>2
  <1> HIDE DEF L
  <1>3. /\ x \in Seq(Event) /\ Len(x) = L + 1
        /\ \A k \in 1 .. L + 1 : x[k] = IF k < place THEN s[k] ELSE IF k = place THEN e ELSE s[k - 1]
    <2>1. s \in Seq(Event) /\ e \in Event /\ place \in 1 .. Len(s) + 1
      BY <1>2 DEF L
    <2>2. Inserted(x, s, place, e)
      BY <2>1, InsertedAt
    <2> HIDE DEF x
    <2> QED
      BY <2>2 DEF Inserted, L
  <1> HIDE DEF x
  <1>6. ASSUME NEW k \in 1 .. L + 1, k < place
        PROVE  x[k] = s[k] /\ k \in 1 .. L
    <2>1. x[k] = s[k]
      BY <1>3, <1>6
    <2>2. k \in 1 .. L
      BY <1>1, <1>2, <1>6
    <2> QED
      BY <2>1, <2>2
  <1>7. x[place] = e
    <2>1. ~(place < place) /\ place \in 1 .. L + 1
      BY <1>1, <1>2
    <2> QED
      BY <1>3, <2>1
  <1>8. ASSUME NEW k \in 1 .. L + 1, k > place
        PROVE  x[k] = s[k - 1] /\ k - 1 \in 1 .. L /\ k - 1 >= place
    <2>1. ~(k < place) /\ k # place
      BY <1>1, <1>2, <1>8
    <2>2. x[k] = s[k - 1]
      BY <1>3, <2>1
    <2>3. k - 1 \in 1 .. L /\ k - 1 >= place
      BY <1>1, <1>2, <1>8
    <2> QED
      BY <2>2, <2>3
  <1>4. Sorted(x)
    <2> SUFFICES ASSUME NEW j \in 1 .. L + 1, NEW i \in 1 .. L + 1, i < j
                 PROVE  Precedes(x[i], x[j])
      BY <1>3 DEF Sorted
    <2>1. CASE j < place
      <3>1. x[i] = s[i] /\ x[j] = s[j] /\ i \in 1 .. L /\ j \in 1 .. L
        <4>1. i < place
          BY <1>1, <1>2, <2>1
        <4> QED
          BY <1>6, <2>1, <4>1
      <3> QED
        BY <3>1 DEF Sorted, L
    <2>2. CASE j = place
      <3>1. x[i] = s[i] /\ x[j] = e /\ i \in 1 .. L
        BY <1>6, <1>7, <2>2
      <3> QED
        BY <1>2, <2>2, <3>1
    <2>3. CASE j > place /\ i < place
      <3>1. x[i] = s[i] /\ i \in 1 .. L
        BY <1>6, <2>3
      <3>2. x[j] = s[j - 1] /\ j - 1 \in 1 .. L /\ j - 1 >= place
        BY <1>8, <2>3
      <3>3. i < j - 1
        BY <1>1, <1>2, <2>3
      <3> QED
        BY <3>1, <3>2, <3>3 DEF Sorted, L
    <2>4. CASE j > place /\ i = place
      <3>1. x[i] = e
        BY <1>7, <2>4
      <3>2. x[j] = s[j - 1] /\ j - 1 \in 1 .. L /\ j - 1 >= place
        BY <1>8, <2>4
      <3> QED
        BY <1>2, <3>1, <3>2
    <2>5. CASE j > place /\ i > place
      <3>1. x[i] = s[i - 1] /\ i - 1 \in 1 .. L
        BY <1>8, <2>5
      <3>2. x[j] = s[j - 1] /\ j - 1 \in 1 .. L
        BY <1>8, <2>5
      <3>3. i - 1 < j - 1
        BY <1>1
      <3> QED
        BY <3>1, <3>2, <3>3 DEF Sorted, L
    <2> QED
      BY <1>2, <2>1, <2>2, <2>3, <2>4, <2>5
  <1>5. Range(x) = Range(s) \cup {e}
    <2>1. \A f : f \in Range(x) <=> \E k \in 1 .. L + 1 : f = x[k]
      BY <1>3, RangeItems
    <2>2. \A f : f \in Range(s) <=> \E k \in 1 .. L : f = s[k]
      BY RangeItems DEF L
    <2>3. ASSUME NEW k \in 1 .. L + 1 PROVE x[k] \in Range(s) \cup {e}
      <3>1. CASE k < place
        <4>1. k \in 1 .. L /\ x[k] = s[k]
          BY <1>1, <1>2, <1>3, <3>1
        <4> QED
          BY <1>1, <4>1 DEF L
      <3>2. CASE k = place
        <4>1. ~(k < place)
          BY <1>1, <1>2, <3>2
        <4> QED
          BY <1>3, <3>2, <4>1
      <3>3. CASE k > place
        <4>1. k - 1 \in 1 .. L /\ x[k] = s[k - 1]
          BY <1>1, <1>2, <1>3, <3>3
        <4> QED
          BY <1>1, <4>1 DEF L
      <3>4. k < place \/ k = place \/ k > place
        BY <1>1, <1>2
      <3> QED
        BY <3>1, <3>2, <3>3, <3>4
    <2>4. ASSUME NEW k \in 1 .. L PROVE \E j \in 1 .. L + 1 : s[k] = x[j]
      <3>1. CASE k < place
        <4>1. k \in 1 .. L + 1 /\ x[k] = s[k]
          BY <1>1, <1>3, <3>1
        <4> QED
          BY <4>1
      <3>2. CASE k >= place
        <4> DEFINE j == k + 1
        <4>1. j \in 1 .. L + 1 /\ ~(j < place) /\ j # place /\ j - 1 = k
          BY <1>1, <1>2, <3>2
        <4>2. x[j] = s[j - 1]
          BY <1>3, <4>1
        <4> HIDE DEF j
        <4> QED
          BY <4>1, <4>2
      <3> QED
        BY <1>1, <1>2, <3>1, <3>2
    <2>5. place \in 1 .. L + 1 /\ x[place] = e
      BY <1>1, <1>2, <1>3
    <2>6. \A f \in Range(x) : f \in Range(s) \cup {e}
      BY <2>1, <2>3
    <2>7. \A f \in Range(s) : f \in Range(x)
      BY <2>1, <2>2, <2>4
    <2>8. e \in Range(x)
      BY <2>1, <2>5
    <2> QED
      BY <2>6, <2>7, <2>8
  <1> QED
    BY <1>3, <1>4, <1>5 DEF x

\* The members of a calendar that filing events leaves alone.
SameDays(c, d) ==
    d.nBuckets = c.nBuckets /\ d.width = c.width /\ d.qSize = c.qSize /\ d.lastPrio = c.lastPrio

\* DoInsert adds the event and changes nothing else.
LEMMA DoInsertFiles ==
  ASSUME NEW c, Shape(c), NEW e \in Event, e.ts >= c.lastPrio, \A f \in Calendar!Events(c) : f.uid # e.uid
  PROVE  /\ Shape(Calendar!DoInsert(c, e))
         /\ Calendar!Events(Calendar!DoInsert(c, e)) = Calendar!Events(c) \cup {e}
         /\ SameDays(c, Calendar!DoInsert(c, e))
  <1> DEFINE b == Calendar!Hash(c, e.ts)
             s == c.buckets[b]
             later == {i \in DOMAIN s : Calendar!Precedes(e, s[i])}
             place == IF later = {} THEN Len(s) + 1 ELSE Calendar!Min(later)
             x == Calendar!InsertAt(s, place, e)
             d == Calendar!DoInsert(c, e)
  <1>1. /\ c.buckets \in [0 .. c.nBuckets - 1 -> Seq(Event)] /\ b \in 0 .. c.nBuckets - 1
        /\ \A f : f \in Calendar!Events(c) <=> \E a \in 0 .. c.nBuckets - 1 : f \in Range(c.buckets[a])
        /\ \A a \in 0 .. c.nBuckets - 1 : \A f \in Range(c.buckets[a]) :
              Calendar!Hash(c, f.ts) = a /\ f.ts >= c.lastPrio
        /\ c.nBuckets \in Nat \ {0} /\ c \in Calendars
    BY ShapeFacts DEF Shape
  <1>2. d = [c EXCEPT !.buckets[b] = x]
    BY DEF Calendar!DoInsert
  <1> HIDE DEF b, d
  <1>3. s \in Seq(Event) /\ Sorted(s) /\ \A f \in Range(s) : f.uid # e.uid
    BY <1>1 DEF Shape, Filed
  <1>4. x \in Seq(Event) /\ Sorted(x) /\ Range(x) = Range(s) \cup {e}
    <2>1. later = {i \in 1 .. Len(s) : Precedes(e, s[i])}
      <3>1. DOMAIN s = 1 .. Len(s)
        BY <1>3, RangeItems
      <3> QED
        BY <3>1 DEF Precedes, Calendar!Precedes
    <2>2. place = IF later = {} THEN Len(s) + 1 ELSE Calendar!Min(later)
      OBVIOUS
    <2> HIDE DEF s, later, place
    <2> QED
      BY <1>3, <2>1, <2>2, SortedInsert
  <1> HIDE DEF x
  <1>5. [c.buckets EXCEPT ![b] = x] \in [0 .. c.nBuckets - 1 -> Seq(Event)]
    BY <1>1, <1>4
  <1>6. d \in Calendars /\ SameDays(c, d) /\ d.buckets = [c.buckets EXCEPT ![b] = x]
        /\ d.lastBucket = c.lastBucket /\ d.bucketTop = c.bucketTop
    <2> DEFINE y == [c.buckets EXCEPT ![b] = x]
    <2>1. d = [c EXCEPT !.buckets = y]
      BY <1>2
    <2> HIDE DEF y
    <2>2. /\ d.buckets = y /\ SameDays(c, d) /\ d.lastBucket = c.lastBucket /\ d.bucketTop = c.bucketTop
          /\ d = [buckets |-> y, nBuckets |-> c.nBuckets, width |-> c.width, qSize |-> c.qSize,
                  lastPrio |-> c.lastPrio, lastBucket |-> c.lastBucket, bucketTop |-> c.bucketTop]
      BY <1>1, <2>1 DEF Calendars, SameDays
    <2>3. d \in Calendars
      BY <1>1, <1>5, <2>2, CalendarType, CalendarFields DEF y
    <2> QED
      BY <2>2, <2>3 DEF y
  <1> DEFINE E == Calendar!Events(c) \cup {e}
  <1>7. \A f \in E : f.ts >= d.lastPrio
    BY <1>1, <1>6 DEF SameDays
  <1>8. OneEach(E)
    BY DEF Shape, OneEach
  <1>9. \A f : f \in E <=> f \in Range(x) \/ (f \in Calendar!Events(c) /\ f \notin Range(c.buckets[b]))
    BY <1>1, <1>4
  <1>10. \A f \in Range(x) : Calendar!Hash(c, f.ts) = b /\ f.ts >= d.lastPrio
    BY <1>1, <1>4, <1>6 DEF b, SameDays
  <1>11. AtItsDay(d)
    BY <1>6 DEF Shape, AtItsDay, SameDays
  <1> HIDE DEF E
  <1>12. Refiled(c, b, x, d, E)
    BY <1>1, <1>4, <1>6, <1>7, <1>8, <1>9, <1>10, <1>11 DEF SameDays, Refiled
  <1>13. Shape(d) /\ Calendar!Events(d) = E
    BY <1>12, Refile
  <1> QED
    BY <1>6, <1>13 DEF E, d

-----------------------------------------------------------------------------
\* The bucket x is s without its i-th event.
IsWithout(x, s, i) ==
    /\ x \in Seq(Event) /\ Len(x) = Len(s) - 1
    /\ \A k \in 1 .. Len(s) - 1 : x[k] = IF k < i THEN s[k] ELSE s[k + 1]

\* A bucket without one of its events stays sorted.
LEMMA SortedWithout ==
  ASSUME NEW s \in Seq(Event), Sorted(s), NEW i \in 1 .. Len(s), NEW x, IsWithout(x, s, i)
  PROVE  Sorted(x) /\ Range(x) = Range(s) \ {s[i]}
  <1> DEFINE L == Len(s)
  <1>1. L \in Nat /\ i \in Nat /\ i >= 1 /\ i <= L /\ \A k \in 1 .. L : s[k] \in Event /\ s[k] \in Range(s)
    BY LenProperties, ElementOfSeq, RangeItems
  <1>2. x \in Seq(Event) /\ Len(x) = L - 1 /\ \A k \in 1 .. L - 1 : x[k] = IF k < i THEN s[k] ELSE s[k + 1]
    BY DEF IsWithout
  <1>3. ASSUME NEW k \in 1 .. L - 1, NEW j \in 1 .. L - 1, k < j
        PROVE  Precedes(x[k], x[j])
    <2>1. k \in 1 .. L /\ j \in 1 .. L /\ k + 1 \in 1 .. L /\ j + 1 \in 1 .. L
      BY <1>1
    <2>2. CASE j < i
      <3>1. x[k] = s[k] /\ x[j] = s[j]
        BY <1>1, <1>2, <1>3, <2>2
      <3> QED
        BY <1>3, <2>1, <3>1 DEF Sorted
    <2>3. CASE k < i /\ ~(j < i)
      <3>1. x[k] = s[k] /\ x[j] = s[j + 1] /\ k < j + 1
        BY <1>1, <1>2, <1>3, <2>3
      <3> QED
        BY <2>1, <3>1 DEF Sorted
    <2>4. CASE ~(k < i) /\ ~(j < i)
      <3>1. x[k] = s[k + 1] /\ x[j] = s[j + 1] /\ k + 1 < j + 1
        BY <1>1, <1>2, <1>3, <2>4
      <3> QED
        BY <2>1, <3>1 DEF Sorted
    <2> QED
      BY <1>1, <1>3, <2>2, <2>3, <2>4
  <1>4. \A f : f \in Range(x) <=> \E k \in 1 .. L - 1 : f = x[k]
    BY <1>2, RangeItems
  <1>5. \A f : f \in Range(s) <=> \E k \in 1 .. L : f = s[k]
    BY RangeItems
  <1>6. \A k \in 1 .. L : k # i => s[k] # s[i]
    <2> SUFFICES ASSUME NEW k \in 1 .. L, k # i, s[k] = s[i]
                 PROVE  FALSE
      OBVIOUS
    <2>1. Precedes(s[k], s[i]) \/ Precedes(s[i], s[k])
      BY <1>1 DEF Sorted
    <2> QED
      BY <1>1, <2>1, PrecedesOrder
  <1> HIDE DEF L
  <1>7. ASSUME NEW k \in 1 .. L - 1
        PROVE  x[k] \in Range(s) \ {s[i]}
    <2>1. CASE k < i
      <3>1. k \in 1 .. L /\ k # i /\ x[k] = s[k]
        BY <1>1, <1>2, <2>1
      <3> QED
        BY <1>1, <1>6, <3>1
    <2>2. CASE ~(k < i)
      <3>1. k + 1 \in 1 .. L /\ k + 1 # i /\ x[k] = s[k + 1]
        BY <1>1, <1>2, <2>2
      <3> QED
        BY <1>1, <1>6, <3>1
    <2> QED
      BY <2>1, <2>2
  <1>8. ASSUME NEW k \in 1 .. L, k # i
        PROVE  \E j \in 1 .. L - 1 : s[k] = x[j]
    <2>1. CASE k < i
      <3>1. k \in 1 .. L - 1 /\ x[k] = s[k]
        BY <1>1, <1>2, <2>1
      <3> QED
        BY <3>1
    <2>2. CASE ~(k < i)
      <3> DEFINE j == k - 1
      <3>1. j \in 1 .. L - 1 /\ ~(j < i) /\ j + 1 = k
        BY <1>1, <1>8, <2>2
      <3>2. x[j] = s[j + 1]
        BY <1>2, <3>1
      <3> HIDE DEF j
      <3> QED
        BY <3>1, <3>2
    <2> QED
      BY <2>1, <2>2
  <1>9. \A f \in Range(x) : f \in Range(s) \ {s[i]}
    BY <1>4, <1>7
  <1>10. ASSUME NEW f \in Range(s) \ {s[i]}
         PROVE  f \in Range(x)
    <2>1. PICK k \in 1 .. L : f = s[k]
      BY <1>5
    <2>2. k # i
      BY <2>1
    <2> QED
      BY <1>4, <1>8, <2>1, <2>2
  <1> QED
    BY <1>2, <1>3, <1>9, <1>10 DEF Sorted

\* The calendar d is c without the i-th event of bucket b.
IsTaken(c, b, i, x, d) ==
    /\ Shape(c) /\ b \in 0 .. c.nBuckets - 1 /\ i \in 1 .. Len(c.buckets[b])
    /\ IsWithout(x, c.buckets[b], i)
    /\ d \in Calendars /\ d.nBuckets = c.nBuckets /\ d.width = c.width /\ AtItsDay(d)
    /\ d.buckets = [c.buckets EXCEPT ![b] = x]
    /\ \A f \in Calendar!Events(c) \ {c.buckets[b][i]} : f.ts >= d.lastPrio

\* Taking an event from its bucket takes that event alone.
LEMMA TakenFrom ==
  ASSUME NEW c, NEW b, NEW i, NEW x, NEW d, IsTaken(c, b, i, x, d)
  PROVE  Shape(d) /\ Calendar!Events(d) = Calendar!Events(c) \ {c.buckets[b][i]}
  <1> USE DEF IsTaken
  <1> DEFINE s == c.buckets[b]
             E == Calendar!Events(c) \ {s[i]}
  <1>1. /\ c.buckets \in [0 .. c.nBuckets - 1 -> Seq(Event)]
        /\ \A f : f \in Calendar!Events(c) <=> \E a \in 0 .. c.nBuckets - 1 : f \in Range(c.buckets[a])
        /\ \A a \in 0 .. c.nBuckets - 1 : \A f \in Range(c.buckets[a]) :
              Calendar!Hash(c, f.ts) = a /\ f.ts >= c.lastPrio
    BY ShapeFacts
  <1>2. s \in Seq(Event) /\ Sorted(s)
    BY <1>1 DEF Shape, Filed
  <1>3. x \in Seq(Event) /\ Sorted(x) /\ Range(x) = Range(s) \ {s[i]}
    <2>1. IsWithout(x, s, i) /\ i \in 1 .. Len(s)
      OBVIOUS
    <2> HIDE DEF s
    <2>2. x \in Seq(Event)
      BY <2>1 DEF IsWithout
    <2> QED
      BY <1>2, <2>1, <2>2, SortedWithout
  <1>4. s[i] \in Range(s)
    BY <1>2, RangeItems
  <1>5. \A f : f \in E <=> f \in Range(x) \/ (f \in Calendar!Events(c) /\ f \notin Range(s))
    <2> HIDE DEF s
    <2>1. Range(s) \subseteq Calendar!Events(c)
      BY <1>1 DEF s
    <2> QED
      BY <1>3, <1>4, <2>1
  <1>6. OneEach(E)
    BY DEF Shape, OneEach
  <1>7. \A f \in Range(x) : Calendar!Hash(c, f.ts) = b
    BY <1>1, <1>3
  <1> HIDE DEF E
  <1>8. \A f \in E : f.ts >= d.lastPrio
    BY DEF E
  <1>9. Refiled(c, b, x, d, E)
    BY <1>3, <1>5, <1>6, <1>7, <1>8 DEF Refiled
  <1>10. Shape(d) /\ Calendar!Events(d) = E
    BY <1>9, Refile
  <1> QED
    BY <1>10 DEF E

\* The tail of a bucket is the bucket without its first event.
LEMMA TailIsWithout ==
  ASSUME NEW s \in Seq(Event), s # <<>>
  PROVE  IsWithout(Tail(s), s, 1) /\ Head(s) = s[1] /\ 1 \in 1 .. Len(s)
  <1>1. /\ Tail(s) \in Seq(Event) /\ Len(Tail(s)) = Len(s) - 1
        /\ \A i \in 1 .. Len(Tail(s)) : Tail(s)[i] = s[i + 1]
    BY HeadTailProperties
  <1>2. Len(s) \in Nat /\ 1 \in 1 .. Len(s)
    BY LenProperties, EmptySeq
  <1>3. Head(s) = s[1]
    OBVIOUS
  <1>4. \A k \in 1 .. Len(s) - 1 : ~(k < 1)
    BY <1>2
  <1> QED
    BY <1>1, <1>2, <1>3, <1>4 DEF IsWithout

\* The head of a bucket is its earliest event.
LEMMA FrontIsFirst ==
  ASSUME NEW s \in Seq(Event), Sorted(s), s # <<>>
  PROVE  Head(s) \in Range(s) /\ \A f \in Range(s) : f = Head(s) \/ Precedes(Head(s), f)
  <1>1. Head(s) = s[1] /\ 1 \in 1 .. Len(s) /\ Len(s) \in Nat
    BY TailIsWithout, LenProperties
  <1>2. Head(s) \in Range(s)
    BY <1>1, RangeItems
  <1>3. ASSUME NEW f \in Range(s)
        PROVE  f = Head(s) \/ Precedes(Head(s), f)
    <2>1. PICK k \in 1 .. Len(s) : f = s[k]
      BY RangeItems
    <2>2. k = 1 \/ 1 < k
      BY <1>1
    <2> QED
      BY <1>1, <2>1, <2>2 DEF Sorted
  <1> QED
    BY <1>2, <1>3

\* Of some events with uids of their own, one is the earliest.
LEMMA LeastEvent ==
  ASSUME NEW E \in SUBSET Event, E # {}, OneEach(E)
  PROVE  \E e \in E : IsFirst(e, E)
  <1> DEFINE Times == {e.ts : e \in E}
  <1>1. Times \in SUBSET Nat /\ Times # {}
    BY DEF Event
  <1>2. PICK t \in Times : \A u \in Times : t <= u
    <2> HIDE DEF Times
    <2> QED
      BY <1>1, NatMin
  <1> DEFINE Uids == {e.uid : e \in {f \in E : f.ts = t}}
  <1>3. Uids \in SUBSET Nat /\ Uids # {}
    BY DEF Event
  <1>4. PICK u \in Uids : \A v \in Uids : u <= v
    <2> HIDE DEF Uids
    <2> QED
      BY <1>3, NatMin
  <1>5. PICK e \in E : e.ts = t /\ e.uid = u
    OBVIOUS
  <1>6. ASSUME NEW f \in E \ {e}
        PROVE  Precedes(e, f)
    <2>1. e.ts \in Nat /\ e.uid \in Nat /\ f.ts \in Nat /\ f.uid \in Nat
      BY DEF Event
    <2>2. e.ts <= f.ts
      BY <1>2, <1>5
    <2>3. f.uid # e.uid
      BY DEF OneEach
    <2>4. f.ts = e.ts => e.uid <= f.uid
      BY <1>4, <1>5
    <2> QED
      BY <2>1, <2>2, <2>3, <2>4 DEF Precedes
  <1> QED
    BY <1>6 DEF IsFirst

-----------------------------------------------------------------------------
\* What DoRemoveNext owes: the earliest event, and the calendar without it, at its day.
GivesEarliest(c, r) ==
    /\ r.event \in Calendar!Events(c) /\ IsFirst(r.event, Calendar!Events(c))
    /\ Shape(r.rest) /\ Calendar!Events(r.rest) = Calendar!Events(c) \ {r.event}
    /\ r.rest.nBuckets = c.nBuckets /\ r.rest.width = c.width /\ r.rest.qSize = c.qSize
    /\ r.rest.lastPrio = r.event.ts

\* The head of bucket b taken.
HeadTaken(c, b) ==
    LET e == Head(c.buckets[b])
    IN  [event |-> e,
         rest |-> [c EXCEPT !.lastBucket = (e.ts \div c.width) % c.nBuckets, !.lastPrio = e.ts,
                            !.bucketTop = (e.ts \div c.width + 1) * c.width,
                            !.buckets[b] = Tail(@)]]

\* Taking the head of a bucket that is the earliest of all keeps the shape.
LEMMA TakeHead ==
  ASSUME NEW c, Shape(c), NEW b \in 0 .. c.nBuckets - 1, c.buckets[b] # <<>>,
         IsFirst(Head(c.buckets[b]), Calendar!Events(c))
  PROVE  GivesEarliest(c, HeadTaken(c, b))
  <1>0. PICK e, l, t : /\ e = Head(c.buckets[b])
                       /\ l = (e.ts \div c.width) % c.nBuckets
                       /\ t = (e.ts \div c.width + 1) * c.width
    OBVIOUS
  <1> DEFINE s == c.buckets[b]
             y == [c.buckets EXCEPT ![b] = Tail(s)]
             d == [c EXCEPT !.lastBucket = l, !.lastPrio = e.ts, !.bucketTop = t, !.buckets[b] = Tail(@)]
  <1>1. /\ c.nBuckets \in Nat \ {0} /\ c.width \in Nat \ {0} /\ c.qSize \in Nat
        /\ c.buckets \in [0 .. c.nBuckets - 1 -> Seq(Event)] /\ c \in Calendars
        /\ Calendar!Events(c) \subseteq Event
    BY ShapeFacts DEF Shape
  <1>2. s \in Seq(Event) /\ s # <<>>
    BY <1>1
  <1>3. IsWithout(Tail(s), s, 1) /\ e = s[1] /\ 1 \in 1 .. Len(s) /\ Tail(s) \in Seq(Event)
    <2> HIDE DEF s
    <2>1. IsWithout(Tail(s), s, 1) /\ Head(s) = s[1] /\ 1 \in 1 .. Len(s)
      BY <1>2, TailIsWithout
    <2>2. Tail(s) \in Seq(Event)
      BY <2>1 DEF IsWithout
    <2> QED
      BY <1>0, <2>1, <2>2 DEF s
  <1>4. e \in Calendar!Events(c) /\ e \in Event /\ e.ts \in Nat
    BY <1>0, <1>1 DEF IsFirst, Event
  <1>5. l \in Nat /\ t \in Nat
    <2> DEFINE q == e.ts \div c.width
    <2>1. q \in Nat
      BY <1>1, <1>4, DivisionOf
    <2> HIDE DEF q
    <2>2. q % c.nBuckets \in 0 .. c.nBuckets - 1
      BY <1>1, <2>1, DivisionOf
    <2>3. (q + 1) * c.width \in Nat
      BY <1>1, <2>1
    <2> QED
      BY <1>0, <2>2, <2>3 DEF q
  <1>6. y \in [0 .. c.nBuckets - 1 -> Seq(Event)]
    BY <1>1, <1>3
  <1>7. d = [c EXCEPT !.lastBucket = l, !.lastPrio = e.ts, !.bucketTop = t, !.buckets = y]
    BY <1>1 DEF Calendars
  <1>00. HeadTaken(c, b) = [event |-> e, rest |-> d]
    BY <1>0 DEF HeadTaken
  <1> HIDE DEF d, y
  <1>8. d = [buckets |-> y, nBuckets |-> c.nBuckets, width |-> c.width, qSize |-> c.qSize,
             lastPrio |-> e.ts, lastBucket |-> l, bucketTop |-> t]
    BY <1>1, <1>7 DEF Calendars
  <1>9. d \in Calendars
    BY <1>1, <1>4, <1>5, <1>6, <1>8, CalendarType
  <1>10. /\ d.buckets = y /\ d.nBuckets = c.nBuckets /\ d.width = c.width /\ d.qSize = c.qSize
         /\ d.lastPrio = e.ts /\ d.lastBucket = l /\ d.bucketTop = t
    BY <1>8
  <1>11. AtItsDay(d)
    BY <1>0, <1>10 DEF AtItsDay
  <1>12. \A f \in Calendar!Events(c) \ {s[1]} : f.ts >= d.lastPrio
    <2> SUFFICES ASSUME NEW f \in Calendar!Events(c) \ {e} PROVE f.ts >= e.ts
      BY <1>3, <1>10
    <2>1. Precedes(e, f) /\ f \in Event
      BY <1>0, <1>1 DEF IsFirst
    <2> QED
      BY <1>4, <2>1 DEF Precedes, Event
  <1>13. Shape(d) /\ Calendar!Events(d) = Calendar!Events(c) \ {e}
    <2>1. d.buckets = [c.buckets EXCEPT ![b] = Tail(s)]
      BY <1>10 DEF y
    <2> QED
      <3>1. IsTaken(c, b, 1, Tail(s), d)
        BY <1>3, <1>9, <1>10, <1>11, <1>12, <2>1 DEF IsTaken
      <3>2. Shape(d) /\ Calendar!Events(d) = Calendar!Events(c) \ {s[1]}
        BY <3>1, TakenFrom
      <3> QED
        BY <1>3, <3>2
  <1>14. GivesEarliest(c, [event |-> e, rest |-> d])
    BY <1>0, <1>4, <1>10, <1>13 DEF GivesEarliest
  <1> QED
    BY <1>00, <1>14

\* An event of the calendar is in its bucket, not before that bucket's head.
LEMMA InItsBucket ==
  ASSUME NEW c, Shape(c), NEW f \in Calendar!Events(c)
  PROVE  LET b == Calendar!Hash(c, f.ts)
         IN  /\ b \in 0 .. c.nBuckets - 1 /\ f \in Range(c.buckets[b])
             /\ c.buckets[b] # <<>> /\ Head(c.buckets[b]) \in Calendar!Events(c)
             /\ f = Head(c.buckets[b]) \/ Precedes(Head(c.buckets[b]), f)
  <1>1. PICK b \in 0 .. c.nBuckets - 1 : f \in Range(c.buckets[b])
    BY ShapeFacts
  <1>2. Calendar!Hash(c, f.ts) = b
    BY <1>1, ShapeFacts
  <1>3. c.buckets[b] \in Seq(Event) /\ Sorted(c.buckets[b])
    <2>1. c.buckets \in [0 .. c.nBuckets - 1 -> Seq(Event)]
      BY ShapeFacts
    <2> QED
      BY <2>1 DEF Shape, Filed
  <1>4. c.buckets[b] # <<>>
    BY <1>1 DEF Range
  <1>5. /\ Head(c.buckets[b]) \in Range(c.buckets[b])
        /\ f = Head(c.buckets[b]) \/ Precedes(Head(c.buckets[b]), f)
    BY <1>1, <1>3, <1>4, FrontIsFirst
  <1>6. Head(c.buckets[b]) \in Calendar!Events(c)
    BY <1>5, ShapeFacts
  <1> QED
    BY <1>1, <1>2, <1>4, <1>5, <1>6

\* The days of the coming year: the k-th after the current one.
LEMMA DayFacts ==
  ASSUME NEW c, Shape(c), NEW k \in 0 .. c.nBuckets - 1
  PROVE  LET q == c.lastPrio \div c.width
         IN  /\ q \in Nat
             /\ Calendar!Day(c, k) = (q + k) % c.nBuckets
             /\ Calendar!Day(c, k) \in 0 .. c.nBuckets - 1
             /\ Calendar!Top(c, k) = (q + k + 1) * c.width
  <1> DEFINE q == c.lastPrio \div c.width
  <1>1. c.nBuckets \in Nat \ {0} /\ c.width \in Nat \ {0} /\ c.lastPrio \in Nat
    BY ShapeFacts
  <1>2. c.lastBucket = q % c.nBuckets /\ c.bucketTop = (q + 1) * c.width
    BY DEF Shape, AtItsDay
  <1>3. q \in Nat /\ k \in Nat
    <2>1. q \in Nat
      BY <1>1, DivisionOf
    <2> QED
      BY <1>1, <2>1
  <1> HIDE DEF q
  <1>4. ((q % c.nBuckets) + k) % c.nBuckets = (q + k) % c.nBuckets /\ (q + k) % c.nBuckets \in 0 .. c.nBuckets - 1
    BY <1>1, <1>3, BucketAfter
  <1>5. (q + 1) * c.width + k * c.width = (q + k + 1) * c.width
    BY <1>1, <1>3, SMTT(30)
  <1> QED
    BY <1>2, <1>3, <1>4, <1>5 DEF Calendar!Day, Calendar!Top, q

\* A day that has an event has only events of its own due before its end.
LEMMA DueThatDay ==
  ASSUME NEW c, Shape(c), NEW k \in Calendar!DaysDue(c)
  PROVE  LET b == Calendar!Day(c, k)
             e == Head(c.buckets[b])
         IN  /\ k \in 0 .. c.nBuckets - 1 /\ b \in 0 .. c.nBuckets - 1 /\ c.buckets[b] # <<>>
             /\ e \in Calendar!Events(c) /\ e \in Range(c.buckets[b])
             /\ e.ts \div c.width = (c.lastPrio \div c.width) + k
  <1> DEFINE b == Calendar!Day(c, k)
             e == Head(c.buckets[b])
             q == c.lastPrio \div c.width
             qe == e.ts \div c.width
  <1>1. /\ c.nBuckets \in Nat \ {0} /\ c.width \in Nat \ {0} /\ c.lastPrio \in Nat
        /\ c.buckets \in [0 .. c.nBuckets - 1 -> Seq(Event)]
    BY ShapeFacts
  <1>2. k \in 0 .. c.nBuckets - 1 /\ c.buckets[b] # <<>> /\ e.ts < Calendar!Top(c, k)
    BY DEF Calendar!DaysDue
  <1>3. q \in Nat /\ b = (q + k) % c.nBuckets /\ b \in 0 .. c.nBuckets - 1 /\ Calendar!Top(c, k) = (q + k + 1) * c.width
    BY <1>2, DayFacts
  <1>4. e \in Range(c.buckets[b])
    <2>1. c.buckets[b] \in Seq(Event) /\ Sorted(c.buckets[b])
      BY <1>1, <1>3 DEF Shape, Filed
    <2> QED
      BY <1>2, <2>1, FrontIsFirst
  <1>5. e \in Calendar!Events(c) /\ e \in Event /\ Calendar!Hash(c, e.ts) = b /\ e.ts >= c.lastPrio
    BY <1>3, <1>4, ShapeFacts
  <1>6. e.ts \in Nat
    BY <1>5 DEF Event
  <1> HIDE DEF e
  <1>7. qe \in Nat /\ q <= qe
    BY <1>1, <1>5, <1>6, DivisionOf, DaysInOrder
  <1>8. qe % c.nBuckets = b
    BY <1>5 DEF Calendar!Hash
  <1> HIDE DEF b, q
  <1>9. qe <= q + k
    <2> DEFINE a == q + k
    <2>1. a \in Nat /\ e.ts < (a + 1) * c.width
      BY <1>2, <1>3
    <2> HIDE DEF a
    <2>2. qe <= a
      BY <1>1, <1>6, <2>1, DayOf
    <2> QED
      BY <2>2 DEF a
  <1> HIDE DEF qe
  <1>10. qe = q + k
    <2> DEFINE a == q + k
    <2>1. a \in Nat /\ qe <= a /\ a - qe < c.nBuckets /\ qe % c.nBuckets = a % c.nBuckets
      BY <1>1, <1>2, <1>3, <1>7, <1>8, <1>9
    <2> HIDE DEF a
    <2>2. qe = a
      BY <1>1, <1>7, <2>1, SameDay
    <2> QED
      BY <2>2 DEF a
  <1> QED
    BY <1>2, <1>3, <1>4, <1>5, <1>10 DEF b, e, q, qe

-----------------------------------------------------------------------------
\* The head of the first day that has an event is the earliest of all.
LEMMA FirstDay ==
  ASSUME NEW c, Shape(c), NEW k \in Calendar!DaysDue(c), \A j \in Calendar!DaysDue(c) : k <= j
  PROVE  IsFirst(Head(c.buckets[Calendar!Day(c, k)]), Calendar!Events(c))
  <1> DEFINE b == Calendar!Day(c, k)
             e == Head(c.buckets[b])
             q == c.lastPrio \div c.width
  <1>1. /\ c.nBuckets \in Nat \ {0} /\ c.width \in Nat \ {0} /\ c.lastPrio \in Nat
        /\ Calendar!Events(c) \subseteq Event
    BY ShapeFacts
  <1>2. /\ k \in 0 .. c.nBuckets - 1 /\ b \in 0 .. c.nBuckets - 1
        /\ e \in Calendar!Events(c) /\ e.ts \div c.width = q + k
    BY DueThatDay
  <1>3. q \in Nat /\ b = (q + k) % c.nBuckets
    BY <1>2, DayFacts
  <1>4. e \in Event /\ e.ts \in Nat
    BY <1>1, <1>2 DEF Event
  <1> HIDE DEF e, b, q
  <1>5. ASSUME NEW f \in Calendar!Events(c) \ {e}
        PROVE  Precedes(e, f)
    <2> DEFINE qf == f.ts \div c.width
    <2>1. f \in Event /\ f.ts \in Nat /\ f.ts >= c.lastPrio
      <3>1. PICK a \in 0 .. c.nBuckets - 1 : f \in Range(c.buckets[a])
        BY ShapeFacts
      <3>2. f.ts >= c.lastPrio
        BY <3>1, ShapeFacts
      <3> QED
        BY <1>1, <3>2 DEF Event
    <2>2. qf \in Nat /\ q <= qf
      <3>1. qf \in Nat
        BY <1>1, <2>1, DivisionOf
      <3>2. q <= qf
        BY <1>1, <2>1, DaysInOrder DEF q
      <3> QED
        BY <3>1, <3>2
    <2> DEFINE a == Calendar!Hash(c, f.ts)
               h == Head(c.buckets[a])
    <2>3. /\ a \in 0 .. c.nBuckets - 1 /\ c.buckets[a] # <<>> /\ h \in Calendar!Events(c)
          /\ f = h \/ Precedes(h, f)
      BY InItsBucket
    <2>4. a = qf % c.nBuckets
      BY DEF Calendar!Hash
    <2>5. h \in Event /\ h.ts \in Nat /\ h.ts <= f.ts
      <3>1. h \in Event
        BY <1>1, <2>3
      <3> HIDE DEF h
      <3> QED
        BY <2>1, <2>3, <3>1 DEF Event, Precedes
    <2> HIDE DEF a
    <2>6. CASE qf < q + k
      <3> DEFINE j == qf - q
      <3>1. j \in 0 .. c.nBuckets - 1 /\ q + j = qf /\ j < k /\ j \in Nat
        BY <1>1, <1>2, <1>3, <2>2, <2>6
      <3> HIDE DEF j, qf
      <3>2. Calendar!Day(c, j) = (q + j) % c.nBuckets /\ Calendar!Top(c, j) = (q + j + 1) * c.width
        BY <3>1, DayFacts DEF q
      <3>3. Calendar!Day(c, j) = a
        BY <2>4, <3>1, <3>2
      <3>4. f.ts < (qf + 1) * c.width /\ (qf + 1) * c.width \in Nat
        <4>1. qf <= qf
          BY <2>2
        <4>2. f.ts < (qf + 1) * c.width
          BY <1>1, <2>1, <2>2, <4>1, DayOf DEF qf
        <4> QED
          BY <1>1, <2>2, <4>2
      <3>5. h.ts < Calendar!Top(c, j)
        <4> HIDE DEF h
        <4> QED
          BY <2>1, <2>5, <3>1, <3>2, <3>4
      <3>6. j \in Calendar!DaysDue(c)
        BY <2>3, <3>1, <3>3, <3>5 DEF Calendar!DaysDue
      <3> QED
        BY <1>2, <3>1, <3>6
    <2>7. CASE qf = q + k
      <3>1. a = b
        BY <1>3, <2>4, <2>7
      <3> QED
        BY <2>3, <3>1 DEF e
    <2>8. CASE qf > q + k
      <3>1. e.ts \div c.width < f.ts \div c.width
        BY <1>2, <1>3, <2>2, <2>8
      <3>2. e.ts < f.ts
        BY <1>1, <1>4, <2>1, <3>1, DaysInOrder
      <3> QED
        BY <3>2 DEF Precedes
    <2> QED
      BY <1>2, <1>3, <2>2, <2>6, <2>7, <2>8
  <1> QED
    BY <1>2, <1>5 DEF IsFirst, e, b

\* Of the heads of the buckets, the earliest is the earliest of all.
LEMMA FirstFront ==
  ASSUME NEW c, Shape(c), Calendar!Events(c) # {}
  PROVE  LET e == CHOOSE f \in Calendar!Fronts(c) : Calendar!IsFirst(f, Calendar!Fronts(c))
         IN  /\ IsFirst(e, Calendar!Events(c))
             /\ c.buckets[Calendar!Hash(c, e.ts)] # <<>>
             /\ e = Head(c.buckets[Calendar!Hash(c, e.ts)])
  <1> DEFINE F == Calendar!Fronts(c)
             e == CHOOSE f \in F : Calendar!IsFirst(f, F)
  <1>1. DOMAIN c.buckets = 0 .. c.nBuckets - 1 /\ Calendar!Events(c) \subseteq Event
    BY ShapeFacts
  <1>2. \A f : f \in F <=> \E b \in 0 .. c.nBuckets - 1 : c.buckets[b] # <<>> /\ f = Head(c.buckets[b])
    BY <1>1 DEF Calendar!Fronts
  <1>3. \A f \in Calendar!Events(c) : \E h \in F : f = h \/ Precedes(h, f)
    <2> SUFFICES ASSUME NEW f \in Calendar!Events(c)
                 PROVE  \E h \in F : f = h \/ Precedes(h, f)
      OBVIOUS
    <2> DEFINE b == Calendar!Hash(c, f.ts)
    <2>1. /\ b \in 0 .. c.nBuckets - 1 /\ c.buckets[b] # <<>>
          /\ f = Head(c.buckets[b]) \/ Precedes(Head(c.buckets[b]), f)
      BY InItsBucket
    <2>2. Head(c.buckets[b]) \in F
      BY <1>2, <2>1
    <2> QED
      BY <2>1, <2>2
  <1>4. ASSUME NEW b \in 0 .. c.nBuckets - 1, c.buckets[b] # <<>>
        PROVE  Head(c.buckets[b]) \in Calendar!Events(c) /\ Calendar!Hash(c, Head(c.buckets[b]).ts) = b
    <2>1. c.buckets[b] \in Seq(Event) /\ Sorted(c.buckets[b])
      <3>1. c.buckets \in [0 .. c.nBuckets - 1 -> Seq(Event)]
        BY ShapeFacts
      <3> QED
        BY <3>1 DEF Shape, Filed
    <2>2. Head(c.buckets[b]) \in Range(c.buckets[b])
      BY <1>4, <2>1, FrontIsFirst
    <2> QED
      BY <2>2, ShapeFacts
  <1>5. F \subseteq Calendar!Events(c)
    BY <1>2, <1>4
  <1>6. F # {} /\ F \in SUBSET Event /\ OneEach(F)
    <2>1. OneEach(Calendar!Events(c))
      BY DEF Shape
    <2> QED
      BY <1>1, <1>3, <1>5, <2>1 DEF OneEach
  <1> HIDE DEF F
  <1>7. \E f \in F : IsFirst(f, F)
    BY <1>6, LeastEvent
  <1>8. \A f : Calendar!IsFirst(f, F) <=> IsFirst(f, F)
    BY DEF Calendar!IsFirst, IsFirst, Calendar!Precedes, Precedes
  <1>9. e \in F /\ IsFirst(e, F)
    BY <1>7, <1>8
  <1> HIDE DEF e
  <1>10. e \in Calendar!Events(c)
    BY <1>5, <1>9
  <1>11. ASSUME NEW f \in Calendar!Events(c) \ {e}
         PROVE  Precedes(e, f)
    <2>1. PICK h \in F : f = h \/ Precedes(h, f)
      BY <1>3
    <2>2. h = e \/ Precedes(e, h)
      BY <1>9 DEF IsFirst
    <2>3. e \in Event /\ f \in Event /\ h \in Event
      BY <1>1, <1>5, <1>10
    <2> QED
      BY <2>1, <2>2, <2>3, PrecedesOrder
  <1>12. IsFirst(e, Calendar!Events(c))
    BY <1>10, <1>11 DEF IsFirst
  <1>13. PICK b \in 0 .. c.nBuckets - 1 : c.buckets[b] # <<>> /\ e = Head(c.buckets[b])
    BY <1>2, <1>9
  <1>14. Calendar!Hash(c, e.ts) = b
    BY <1>4, <1>13
  <1> QED
    BY <1>12, <1>13, <1>14 DEF e, F

\* DoRemoveNext gives out the earliest event, from the coming year or a later one.
LEMMA DoRemoveNextGives ==
  ASSUME NEW c, Shape(c), Calendar!Events(c) # {}
  PROVE  GivesEarliest(c, Calendar!DoRemoveNext(c))
  <1>1. CASE Calendar!DaysDue(c) # {}
    <2> DEFINE k == Calendar!Min(Calendar!DaysDue(c))
               b == Calendar!Day(c, k)
               e == Head(c.buckets[b])
               t == Calendar!Top(c, k)
    <2>1. k \in Calendar!DaysDue(c) /\ \A j \in Calendar!DaysDue(c) : k <= j
      <3>1. Calendar!DaysDue(c) \in SUBSET Nat
        BY ShapeFacts DEF Calendar!DaysDue
      <3> QED
        BY <1>1, <3>1, MinOf
    <2> HIDE DEF k
    <2>2. IsFirst(e, Calendar!Events(c))
      BY <2>1, FirstDay
    <2>3. /\ k \in 0 .. c.nBuckets - 1 /\ b \in 0 .. c.nBuckets - 1 /\ c.buckets[b] # <<>>
          /\ e.ts \div c.width = (c.lastPrio \div c.width) + k
      BY <2>1, DueThatDay
    <2>4. b = (e.ts \div c.width) % c.nBuckets /\ t = (e.ts \div c.width + 1) * c.width
      <3>1. b = ((c.lastPrio \div c.width) + k) % c.nBuckets
            /\ t = ((c.lastPrio \div c.width) + k + 1) * c.width
        BY <2>3, DayFacts
      <3> QED
        BY <2>3, <3>1
    <2>5. Calendar!DoRemoveNext(c) =
              [event |-> e, rest |-> [c EXCEPT !.lastBucket = b, !.lastPrio = e.ts,
                                               !.bucketTop = t, !.buckets[b] = Tail(@)]]
      BY <1>1 DEF Calendar!DoRemoveNext, k
    <2> HIDE DEF b, e, t
    <2>6. e = Head(c.buckets[b])
      BY DEF e
    <2>7. Calendar!DoRemoveNext(c) = HeadTaken(c, b)
      BY <2>4, <2>5, <2>6 DEF HeadTaken
    <2>8. GivesEarliest(c, HeadTaken(c, b))
      BY <2>2, <2>3, <2>6, TakeHead
    <2> QED
      BY <2>7, <2>8
  <1>2. CASE Calendar!DaysDue(c) = {}
    <2> DEFINE e == CHOOSE f \in Calendar!Fronts(c) : Calendar!IsFirst(f, Calendar!Fronts(c))
               b == Calendar!Hash(c, e.ts)
               t == (e.ts \div c.width + 1) * c.width
    <2>1. IsFirst(e, Calendar!Events(c)) /\ c.buckets[b] # <<>> /\ e = Head(c.buckets[b])
      BY FirstFront
    <2>2. Calendar!DoRemoveNext(c) =
              [event |-> e, rest |-> [c EXCEPT !.lastBucket = b, !.lastPrio = e.ts,
                                               !.bucketTop = t, !.buckets[b] = Tail(@)]]
      BY <1>2 DEF Calendar!DoRemoveNext
    <2> HIDE DEF e
    <2>3. e \in Event
      BY <2>1, ShapeFacts DEF IsFirst
    <2>4. b \in 0 .. c.nBuckets - 1
      BY <2>3, ShapeFacts
    <2>5. b = (e.ts \div c.width) % c.nBuckets /\ t = (e.ts \div c.width + 1) * c.width
      BY DEF Calendar!Hash
    <2> HIDE DEF b, t
    <2>7. Calendar!DoRemoveNext(c) = HeadTaken(c, b)
      BY <2>1, <2>2, <2>5 DEF HeadTaken
    <2>8. GivesEarliest(c, HeadTaken(c, b))
      BY <2>1, <2>4, TakeHead
    <2> QED
      BY <2>7, <2>8
  <1> QED
    BY <1>1, <1>2

-----------------------------------------------------------------------------
\* Two courses of a loop of k turns that begin alike and, while alike, go on alike.
Alike(f, g, k) == g[0] = f[0] /\ \A n \in 1 .. k : g[n - 1] = f[n - 1] => g[n] = f[n]

\* A loop has one course.
LEMMA SameLoop ==
  ASSUME NEW k \in Nat, NEW f, NEW g, Alike(f, g, k)
  PROVE  \A n \in 0 .. k : g[n] = f[n]
  <1> DEFINE P == {n \in 0 .. k : g[n] = f[n]}
  <1>1. 0 \in P
    BY DEF Alike
  <1>2. ASSUME NEW n \in 1 .. k, n - 1 \in P PROVE n \in P
    BY <1>2 DEF Alike
  <1> HIDE DEF P
  <1>3. \A n \in 0 .. k : n \in P
    BY <1>1, <1>2, Induction
  <1> QED
    BY <1>3 DEF P

\* The calendar counts its events.
Counted(c) == IsFiniteSet(Calendar!Events(c)) /\ Cardinality(Calendar!Events(c)) = c.qSize

\* The samples CalculateNewWidth takes: there are as many events as it asks for.
LEMMA SamplesType ==
  ASSUME NEW c, Shape(c), IsFiniteSet(Calendar!Events(c)), NEW k \in Nat,
         k <= Cardinality(Calendar!Events(c))
  PROVE  Calendar!Samples(c, k) \in Seq(Event) /\ Len(Calendar!Samples(c, k)) = k
  <1> DEFINE o == [calendar |-> c, samples |-> <<>>]
             Body(g) == [i \in 0 .. k |-> IF i = 0 THEN o ELSE Calendar!TakeSample(g[i - 1])]
             g == CHOOSE f : f = Body(f)
             S == {s \in [calendar : Calendars, samples : Seq(Event)] : Shape(s.calendar)}
             Take(s) == IF Calendar!Events(s.calendar) = {} THEN s ELSE Calendar!TakeSample(s)
             T == [n \in 1 .. k |-> [s \in S |-> Take(s)]]
  <1>1. ASSUME NEW s \in S, Calendar!Events(s.calendar) # {}
        PROVE  /\ Calendar!TakeSample(s) \in S
               /\ \E e \in Calendar!Events(s.calendar) :
                     Calendar!Events(Calendar!TakeSample(s).calendar) = Calendar!Events(s.calendar) \ {e}
               /\ Len(Calendar!TakeSample(s).samples) = Len(s.samples) + 1
    <2> DEFINE r == Calendar!DoRemoveNext(s.calendar)
    <2>1. GivesEarliest(s.calendar, r)
      BY <1>1, DoRemoveNextGives
    <2>2. /\ r.event \in Calendar!Events(s.calendar) /\ Shape(r.rest) /\ r.rest \in Calendars
          /\ Calendar!Events(r.rest) = Calendar!Events(s.calendar) \ {r.event}
      BY <2>1 DEF GivesEarliest, Shape
    <2>3. r.event \in Event
      BY <2>2, ShapeFacts
    <2>4. Calendar!TakeSample(s) = [calendar |-> r.rest, samples |-> Append(s.samples, r.event)]
      BY DEF Calendar!TakeSample
    <2> HIDE DEF r
    <2>5. s.samples \in Seq(Event) /\ Append(s.samples, r.event) \in Seq(Event)
          /\ Len(Append(s.samples, r.event)) = Len(s.samples) + 1
      BY <2>3, AppendProperties
    <2>6. /\ [calendar |-> r.rest, samples |-> Append(s.samples, r.event)] \in S
          /\ Calendar!TakeSample(s).calendar = r.rest
          /\ Calendar!TakeSample(s).samples = Append(s.samples, r.event)
      BY <2>2, <2>4, <2>5
    <2> QED
      BY <2>2, <2>4, <2>5, <2>6
  <1>2. o \in S /\ T \in Bodies(k, S)
    <2>1. o \in S
      BY EmptySeq DEF Shape
    <2>2. \A s \in S : Take(s) \in S
      BY <1>1
    <2> QED
      BY <2>1, <2>2 DEF Bodies
  <1> HIDE DEF S
  <1>3. PICK f : IsLoop(f, T, o, k, S)
    <2> HIDE DEF T, o
    <2> QED
      BY <1>2, LoopExists
  <1>4. \A n \in 1 .. k : f[n - 1] \in S /\ f[n] = Take(f[n - 1])
    <2> SUFFICES ASSUME NEW n \in 1 .. k
                 PROVE  f[n - 1] \in S /\ f[n] = Take(f[n - 1])
      OBVIOUS
    <2>1. f[n - 1] \in S
      BY <1>3 DEF IsLoop
    <2>2. T[n][f[n - 1]] = Take(f[n - 1])
      BY <2>1
    <2> QED
      BY <1>3, <2>1, <2>2 DEF IsLoop
  <1> HIDE DEF T
  <1> DEFINE N == Cardinality(Calendar!Events(c))
             Left(n) == Calendar!Events(f[n].calendar)
  <1>0. N \in Nat
    BY FS_CardinalityType
  <1>5. \A n \in 0 .. k : f[n] \in S /\ IsFiniteSet(Left(n)) /\ Cardinality(Left(n)) = N - n /\ Len(f[n].samples) = n
    <2> DEFINE P == {n \in 0 .. k : f[n] \in S /\ IsFiniteSet(Left(n))
                                      /\ Cardinality(Left(n)) = N - n /\ Len(f[n].samples) = n}
    <2>1. 0 \in P
      <3>1. f[0] = o
        BY <1>3 DEF IsLoop
      <3>2. Len(<<>>) = 0
        BY EmptySeq
      <3> QED
        BY <1>0, <1>2, <3>1, <3>2
    <2>2. ASSUME NEW n \in 1 .. k, n - 1 \in P PROVE n \in P
      <3>1. /\ f[n - 1] \in S /\ IsFiniteSet(Left(n - 1)) /\ Cardinality(Left(n - 1)) = N - (n - 1)
            /\ Len(f[n - 1].samples) = n - 1
        BY <2>2
      <3>2. Left(n - 1) # {}
        BY <1>0, <3>1, FS_EmptySet
      <3>3. f[n] = Calendar!TakeSample(f[n - 1])
        BY <1>4, <3>2
      <3>4. /\ f[n] \in S /\ Len(f[n].samples) = Len(f[n - 1].samples) + 1
            /\ \E e \in Left(n - 1) : Left(n) = Left(n - 1) \ {e}
        BY <1>1, <3>1, <3>2, <3>3
      <3>5. IsFiniteSet(Left(n)) /\ Cardinality(Left(n)) = Cardinality(Left(n - 1)) - 1
        BY <3>1, <3>4, FS_RemoveElement
      <3> HIDE DEF Left, N
      <3>6. Cardinality(Left(n)) = N - n /\ Len(f[n].samples) = n
        BY <1>0, <3>1, <3>4, <3>5
      <3>7. f[n] \in S /\ IsFiniteSet(Left(n)) /\ n \in 0 .. k
        BY <3>4, <3>5
      <3> QED
        BY <3>6, <3>7, Zenon
    <2> HIDE DEF P
    <2>3. \A n \in 0 .. k : n \in P
      BY <2>1, <2>2, Induction
    <2> QED
      BY <2>3 DEF P
  <1>6. \A n \in 1 .. k : f[n] = Calendar!TakeSample(f[n - 1])
    <2> SUFFICES ASSUME NEW n \in 1 .. k
                 PROVE  f[n] = Calendar!TakeSample(f[n - 1])
      OBVIOUS
    <2>1. n - 1 \in 0 .. k /\ N - (n - 1) # 0
      BY <1>0
    <2>2. Left(n - 1) # {}
      BY <1>5, <2>1, FS_EmptySet
    <2> QED
      BY <1>4, <2>2
  <1>7. f = Body(f)
    <2>1. f[0] = o /\ f = [n \in 0 .. k |-> f[n]]
      BY <1>3 DEF IsLoop
    <2> HIDE DEF o
    <2>2. ASSUME NEW i \in 0 .. k
          PROVE  f[i] = IF i = 0 THEN o ELSE Calendar!TakeSample(f[i - 1])
      <3>1. i = 0 \/ (i # 0 /\ i \in 1 .. k)
        OBVIOUS
      <3> QED
        BY <1>6, <2>1, <3>1, Zenon
    <2> QED
      BY <2>1, <2>2
  <1>8. g = Body(g)
    <2> HIDE DEF Body
    <2> QED
      BY <1>7
  <1>9. Calendar!Samples(c, k) = g[k].samples
    BY DEF Calendar!Samples
  <1> HIDE DEF g
  <1>10. g[0] = o /\ \A n \in 1 .. k : g[n] = Calendar!TakeSample(g[n - 1])
    BY <1>8
  <1>11. g[k] = f[k]
    <2>1. Alike(f, g, k)
      BY <1>3, <1>6, <1>10 DEF IsLoop, Alike
    <2>2. \A n \in 0 .. k : g[n] = f[n]
      BY <2>1, SameLoop
    <2> QED
      BY <2>2
  <1>12. f[k] \in S /\ Len(f[k].samples) = k
    BY <1>5
  <1> QED
    BY <1>9, <1>11, <1>12 DEF S

\* Two samples at least, and no more than there are events.
LEMMA SampleCountRange ==
  ASSUME NEW q \in Nat, q >= 2
  PROVE  Calendar!SampleCount(q) \in 2 .. q
  BY DEF Calendar!SampleCount

\* The sum of the separations is a number.
LEMMA SeparationType ==
  ASSUME NEW x \in Seq(Event), Len(x) >= 2, NEW limit \in Int
  PROVE  Calendar!Separation(x, limit) \in Int
  <1> DEFINE k == Len(x) - 1
             gap(i) == x[i + 1].ts - x[i].ts
             Add(i, s) == IF gap(i) <= limit THEN s + gap(i) ELSE s
             Body(g) == [i \in 0 .. k |->
                            IF i = 0 THEN 0
                            ELSE IF gap(i) <= limit THEN g[i - 1] + gap(i) ELSE g[i - 1]]
             g == CHOOSE f : f = Body(f)
             T == [i \in 1 .. k |-> [s \in Int |-> Add(i, s)]]
  <1>1. k \in Nat /\ \A i \in 1 .. k : gap(i) \in Int
    <2>1. Len(x) \in Nat
      BY LenProperties
    <2>2. \A i \in 1 .. Len(x) : x[i].ts \in Nat
      <3>1. \A i \in 1 .. Len(x) : x[i] \in Event
        BY ElementOfSeq
      <3> QED
        BY <3>1 DEF Event
    <2>3. \A i \in 1 .. k : i \in 1 .. Len(x) /\ i + 1 \in 1 .. Len(x)
      BY <2>1
    <2> QED
      BY <2>1, <2>2, <2>3
  <1>2. Calendar!Separation(x, limit) = g[k]
    BY DEF Calendar!Separation
  <1> HIDE DEF k, gap
  <1>3. T \in Bodies(k, Int)
    BY <1>1 DEF Bodies
  <1>4. PICK f : IsLoop(f, T, 0, k, Int)
    <2>1. PICK S : S = Int
      OBVIOUS
    <2>2. 0 \in S /\ T \in Bodies(k, S)
      BY <1>3, <2>1
    <2> HIDE DEF T
    <2>3. \E f : IsLoop(f, T, 0, k, S)
      BY <1>1, <2>2, LoopExists
    <2> QED
      BY <2>1, <2>3
  <1>5. \A i \in 1 .. k : f[i - 1] \in Int /\ f[i] = Add(i, f[i - 1])
    <2> SUFFICES ASSUME NEW i \in 1 .. k
                 PROVE  f[i - 1] \in Int /\ f[i] = Add(i, f[i - 1])
      OBVIOUS
    <2>1. f[i - 1] \in Int
      BY <1>1, <1>4 DEF IsLoop
    <2>2. T[i][f[i - 1]] = Add(i, f[i - 1])
      BY <2>1
    <2> HIDE DEF T, Add
    <2> QED
      BY <1>4, <2>1, <2>2 DEF IsLoop
  <1> HIDE DEF T
  <1>6. f = Body(f)
    <2>1. f[0] = 0 /\ f = [i \in 0 .. k |-> f[i]]
      BY <1>4 DEF IsLoop
    <2> QED
      BY <1>1, <1>5, <2>1
  <1>7. g = Body(g)
    <2> HIDE DEF Body
    <2> QED
      BY <1>6
  <1> HIDE DEF g
  <1>8. g[0] = 0 /\ \A i \in 1 .. k : g[i] = Add(i, g[i - 1])
    BY <1>1, <1>7
  <1>9. g[k] = f[k]
    <2>1. Alike(f, g, k)
      <3> HIDE DEF Add
      <3> QED
        BY <1>4, <1>5, <1>8 DEF IsLoop, Alike
    <2>2. \A n \in 0 .. k : g[n] = f[n]
      BY <1>1, <2>1, SameLoop
    <2> QED
      BY <1>1, <2>2
  <1>10. f[k] \in Int
    BY <1>1, <1>4 DEF IsLoop
  <1> QED
    BY <1>2, <1>9, <1>10

\* The new width of a day is positive.
LEMMA WidthType ==
  ASSUME NEW c, Shape(c), Counted(c)
  PROVE  Calendar!CalculateNewWidth(c) \in Nat \ {0}
  <1>0. c.qSize \in Nat
    BY ShapeFacts
  <1>1. CASE c.qSize < 2
    BY <1>1 DEF Calendar!CalculateNewWidth
  <1>2. CASE ~(c.qSize < 2)
    <2> DEFINE n == Calendar!SampleCount(c.qSize)
               x == Calendar!Samples(c, n)
               all == x[Len(x)].ts - x[1].ts
               limit == 2 * (all \div (Len(x) - 1))
               width == 3 * Calendar!Separation(x, limit)
    <2>1. n \in 2 .. c.qSize
      BY <1>0, <1>2, SampleCountRange
    <2> HIDE DEF n
    <2>2. x \in Seq(Event) /\ Len(x) = n
      BY <1>0, <2>1, SamplesType DEF Counted
    <2>3. all \in Int
      <3>1. Len(x) \in 1 .. Len(x) /\ 1 \in 1 .. Len(x)
        BY <1>0, <2>1, <2>2
      <3>2. \A i \in 1 .. Len(x) : x[i].ts \in Nat
        <4> HIDE DEF x
        <4>1. \A i \in 1 .. Len(x) : x[i] \in Event
          BY <2>2, ElementOfSeq
        <4> QED
          BY <4>1 DEF Event
      <3> HIDE DEF x
      <3> QED
        BY <3>1, <3>2
    <2> HIDE DEF all
    <2>4. limit \in Int
      <3> DEFINE m == Len(x) - 1
      <3>1. m \in Nat \ {0}
        BY <1>0, <2>1, <2>2
      <3> HIDE DEF m
      <3>2. all \div m \in Int
        BY <2>3, <3>1, SMTT(30)
      <3> QED
        BY <3>2 DEF m
    <2> HIDE DEF limit, x
    <2>5. Calendar!Separation(x, limit) \in Int
      BY <1>0, <2>1, <2>2, <2>4, SeparationType
    <2>6. width \in Int
      BY <2>5
    <2>7. Calendar!CalculateNewWidth(c) = IF width > 1 THEN width ELSE 1
      BY <1>2 DEF Calendar!CalculateNewWidth, x, n, all, limit
    <2> HIDE DEF width
    <2> QED
      BY <2>6, <2>7
  <1> QED
    BY <1>1, <1>2

-----------------------------------------------------------------------------
\* Init makes an empty calendar at the day of startPrio.
LEMMA OpenedShape ==
  ASSUME NEW n \in Nat \ {0}, NEW w \in Nat \ {0}, NEW p \in Nat, NEW q \in Nat
  PROVE  LET d == Calendar!Opened(n, w, p, q)
         IN  /\ Shape(d) /\ Calendar!Events(d) = {}
             /\ d.nBuckets = n /\ d.width = w /\ d.lastPrio = p /\ d.qSize = q
  <1> DEFINE d == Calendar!Opened(n, w, p, q)
             x == [i \in 0 .. n - 1 |-> <<>>]
             y == p \div w
  <1>1. y \in Nat
    BY DivisionOf
  <1> HIDE DEF y
  <1>2. y % n \in 0 .. n - 1 /\ (y + 1) * w \in Nat
    BY <1>1, DivisionOf
  <1>3. <<>> \in Seq(Event) /\ Len(<<>>) = 0 /\ Range(<<>>) = {}
    BY EmptySeq DEF Range
  <1>4. x \in [0 .. n - 1 -> Seq(Event)]
    BY <1>3
  <1>5. d = [buckets |-> x, nBuckets |-> n, width |-> w, qSize |-> q, lastPrio |-> p,
             lastBucket |-> y % n, bucketTop |-> (y + 1) * w]
    BY DEF Calendar!Opened, y
  <1>6. d \in Calendars
    <2>1. y % n \in Nat /\ (y + 1) * w \in Nat
      BY <1>2
    <2> HIDE DEF d, x
    <2> QED
      BY <1>4, <1>5, <2>1, CalendarType
  <1>7. /\ d.buckets = x /\ d.nBuckets = n /\ d.width = w /\ d.lastPrio = p /\ d.qSize = q
        /\ d.lastBucket = y % n /\ d.bucketTop = (y + 1) * w
    BY <1>5
  <1>8. \A b \in 0 .. n - 1 : d.buckets[b] = <<>>
    BY <1>7
  <1> HIDE DEF d, x
  <1>9. Calendar!Events(d) = {}
    <2>1. \A e : e \in Calendar!Events(d) <=> \E b \in 0 .. n - 1 : e \in Range(d.buckets[b])
      BY <1>4, <1>7, EventsOf
    <2> QED
      BY <1>3, <1>8, <2>1
  <1>10. AtItsDay(d)
    BY <1>7 DEF AtItsDay, y
  <1>11. \A b \in 0 .. n - 1 : Filed(d, b, d.buckets[b])
    BY <1>3, <1>8 DEF Filed, Sorted
  <1>12. OneEach({})
    BY DEF OneEach
  <1>13. Shape(d)
    BY <1>4, <1>6, <1>7, <1>9, <1>10, <1>11, <1>12 DEF Shape
  <1> QED
    BY <1>7, <1>9, <1>13 DEF d

\* The calendar c has none of the events of s, and all of them are still to come.
Fileable(c, s) ==
    /\ Shape(c) /\ s \in Seq(Event) /\ Distinct(s)
    /\ \A e \in Range(s) : e.ts >= c.lastPrio /\ \A f \in Calendar!Events(c) : f.uid # e.uid

\* By induction on the events of the bucket.
LEMMA InsertAllFiles ==
  ASSUME NEW c, NEW s, Fileable(c, s)
  PROVE  /\ Shape(Calendar!InsertAll(c, s))
         /\ Calendar!Events(Calendar!InsertAll(c, s)) = Calendar!Events(c) \cup Range(s)
         /\ SameDays(c, Calendar!InsertAll(c, s))
  <1> SUFFICES ASSUME Shape(c), s \in Seq(Event), Distinct(s),
                      \A e \in Range(s) : e.ts >= c.lastPrio,
                      \A e \in Range(s) : \A f \in Calendar!Events(c) : f.uid # e.uid
               PROVE  /\ Shape(Calendar!InsertAll(c, s))
                      /\ Calendar!Events(Calendar!InsertAll(c, s)) = Calendar!Events(c) \cup Range(s)
                      /\ SameDays(c, Calendar!InsertAll(c, s))
    BY DEF Fileable
  <1> DEFINE k == Len(s)
             Body(g) == [i \in 0 .. k |-> IF i = 0 THEN c ELSE Calendar!DoInsert(g[i - 1], s[i])]
             g == CHOOSE f : f = Body(f)
             S == {d \in Calendars : Shape(d) /\ SameDays(c, d)}
             New(i, d) == \A f \in Calendar!Events(d) : f.uid # s[i].uid
             Put(i, d) == IF New(i, d) THEN Calendar!DoInsert(d, s[i]) ELSE d
             T == [i \in 1 .. k |-> [d \in S |-> Put(i, d)]]
             Upto(i) == {s[j] : j \in 1 .. i}
  <1>0. k \in Nat /\ \A i \in 1 .. k : s[i] \in Event /\ s[i] \in Range(s) /\ s[i].ts >= c.lastPrio
    BY LenProperties, ElementOfSeq, RangeItems
  <1>1. ASSUME NEW i \in 1 .. k, NEW d \in S, New(i, d)
        PROVE  /\ Calendar!DoInsert(d, s[i]) \in S
               /\ Calendar!Events(Calendar!DoInsert(d, s[i])) = Calendar!Events(d) \cup {s[i]}
    <2>1. Shape(d) /\ SameDays(c, d) /\ s[i] \in Event /\ s[i].ts >= d.lastPrio
      BY <1>0 DEF SameDays
    <2>2. /\ Shape(Calendar!DoInsert(d, s[i])) /\ SameDays(d, Calendar!DoInsert(d, s[i]))
          /\ Calendar!Events(Calendar!DoInsert(d, s[i])) = Calendar!Events(d) \cup {s[i]}
      BY <1>1, <2>1, DoInsertFiles
    <2>3. Calendar!DoInsert(d, s[i]) \in Calendars
      BY <2>2 DEF Shape
    <2> QED
      BY <2>1, <2>2, <2>3 DEF SameDays
  <1>2. Calendar!InsertAll(c, s) = g[k]
    BY DEF Calendar!InsertAll
  <1> HIDE DEF k
  <1>3. c \in S /\ T \in Bodies(k, S)
    <2>1. c \in S
      BY DEF Shape, SameDays
    <2>2. \A i \in 1 .. k : \A d \in S : Put(i, d) \in S
      BY <1>1
    <2> HIDE DEF Put, S
    <2> QED
      BY <2>1, <2>2 DEF Bodies
  <1> HIDE DEF S
  <1>4. PICK f : IsLoop(f, T, c, k, S)
    <2> HIDE DEF T
    <2> QED
      BY <1>0, <1>3, LoopExists
  <1>5. \A i \in 1 .. k : f[i - 1] \in S /\ f[i] = Put(i, f[i - 1])
    <2> SUFFICES ASSUME NEW i \in 1 .. k
                 PROVE  f[i - 1] \in S /\ f[i] = Put(i, f[i - 1])
      OBVIOUS
    <2>1. f[i - 1] \in S
      BY <1>0, <1>4 DEF IsLoop
    <2>2. T[i][f[i - 1]] = Put(i, f[i - 1])
      BY <2>1
    <2> HIDE DEF T, Put
    <2> QED
      BY <1>4, <2>1, <2>2 DEF IsLoop
  <1> HIDE DEF T
  <1>6. ASSUME NEW i \in 1 .. k, NEW d, Calendar!Events(d) = Calendar!Events(c) \cup Upto(i - 1)
        PROVE  New(i, d)
    <2> SUFFICES ASSUME NEW f_1 \in Calendar!Events(d), f_1.uid = s[i].uid PROVE FALSE
      OBVIOUS
    <2>1. CASE f_1 \in Calendar!Events(c)
      BY <1>0, <2>1
    <2>2. CASE f_1 \in Upto(i - 1)
      <3>1. PICK j \in 1 .. i - 1 : f_1 = s[j]
        BY <2>2
      <3>2. j \in 1 .. Len(s) /\ i \in 1 .. Len(s) /\ j # i
        BY <1>0 DEF k
      <3> QED
        BY <3>1, <3>2 DEF Distinct
    <2> QED
      BY <1>6, <2>1, <2>2
  <1>7. \A i \in 0 .. k : f[i] \in S /\ Calendar!Events(f[i]) = Calendar!Events(c) \cup Upto(i)
    <2> DEFINE P == {i \in 0 .. k : f[i] \in S /\ Calendar!Events(f[i]) = Calendar!Events(c) \cup Upto(i)}
    <2>1. 0 \in P
      BY <1>0, <1>3, <1>4 DEF IsLoop
    <2>2. ASSUME NEW i \in 1 .. k, i - 1 \in P PROVE i \in P
      <3>1. f[i - 1] \in S /\ Calendar!Events(f[i - 1]) = Calendar!Events(c) \cup Upto(i - 1)
        BY <2>2
      <3>2. New(i, f[i - 1])
        BY <1>6, <3>1
      <3>3. f[i] = Calendar!DoInsert(f[i - 1], s[i])
        BY <1>5, <3>2
      <3>4. f[i] \in S /\ Calendar!Events(f[i]) = Calendar!Events(f[i - 1]) \cup {s[i]}
        BY <1>1, <3>1, <3>2, <3>3
      <3>5. Upto(i) = Upto(i - 1) \cup {s[i]}
        <4>1. \A j \in 1 .. i : j \in 1 .. i - 1 \/ j = i
          BY <1>0
        <4>2. i \in 1 .. i /\ \A j \in 1 .. i - 1 : j \in 1 .. i
          BY <1>0
        <4> QED
          BY <4>1, <4>2
      <3>6. Calendar!Events(f[i]) = Calendar!Events(c) \cup Upto(i)
        <4> HIDE DEF Upto
        <4> QED
          BY <3>1, <3>4, <3>5
      <3>7. i \in 0 .. k /\ f[i] \in S
        BY <1>0, <3>4
      <3> HIDE DEF Upto
      <3> QED
        BY <3>6, <3>7, Zenon
    <2> HIDE DEF P
    <2>3. \A i \in 0 .. k : i \in P
      BY <1>0, <2>1, <2>2, Induction
    <2> QED
      BY <2>3 DEF P
  <1>8. \A i \in 1 .. k : f[i] = Calendar!DoInsert(f[i - 1], s[i])
    <2> SUFFICES ASSUME NEW i \in 1 .. k
                 PROVE  f[i] = Calendar!DoInsert(f[i - 1], s[i])
      OBVIOUS
    <2>1. i - 1 \in 0 .. k
      BY <1>0
    <2>2. New(i, f[i - 1])
      BY <1>6, <1>7, <2>1
    <2> QED
      BY <1>5, <2>2
  <1>9. f = Body(f)
    <2>1. f[0] = c /\ f = [i \in 0 .. k |-> f[i]]
      BY <1>4 DEF IsLoop
    <2>2. ASSUME NEW i \in 0 .. k
          PROVE  f[i] = IF i = 0 THEN c ELSE Calendar!DoInsert(f[i - 1], s[i])
      <3>1. i = 0 \/ (i # 0 /\ i \in 1 .. k)
        BY <1>0
      <3> QED
        BY <1>8, <2>1, <3>1, Zenon
    <2> QED
      BY <2>1, <2>2
  <1>10. g = Body(g)
    <2> HIDE DEF Body
    <2> QED
      BY <1>9
  <1> HIDE DEF g
  <1>11. g[0] = c /\ \A i \in 1 .. k : g[i] = Calendar!DoInsert(g[i - 1], s[i])
    BY <1>0, <1>10
  <1>12. g[k] = f[k]
    <2>1. Alike(f, g, k)
      BY <1>4, <1>8, <1>11 DEF IsLoop, Alike
    <2>2. k \in Nat
      BY <1>0
    <2>3. \A n \in 0 .. k : g[n] = f[n]
      BY <2>1, <2>2, SameLoop
    <2> QED
      BY <2>2, <2>3
  <1>13. f[k] \in S /\ Calendar!Events(f[k]) = Calendar!Events(c) \cup Upto(k)
    BY <1>0, <1>7
  <1>14. Upto(k) = Range(s)
    BY RangeItems DEF k
  <1> QED
    BY <1>2, <1>12, <1>13, <1>14 DEF S

-----------------------------------------------------------------------------
\* The events of a bucket have uids of their own.
LEMMA BucketsDiffer ==
  ASSUME NEW c, Shape(c), NEW b \in 0 .. c.nBuckets - 1
  PROVE  c.buckets[b] \in Seq(Event) /\ Distinct(c.buckets[b])
  <1> DEFINE s == c.buckets[b]
  <1>1. s \in Seq(Event) /\ Sorted(s) /\ Range(s) \subseteq Calendar!Events(c) /\ OneEach(Calendar!Events(c))
    BY ShapeFacts DEF Shape, Filed
  <1> HIDE DEF s
  <1>2. Len(s) \in Nat /\ \A i \in 1 .. Len(s) : s[i] \in Event /\ s[i] \in Calendar!Events(c)
    BY <1>1, LenProperties, ElementOfSeq, RangeItems
  <1>3. ASSUME NEW i \in 1 .. Len(s), NEW j \in 1 .. Len(s), i < j PROVE s[i].uid # s[j].uid
    <2>1. Precedes(s[i], s[j])
      BY <1>1, <1>3 DEF Sorted
    <2>2. s[i] # s[j]
      BY <1>2, <2>1, PrecedesOrder
    <2> QED
      BY <1>1, <1>2, <2>2 DEF OneEach
  <1>4. Distinct(s)
    BY <1>2, <1>3 DEF Distinct
  <1> QED
    BY <1>1, <1>4 DEF s

\* The calendar d, opened to file the events of c, has those of the first i buckets.
HasUpto(c, d, i) ==
    /\ Shape(d) /\ d.lastPrio = c.lastPrio
    /\ Calendar!Events(d) = {e \in Calendar!Events(c) : Calendar!Hash(c, e.ts) < i}

\* The events of the next bucket are new to the calendar they are filed in.
LEMMA NextBucketFiles ==
  ASSUME NEW c, Shape(c), NEW i \in 1 .. c.nBuckets, NEW d, HasUpto(c, d, i - 1)
  PROVE  Fileable(d, c.buckets[i - 1])
  <1> DEFINE b == i - 1
             s == c.buckets[b]
  <1>0. c.nBuckets \in Nat /\ b \in 0 .. c.nBuckets - 1
    BY ShapeFacts
  <1>1. s \in Seq(Event) /\ Distinct(s)
    BY <1>0, BucketsDiffer
  <1>2. ASSUME NEW e \in Range(s)
        PROVE  e.ts >= d.lastPrio /\ \A f \in Calendar!Events(d) : f.uid # e.uid
    <2>1. e \in Calendar!Events(c) /\ Calendar!Hash(c, e.ts) = b /\ e.ts >= c.lastPrio
      BY <1>0, ShapeFacts
    <2>2. ASSUME NEW f \in Calendar!Events(d) PROVE f.uid # e.uid
      <3>1. f \in Calendar!Events(c) /\ Calendar!Hash(c, f.ts) < b
        BY DEF HasUpto
      <3>2. f # e
        BY <1>0, <2>1, <3>1
      <3> QED
        BY <2>1, <3>1, <3>2 DEF Shape, OneEach
    <2> QED
      BY <2>1, <2>2 DEF HasUpto
  <1> QED
    BY <1>1, <1>2 DEF Fileable, HasUpto

\* When they are filed, that calendar has those of one more bucket.
LEMMA NextBucketFiled ==
  ASSUME NEW c, Shape(c), NEW i \in 1 .. c.nBuckets, NEW d, HasUpto(c, d, i - 1)
  PROVE  LET m == Calendar!InsertAll(d, c.buckets[i - 1])
         IN  HasUpto(c, m, i) /\ SameDays(d, m) /\ m \in Calendars
  <1> DEFINE b == i - 1
             s == c.buckets[b]
             m == Calendar!InsertAll(d, s)
  <1>0. c.nBuckets \in Nat /\ b \in 0 .. c.nBuckets - 1
    BY ShapeFacts
  <1>1. Shape(m) /\ Calendar!Events(m) = Calendar!Events(d) \cup Range(s) /\ SameDays(d, m)
    BY NextBucketFiles, InsertAllFiles
  <1> HIDE DEF m
  <1>2. \A e : e \in Range(s) <=> e \in Calendar!Events(c) /\ Calendar!Hash(c, e.ts) = b
    <2>1. ASSUME NEW e \in Range(s) PROVE e \in Calendar!Events(c) /\ Calendar!Hash(c, e.ts) = b
      BY <1>0, ShapeFacts
    <2>2. ASSUME NEW e \in Calendar!Events(c), Calendar!Hash(c, e.ts) = b PROVE e \in Range(s)
      BY <2>2, InItsBucket
    <2> QED
      BY <2>1, <2>2
  <1> HIDE DEF s
  <1>3. Calendar!Events(m) = {e \in Calendar!Events(c) : Calendar!Hash(c, e.ts) < i}
    <2>1. \A e \in Calendar!Events(c) : Calendar!Hash(c, e.ts) \in Nat
      BY ShapeFacts
    <2>2. \A e : e \in Calendar!Events(d) <=> e \in Calendar!Events(c) /\ Calendar!Hash(c, e.ts) < b
      BY DEF HasUpto
    <2>3. \A e \in Calendar!Events(c) : Calendar!Hash(c, e.ts) < i <=>
             (Calendar!Hash(c, e.ts) < b \/ Calendar!Hash(c, e.ts) = b)
      BY <1>0, <2>1
    <2> HIDE DEF b
    <2> QED
      BY <1>1, <1>2, <2>2, <2>3
  <1>4. HasUpto(c, m, i)
    BY <1>1, <1>3 DEF HasUpto, SameDays
  <1> QED
    BY <1>1, <1>4 DEF Shape, m, s

-----------------------------------------------------------------------------
\* The calendar d has the events of c, and took the same event last.
SameEvents(c, d) ==
    /\ Shape(d) /\ Calendar!Events(d) = Calendar!Events(c)
    /\ d.qSize = c.qSize /\ d.lastPrio = c.lastPrio

\* Resize loses no event and adds none: by induction on the buckets of the old array.
LEMMA ResizeKeeps ==
  ASSUME NEW c, Shape(c), Counted(c), NEW newSize \in Nat \ {0}
  PROVE  SameEvents(c, Calendar!Resize(c, newSize))
  <1> DEFINE k == c.nBuckets
             o == Calendar!Opened(newSize, Calendar!CalculateNewWidth(c), c.lastPrio, c.qSize)
             Body(g) == [i \in 0 .. k |-> IF i = 0 THEN o ELSE Calendar!InsertAll(g[i - 1], c.buckets[i - 1])]
             g == CHOOSE f : f = Body(f)
             S == {d \in Calendars : Shape(d) /\ SameDays(o, d)}
             Put(i, d) == IF HasUpto(c, d, i - 1) THEN Calendar!InsertAll(d, c.buckets[i - 1]) ELSE d
             T == [i \in 1 .. k |-> [d \in S |-> Put(i, d)]]
  <1>0. k \in Nat /\ \A e \in Calendar!Events(c) : Calendar!Hash(c, e.ts) \in 0 .. k - 1
    BY ShapeFacts
  <1>1. Shape(o) /\ Calendar!Events(o) = {} /\ o.lastPrio = c.lastPrio /\ o.qSize = c.qSize
    <2>1. Calendar!CalculateNewWidth(c) \in Nat \ {0} /\ c.lastPrio \in Nat /\ c.qSize \in Nat
      BY WidthType, ShapeFacts
    <2> QED
      BY <2>1, OpenedShape
  <1> HIDE DEF o
  <1>2. ASSUME NEW i \in 1 .. k, NEW d \in S, HasUpto(c, d, i - 1)
        PROVE  HasUpto(c, Calendar!InsertAll(d, c.buckets[i - 1]), i)
               /\ Calendar!InsertAll(d, c.buckets[i - 1]) \in S
    <2> DEFINE m == Calendar!InsertAll(d, c.buckets[i - 1])
    <2>1. HasUpto(c, m, i) /\ SameDays(d, m) /\ m \in Calendars
      BY <1>2, NextBucketFiled
    <2> HIDE DEF m
    <2>2. m \in S
      BY <2>1 DEF HasUpto, SameDays
    <2> QED
      BY <2>1, <2>2 DEF m
  <1>3. Calendar!Resize(c, newSize) = g[k]
    BY DEF Calendar!Resize, o
  <1> HIDE DEF k
  <1>4. o \in S /\ T \in Bodies(k, S)
    <2>1. o \in S
      BY <1>1 DEF Shape, SameDays
    <2>2. \A i \in 1 .. k : \A d \in S : Put(i, d) \in S
      BY <1>2
    <2> HIDE DEF Put, S
    <2> QED
      BY <2>1, <2>2 DEF Bodies
  <1>5. \A d \in S : Shape(d) /\ SameDays(o, d)
    OBVIOUS
  <1> HIDE DEF S
  <1>6. PICK f : IsLoop(f, T, o, k, S)
    <2> HIDE DEF T
    <2> QED
      BY <1>0, <1>4, LoopExists
  <1>7. \A i \in 1 .. k : f[i - 1] \in S /\ f[i] = Put(i, f[i - 1])
    <2> SUFFICES ASSUME NEW i \in 1 .. k
                 PROVE  f[i - 1] \in S /\ f[i] = Put(i, f[i - 1])
      OBVIOUS
    <2>1. f[i - 1] \in S
      BY <1>0, <1>6 DEF IsLoop
    <2>2. T[i][f[i - 1]] = Put(i, f[i - 1])
      BY <2>1
    <2> HIDE DEF T, Put
    <2> QED
      BY <1>6, <2>1, <2>2 DEF IsLoop
  <1> HIDE DEF T
  <1>8. \A i \in 0 .. k : f[i] \in S /\ HasUpto(c, f[i], i)
    <2> DEFINE P == {i \in 0 .. k : f[i] \in S /\ HasUpto(c, f[i], i)}
    <2>1. 0 \in P
      <3>1. f[0] = o
        BY <1>6 DEF IsLoop
      <3>2. {e \in Calendar!Events(c) : Calendar!Hash(c, e.ts) < 0} = {}
        BY <1>0
      <3>3. HasUpto(c, o, 0)
        BY <1>1, <3>2 DEF HasUpto
      <3>4. 0 \in 0 .. k
        BY <1>0
      <3> QED
        BY <1>4, <3>1, <3>3, <3>4, Zenon
    <2>2. ASSUME NEW i \in 1 .. k, i - 1 \in P PROVE i \in P
      <3>1. f[i - 1] \in S /\ HasUpto(c, f[i - 1], i - 1)
        BY <2>2
      <3>2. f[i] = Calendar!InsertAll(f[i - 1], c.buckets[i - 1])
        BY <1>7, <3>1
      <3>3. f[i] \in S /\ HasUpto(c, f[i], i)
        BY <1>2, <3>1, <3>2
      <3>4. i \in 0 .. k
        BY <1>0
      <3> QED
        BY <3>3, <3>4, Zenon
    <2> HIDE DEF P
    <2>3. \A i \in 0 .. k : i \in P
      BY <1>0, <2>1, <2>2, Induction
    <2> QED
      BY <2>3 DEF P
  <1>9. \A i \in 1 .. k : f[i] = Calendar!InsertAll(f[i - 1], c.buckets[i - 1])
    <2> SUFFICES ASSUME NEW i \in 1 .. k
                 PROVE  f[i] = Calendar!InsertAll(f[i - 1], c.buckets[i - 1])
      OBVIOUS
    <2>1. i - 1 \in 0 .. k
      BY <1>0
    <2>2. HasUpto(c, f[i - 1], i - 1)
      BY <1>8, <2>1
    <2> QED
      BY <1>7, <2>2
  <1>10. f = Body(f)
    <2>1. f[0] = o /\ f = [i \in 0 .. k |-> f[i]]
      BY <1>6 DEF IsLoop
    <2>2. ASSUME NEW i \in 0 .. k
          PROVE  f[i] = IF i = 0 THEN o ELSE Calendar!InsertAll(f[i - 1], c.buckets[i - 1])
      <3>1. i = 0 \/ (i # 0 /\ i \in 1 .. k)
        BY <1>0
      <3> QED
        BY <1>9, <2>1, <3>1, Zenon
    <2> QED
      BY <2>1, <2>2
  <1>11. g = Body(g)
    <2> HIDE DEF Body
    <2> QED
      BY <1>10
  <1> HIDE DEF g
  <1>12. g[0] = o /\ \A i \in 1 .. k : g[i] = Calendar!InsertAll(g[i - 1], c.buckets[i - 1])
    BY <1>0, <1>11
  <1>13. g[k] = f[k]
    <2>1. Alike(f, g, k)
      BY <1>6, <1>9, <1>12 DEF IsLoop, Alike
    <2>2. k \in Nat
      BY <1>0
    <2>3. \A n \in 0 .. k : g[n] = f[n]
      BY <2>1, <2>2, SameLoop
    <2> QED
      BY <2>2, <2>3
  <1>14. f[k] \in S /\ HasUpto(c, f[k], k)
    <2>1. k \in 0 .. k
      BY <1>0
    <2> QED
      BY <1>8, <2>1
  <1>15. {e \in Calendar!Events(c) : Calendar!Hash(c, e.ts) < k} = Calendar!Events(c)
    BY <1>0
  <1>16. SameDays(o, f[k])
    BY <1>5, <1>14
  <1> QED
    BY <1>1, <1>3, <1>13, <1>14, <1>15, <1>16 DEF HasUpto, SameEvents, SameDays

\* Growing and shrinking keep the events.
LEMMA ResizedKeeps ==
  ASSUME NEW c, Shape(c), Counted(c)
  PROVE  SameEvents(c, Calendar!ResizeUp(c)) /\ SameEvents(c, Calendar!ResizeDown(c))
  <1>1. c.nBuckets \in Nat \ {0} /\ c.qSize \in Nat
    BY ShapeFacts
  <1>2. SameEvents(c, c)
    BY DEF SameEvents
  <1>3. SameEvents(c, Calendar!ResizeUp(c))
    <2>1. 2 * c.nBuckets \in Nat \ {0}
      BY <1>1
    <2>2. SameEvents(c, Calendar!Resize(c, 2 * c.nBuckets))
      BY <2>1, ResizeKeeps
    <2> QED
      BY <1>2, <2>2 DEF Calendar!ResizeUp
  <1>4. SameEvents(c, Calendar!ResizeDown(c))
    <2>1. CASE c.qSize < c.nBuckets \div 2
      <3>1. c.nBuckets \div 2 \in Nat \ {0}
        BY <1>1, <2>1
      <3>2. SameEvents(c, Calendar!Resize(c, c.nBuckets \div 2))
        BY <3>1, ResizeKeeps
      <3> QED
        BY <2>1, <3>2 DEF Calendar!ResizeDown
    <2>2. CASE ~(c.qSize < c.nBuckets \div 2)
      BY <1>2, <2>2 DEF Calendar!ResizeDown
    <2> QED
      BY <2>1, <2>2
  <1> QED
    BY <1>3, <1>4

\* The count alone changed.
LEMMA Recounted ==
  ASSUME NEW c, Shape(c), NEW q \in Nat
  PROVE  LET d == [c EXCEPT !.qSize = q]
         IN  /\ Shape(d) /\ Calendar!Events(d) = Calendar!Events(c)
             /\ d.qSize = q /\ d.lastPrio = c.lastPrio
  <1> DEFINE d == [c EXCEPT !.qSize = q]
  <1>1. c \in Calendars /\ c.buckets \in [0 .. c.nBuckets - 1 -> Seq(Event)]
    BY ShapeFacts DEF Shape
  <1>2. /\ d.buckets = c.buckets /\ d.nBuckets = c.nBuckets /\ d.width = c.width /\ d.qSize = q
        /\ d.lastPrio = c.lastPrio /\ d.lastBucket = c.lastBucket /\ d.bucketTop = c.bucketTop
        /\ d \in Calendars
    BY <1>1 DEF Calendars
  <1> HIDE DEF d
  <1>3. Calendar!Events(d) = Calendar!Events(c)
    BY <1>2 DEF Calendar!Events
  <1>4. \A t : Calendar!Hash(d, t) = Calendar!Hash(c, t)
    BY <1>2 DEF Calendar!Hash
  <1>5. AtItsDay(d)
    BY <1>2 DEF AtItsDay, Shape
  <1>6. \A b : Filed(c, b, c.buckets[b]) => Filed(d, b, d.buckets[b])
    BY <1>2, <1>4 DEF Filed
  <1>7. Shape(d)
    BY <1>2, <1>3, <1>5, <1>6 DEF Shape
  <1> QED
    BY <1>2, <1>3, <1>7 DEF d

-----------------------------------------------------------------------------
\* The calendar d has the events E, all it counts, none of them before prio.
Holds(d, E, prio) == Shape(d) /\ Counted(d) /\ Calendar!Events(d) = E /\ d.lastPrio = prio

\* A calendar with the same events and count counts them still.
LEMMA SameEventsHolds ==
  ASSUME NEW c, Shape(c), Counted(c), NEW d, SameEvents(c, d)
  PROVE  Holds(d, Calendar!Events(c), c.lastPrio) /\ d.qSize = c.qSize
  BY DEF SameEvents, Holds, Counted

\* Insert adds the event, and counts it.
LEMMA InsertOneHolds ==
  ASSUME NEW c, Shape(c), Counted(c), NEW e \in Event, e.ts >= c.lastPrio,
         \A f \in Calendar!Events(c) : f.uid # e.uid
  PROVE  /\ Holds(Calendar!InsertOne(c, e), Calendar!Events(c) \cup {e}, c.lastPrio)
         /\ Calendar!InsertOne(c, e).qSize = c.qSize + 1
  <1> DEFINE x == Calendar!DoInsert(c, e)
             q == x.qSize + 1
             y == [x EXCEPT !.qSize = q]
  <1>1. Shape(x) /\ Calendar!Events(x) = Calendar!Events(c) \cup {e} /\ SameDays(c, x)
    BY DoInsertFiles
  <1> HIDE DEF x
  <1>2. x.qSize = c.qSize /\ x.lastPrio = c.lastPrio /\ c.qSize \in Nat /\ q \in Nat
    BY <1>1, ShapeFacts DEF SameDays
  <1>3. Calendar!InsertOne(c, e) = Calendar!ResizeUp(y)
    BY DEF Calendar!InsertOne, x
  <1> HIDE DEF q
  <1>4. Shape(y) /\ Calendar!Events(y) = Calendar!Events(x) /\ y.qSize = q /\ y.lastPrio = x.lastPrio
    BY <1>1, <1>2, Recounted
  <1> HIDE DEF y
  <1>5. IsFiniteSet(Calendar!Events(c) \cup {e})
        /\ Cardinality(Calendar!Events(c) \cup {e}) = Cardinality(Calendar!Events(c)) + 1
    <2>1. e \notin Calendar!Events(c)
      OBVIOUS
    <2> QED
      BY <2>1, FS_AddElement DEF Counted
  <1>6. Counted(y)
    BY <1>1, <1>2, <1>4, <1>5 DEF Counted, q
  <1>7. SameEvents(y, Calendar!ResizeUp(y))
    BY <1>4, <1>6, ResizedKeeps
  <1>8. Holds(Calendar!ResizeUp(y), Calendar!Events(y), y.lastPrio) /\ Calendar!ResizeUp(y).qSize = y.qSize
    BY <1>4, <1>6, <1>7, SameEventsHolds
  <1> QED
    BY <1>1, <1>2, <1>3, <1>4, <1>8 DEF q

\* What remains when e is taken from c, to be resized.
LEMMA TakenHolds ==
  ASSUME NEW c, Shape(c), Counted(c), NEW e \in Calendar!Events(c), NEW x, Shape(x),
         Calendar!Events(x) = Calendar!Events(c) \ {e}, x.qSize = c.qSize
  PROVE  LET d == Calendar!ResizeDown([x EXCEPT !.qSize = @ - 1])
         IN  Holds(d, Calendar!Events(c) \ {e}, x.lastPrio) /\ d.qSize = c.qSize - 1
  <1> DEFINE q == x.qSize - 1
             y == [x EXCEPT !.qSize = q]
             d == Calendar!ResizeDown([x EXCEPT !.qSize = @ - 1])
  <1>1. /\ IsFiniteSet(Calendar!Events(c) \ {e})
        /\ Cardinality(Calendar!Events(c) \ {e}) = Cardinality(Calendar!Events(c)) - 1
        /\ Cardinality(Calendar!Events(c) \ {e}) \in Nat
    BY FS_RemoveElement, FS_CardinalityType DEF Counted
  <1>2. q \in Nat /\ q = c.qSize - 1 /\ Cardinality(Calendar!Events(x)) = q
    BY <1>1 DEF Counted
  <1>3. d = Calendar!ResizeDown(y)
    OBVIOUS
  <1> HIDE DEF q, d
  <1>4. Shape(y) /\ Calendar!Events(y) = Calendar!Events(x) /\ y.qSize = q /\ y.lastPrio = x.lastPrio
    BY <1>2, Recounted
  <1> HIDE DEF y
  <1>5. Counted(y)
    BY <1>1, <1>2, <1>4 DEF Counted
  <1>6. SameEvents(y, Calendar!ResizeDown(y))
    BY <1>4, <1>5, ResizedKeeps
  <1>7. Holds(Calendar!ResizeDown(y), Calendar!Events(y), y.lastPrio) /\ Calendar!ResizeDown(y).qSize = y.qSize
    BY <1>4, <1>5, <1>6, SameEventsHolds
  <1> QED
    BY <1>2, <1>3, <1>4, <1>7 DEF d

\* RemoveNext takes the earliest event, and no longer counts it.
LEMMA WithoutNextHolds ==
  ASSUME NEW c, Shape(c), Counted(c), Calendar!Events(c) # {}
  PROVE  LET e == Calendar!DoRemoveNext(c).event
         IN  /\ e \in Calendar!Events(c) /\ IsFirst(e, Calendar!Events(c))
             /\ Holds(Calendar!WithoutNext(c), Calendar!Events(c) \ {e}, e.ts)
             /\ Calendar!WithoutNext(c).qSize = c.qSize - 1
  <1> DEFINE r == Calendar!DoRemoveNext(c)
             x == r.rest
  <1>1. GivesEarliest(c, r)
    BY DoRemoveNextGives
  <1>2. Calendar!WithoutNext(c) = Calendar!ResizeDown([x EXCEPT !.qSize = @ - 1])
    BY DEF Calendar!WithoutNext
  <1> HIDE DEF r
  <1>3. /\ r.event \in Calendar!Events(c) /\ IsFirst(r.event, Calendar!Events(c)) /\ Shape(x)
        /\ Calendar!Events(x) = Calendar!Events(c) \ {r.event} /\ x.qSize = c.qSize /\ x.lastPrio = r.event.ts
    BY <1>1 DEF GivesEarliest
  <1> HIDE DEF x
  <1>4. /\ Holds(Calendar!WithoutNext(c), Calendar!Events(c) \ {r.event}, x.lastPrio)
        /\ Calendar!WithoutNext(c).qSize = c.qSize - 1
    BY <1>2, <1>3, TakenHolds
  <1> QED
    BY <1>3, <1>4 DEF r

\* Remove erases that event alone.
LEMMA EraseHolds ==
  ASSUME NEW c, Shape(c), Counted(c), NEW e \in Calendar!Events(c)
  PROVE  LET erased == [c EXCEPT !.buckets[Calendar!Hash(c, e.ts)] = Calendar!Erase(@, e.uid)]
             d == Calendar!ResizeDown([erased EXCEPT !.qSize = @ - 1])
         IN  Holds(d, Calendar!Events(c) \ {e}, c.lastPrio)
  <1> DEFINE b == Calendar!Hash(c, e.ts)
             s == c.buckets[b]
             at == CHOOSE i \in DOMAIN s : s[i].uid = e.uid
             x == Calendar!RemoveAt(s, at)
             erased == [c EXCEPT !.buckets[b] = Calendar!Erase(@, e.uid)]
  <1>1. /\ b \in 0 .. c.nBuckets - 1 /\ e \in Range(s) /\ s \in Seq(Event) /\ Distinct(s)
        /\ c.buckets \in [0 .. c.nBuckets - 1 -> Seq(Event)] /\ c \in Calendars
    BY InItsBucket, BucketsDiffer, ShapeFacts DEF Shape
  <1>2. erased = [c EXCEPT !.buckets = [c.buckets EXCEPT ![b] = x]]
    BY <1>1 DEF Calendar!Erase
  <1> HIDE DEF b, erased
  <1>3. at \in 1 .. Len(s) /\ s[at] = e
    <2> HIDE DEF s
    <2>1. PICK i \in 1 .. Len(s) : e = s[i]
      BY <1>1, RangeItems
    <2>2. DOMAIN s = 1 .. Len(s)
      BY <1>1, RangeItems
    <2>3. at \in 1 .. Len(s) /\ s[at].uid = e.uid
      BY <2>1, <2>2
    <2> HIDE DEF at
    <2>4. at = i
      BY <1>1, <2>1, <2>3 DEF Distinct
    <2> QED
      BY <2>1, <2>4
  <1> HIDE DEF at
  <1>4. IsWithout(x, s, at)
    <2> HIDE DEF s
    <2> QED
      BY <1>1, <1>3, RemovedAt DEF IsWithout
  <1> HIDE DEF x
  <1>5. x \in Seq(Event)
    BY <1>4 DEF IsWithout
  <1>6. [c.buckets EXCEPT ![b] = x] \in [0 .. c.nBuckets - 1 -> Seq(Event)]
    BY <1>1, <1>5
  <1>7. /\ erased \in Calendars /\ erased.buckets = [c.buckets EXCEPT ![b] = x]
        /\ erased.nBuckets = c.nBuckets /\ erased.width = c.width /\ erased.qSize = c.qSize
        /\ erased.lastPrio = c.lastPrio /\ erased.lastBucket = c.lastBucket /\ erased.bucketTop = c.bucketTop
    <2> DEFINE y == [c.buckets EXCEPT ![b] = x]
    <2>1. y \in [0 .. c.nBuckets - 1 -> Seq(Event)] /\ c.nBuckets \in Nat
      BY <1>6, ShapeFacts
    <2> HIDE DEF y
    <2>2. y \in UNION {[0 .. n - 1 -> Seq(Event)] : n \in Nat}
      BY <2>1
    <2> QED
      BY <1>1, <1>2, <2>2 DEF Calendars, y
  <1>8. AtItsDay(erased)
    BY <1>7 DEF Shape, AtItsDay
  <1>9. \A f \in Calendar!Events(c) : f.ts >= erased.lastPrio
    BY <1>7, ShapeFacts
  <1>10. IsTaken(c, b, at, x, erased)
    BY <1>1, <1>3, <1>4, <1>7, <1>8, <1>9 DEF IsTaken
  <1>11. Shape(erased) /\ Calendar!Events(erased) = Calendar!Events(c) \ {e}
    BY <1>3, <1>10, TakenFrom
  <1>12. Holds(Calendar!ResizeDown([erased EXCEPT !.qSize = @ - 1]), Calendar!Events(c) \ {e}, erased.lastPrio)
    BY <1>7, <1>11, TakenHolds
  <1> QED
    BY <1>7, <1>12 DEF erased, b

-----------------------------------------------------------------------------
\* What the simulator holds while the events E change over to a new calendar.
Moving(E) ==
    {s \in [old : Calendars, new : Calendars] :
        /\ Shape(s.old) /\ Counted(s.old) /\ Shape(s.new) /\ Counted(s.new) /\ s.new.lastPrio = 0
        /\ Calendar!Events(s.old) \cup Calendar!Events(s.new) = E
        /\ \A a \in Calendar!Events(s.old) : \A b \in Calendar!Events(s.new) : a.uid # b.uid}

\* An event changes over: none is lost.
LEMMA MovingCloses ==
  ASSUME NEW E, NEW s \in Moving(E), s.old.qSize # 0
  PROVE  /\ Calendar!ChangeOver(s) \in Moving(E)
         /\ Calendar!ChangeOver(s).old.qSize = s.old.qSize - 1
  <1> DEFINE e == Calendar!DoRemoveNext(s.old).event
             old == Calendar!WithoutNext(s.old)
             new == Calendar!InsertOne(s.new, e)
  <1>1. /\ Shape(s.old) /\ Counted(s.old) /\ Shape(s.new) /\ Counted(s.new) /\ s.new.lastPrio = 0
        /\ Calendar!Events(s.old) \cup Calendar!Events(s.new) = E
        /\ \A a \in Calendar!Events(s.old) : \A b \in Calendar!Events(s.new) : a.uid # b.uid
    BY DEF Moving
  <1>2. Calendar!Events(s.old) # {}
    BY <1>1, FS_EmptySet DEF Counted
  <1>3. /\ e \in Calendar!Events(s.old) /\ Holds(old, Calendar!Events(s.old) \ {e}, e.ts)
        /\ old.qSize = s.old.qSize - 1
    BY <1>1, <1>2, WithoutNextHolds
  <1>4. e \in Event /\ e.ts \in Nat
    <2>1. e \in Event
      BY <1>1, <1>3, ShapeFacts
    <2> HIDE DEF e
    <2> QED
      BY <2>1 DEF Event
  <1> HIDE DEF e, old
  <1>5. Holds(new, Calendar!Events(s.new) \cup {e}, 0)
    <2>1. e.ts >= s.new.lastPrio /\ \A f \in Calendar!Events(s.new) : f.uid # e.uid
      BY <1>1, <1>3, <1>4
    <2>2. Holds(new, Calendar!Events(s.new) \cup {e}, s.new.lastPrio)
      BY <1>1, <1>4, <2>1, InsertOneHolds
    <2> QED
      BY <1>1, <2>2
  <1>6. Calendar!ChangeOver(s) = [old |-> old, new |-> new]
    BY DEF Calendar!ChangeOver, old, e
  <1> HIDE DEF new
  <1>7. old \in Calendars /\ new \in Calendars
    BY <1>3, <1>5 DEF Holds, Shape
  <1>8. Calendar!Events(old) \cup Calendar!Events(new) = E
    BY <1>1, <1>3, <1>5 DEF Holds
  <1>9. \A a \in Calendar!Events(old) : \A b \in Calendar!Events(new) : a.uid # b.uid
    <2>1. OneEach(Calendar!Events(s.old))
      BY <1>1 DEF Shape
    <2> QED
      BY <1>1, <1>3, <1>5, <2>1 DEF Holds, OneEach
  <1> QED
    BY <1>3, <1>5, <1>6, <1>7, <1>8, <1>9 DEF Moving, Holds

\* The calendar the simulator changes to is empty.
LEMMA EmptyCalendar ==
  LET d == Calendar!Opened(2, 1, 0, 0)
  IN  Holds(d, {}, 0) /\ d \in Calendars
  <1> DEFINE d == Calendar!Opened(2, 1, 0, 0)
  <1>1. Shape(d) /\ Calendar!Events(d) = {} /\ d.lastPrio = 0 /\ d.qSize = 0
    <2>1. 2 \in Nat \ {0} /\ 1 \in Nat \ {0} /\ 0 \in Nat
      OBVIOUS
    <2> QED
      BY <2>1, OpenedShape
  <1> HIDE DEF d
  <1>2. Counted(d)
    BY <1>1, FS_EmptySet DEF Counted
  <1> QED
    BY <1>1, <1>2 DEF Holds, Shape, d

\* When all have changed over, the new calendar has the events of the old one.
LEMMA CalendarChangesOver ==
  ASSUME Shape(calendar), Counted(calendar), Calendar!SetScheduler
  PROVE  Holds(calendar', Calendar!Events(calendar), 0)
  <1> DEFINE k == calendar.qSize
             o == [old |-> calendar, new |-> Calendar!Opened(2, 1, 0, 0)]
             Body(g) == [n \in 0 .. k |-> IF n = 0 THEN o ELSE Calendar!ChangeOver(g[n - 1])]
             g == CHOOSE f : f = Body(f)
             E == Calendar!Events(calendar)
             S == Moving(E)
             Over(s) == IF s.old.qSize = 0 THEN s ELSE Calendar!ChangeOver(s)
             T == [n \in 1 .. k |-> [s \in S |-> Over(s)]]
  <1>0. k \in Nat
    BY ShapeFacts
  <1>1. calendar' = g[k].new
    BY DEF Calendar!SetScheduler
  <1>2. o \in S /\ o.old.qSize = k
    <2> DEFINE d == Calendar!Opened(2, 1, 0, 0)
    <2>1. Holds(d, {}, 0) /\ d \in Calendars
      BY EmptyCalendar
    <2> HIDE DEF d
    <2>2. calendar \in Calendars
      BY DEF Shape
    <2>3. o = [old |-> calendar, new |-> d]
      BY DEF d
    <2> HIDE DEF o
    <2> QED
      BY <2>1, <2>2, <2>3 DEF Moving, Holds
  <1> HIDE DEF o, E, k
  <1>3. T \in Bodies(k, S)
    <2>1. \A s \in S : Over(s) \in S
      BY MovingCloses
    <2> HIDE DEF Over, S
    <2> QED
      BY <2>1 DEF Bodies
  <1> HIDE DEF S
  <1>4. PICK f : IsLoop(f, T, o, k, S)
    <2> HIDE DEF T
    <2> QED
      BY <1>0, <1>2, <1>3, LoopExists
  <1>5. \A n \in 1 .. k : f[n - 1] \in S /\ f[n] = Over(f[n - 1])
    <2> SUFFICES ASSUME NEW n \in 1 .. k
                 PROVE  f[n - 1] \in S /\ f[n] = Over(f[n - 1])
      OBVIOUS
    <2>1. f[n - 1] \in S
      BY <1>0, <1>4 DEF IsLoop
    <2>2. T[n][f[n - 1]] = Over(f[n - 1])
      BY <2>1
    <2> HIDE DEF T, Over
    <2> QED
      BY <1>4, <2>1, <2>2 DEF IsLoop
  <1> HIDE DEF T
  <1>6. \A n \in 0 .. k : f[n] \in S /\ f[n].old.qSize = k - n
    <2> DEFINE P == {n \in 0 .. k : f[n] \in S /\ f[n].old.qSize = k - n}
    <2>1. 0 \in P
      BY <1>0, <1>2, <1>4 DEF IsLoop
    <2>2. ASSUME NEW n \in 1 .. k, n - 1 \in P PROVE n \in P
      <3>1. f[n - 1] \in Moving(E) /\ f[n - 1].old.qSize = k - (n - 1)
        BY <2>2 DEF S
      <3>2. f[n - 1].old.qSize # 0
        BY <1>0, <3>1
      <3>3. /\ Calendar!ChangeOver(f[n - 1]) \in S
            /\ Calendar!ChangeOver(f[n - 1]).old.qSize = f[n - 1].old.qSize - 1
        BY <3>1, <3>2, MovingCloses DEF S
      <3>4. f[n] = Calendar!ChangeOver(f[n - 1])
        BY <1>5, <3>2
      <3>5. f[n].old.qSize = k - n /\ n \in 0 .. k
        BY <1>0, <3>1, <3>3, <3>4
      <3> QED
        BY <3>3, <3>4, <3>5
    <2> HIDE DEF P
    <2>3. \A n \in 0 .. k : n \in P
      BY <1>0, <2>1, <2>2, Induction
    <2> QED
      BY <2>3 DEF P
  <1>7. \A n \in 1 .. k : f[n] = Calendar!ChangeOver(f[n - 1])
    <2> SUFFICES ASSUME NEW n \in 1 .. k
                 PROVE  f[n] = Calendar!ChangeOver(f[n - 1])
      OBVIOUS
    <2>1. n - 1 \in 0 .. k
      BY <1>0
    <2>2. f[n - 1].old.qSize # 0
      BY <1>0, <1>6, <2>1
    <2> QED
      BY <1>5, <2>2
  <1>8. f = Body(f)
    <2>1. f[0] = o /\ f = [n \in 0 .. k |-> f[n]]
      BY <1>4 DEF IsLoop
    <2>2. ASSUME NEW i \in 0 .. k
          PROVE  f[i] = IF i = 0 THEN o ELSE Calendar!ChangeOver(f[i - 1])
      <3>1. i = 0 \/ (i # 0 /\ i \in 1 .. k)
        BY <1>0
      <3> QED
        BY <1>7, <2>1, <3>1, Zenon
    <2> QED
      BY <2>1, <2>2
  <1>9. g = Body(g)
    <2> HIDE DEF Body
    <2> QED
      BY <1>8
  <1> HIDE DEF g
  <1>10. g[0] = o /\ \A n \in 1 .. k : g[n] = Calendar!ChangeOver(g[n - 1])
    BY <1>0, <1>9
  <1>11. g[k] = f[k]
    <2>1. Alike(f, g, k)
      BY <1>4, <1>7, <1>10 DEF IsLoop, Alike
    <2>2. \A n \in 0 .. k : g[n] = f[n]
      BY <1>0, <2>1, SameLoop
    <2> QED
      BY <1>0, <2>2
  <1> DEFINE s == f[k]
  <1>12. s \in Moving(E) /\ s.old.qSize = 0
    BY <1>0, <1>6 DEF S
  <1> HIDE DEF s
  <1>13. Calendar!Events(s.old) = {}
    <2>1. IsFiniteSet(Calendar!Events(s.old)) /\ Cardinality(Calendar!Events(s.old)) = 0
      BY <1>12 DEF Moving, Counted
    <2> QED
      BY <2>1, FS_EmptySet
  <1>14. calendar' = s.new
    BY <1>1, <1>11 DEF s
  <1> QED
    BY <1>12, <1>13, <1>14 DEF Moving, Holds, E

-----------------------------------------------------------------------------
\* The inductive invariant of the calendar.
CalendarInv ==
    /\ Shape(calendar) /\ Counted(calendar) /\ calendarTs \in Nat /\ calendarUid \in Nat
    /\ calendar.lastPrio <= calendarTs
    /\ \A e \in Calendar!Events(calendar) : e.uid < calendarUid

\* Insert is the agenda's Insert: what the simulator schedules is not in the past.
LEMMA CalendarInsertStep ==
  ASSUME CalendarInv, Calendar!Insert
  PROVE  CalendarInv' /\ Calendar!Agenda!Insert
  <1> USE DEF CalendarInv
  <1>1. PICK d \in CalendarDelays :
            calendar' = Calendar!InsertOne(calendar, [ts |-> calendarTs + d, uid |-> calendarUid])
    BY DEF Calendar!Insert
  <1> DEFINE e == [ts |-> calendarTs + d, uid |-> calendarUid]
  <1>2. e \in Event /\ e.ts >= calendar.lastPrio /\ e.uid = calendarUid
    BY EventLoopAssumption, ShapeFacts DEF EventLoopAssumption, Event
  <1>3. calendarUid < SchedulerMaxUid /\ calendarUid' = calendarUid + 1 /\ calendarTs' = calendarTs
    BY DEF Calendar!Insert
  <1>4. \A f \in Calendar!Events(calendar) : f.uid \in Nat
    BY ShapeFacts DEF Event
  <1> HIDE DEF e
  <1>5. Holds(calendar', Calendar!Events(calendar) \cup {e}, calendar.lastPrio)
    <2>1. \A f \in Calendar!Events(calendar) : f.uid # e.uid
      BY <1>2, <1>4
    <2> QED
      BY <1>1, <1>2, <2>1, InsertOneHolds DEF e
  <1>6. CalendarInv'
    <2>1. \A f \in Calendar!Events(calendar') : f.uid < calendarUid'
      BY <1>2, <1>3, <1>4, <1>5 DEF Holds
    <2>2. Calendar!Events(calendar)' = Calendar!Events(calendar')
      BY DEF Calendar!Events
    <2> QED
      BY <1>3, <1>5, <2>1, <2>2 DEF Holds, Shape, Counted
  <1>7. Calendar!Events(calendar') = Calendar!Events(calendar) \cup {e}
    BY <1>5 DEF Holds
  <1> QED
    BY <1>3, <1>6, <1>7 DEF Calendar!Agenda!Insert, e

\* RemoveNext is the agenda's.
LEMMA CalendarRemoveNextStep ==
  ASSUME CalendarInv, Calendar!RemoveNext
  PROVE  CalendarInv' /\ Calendar!Agenda!RemoveNext
  <1> USE DEF CalendarInv
  <1> DEFINE e == Calendar!DoRemoveNext(calendar).event
  <1>1. /\ calendar.qSize > 0 /\ calendar' = Calendar!WithoutNext(calendar)
        /\ calendarTs' = e.ts /\ calendarUid' = calendarUid
    BY DEF Calendar!RemoveNext
  <1>2. Calendar!Events(calendar) # {}
    BY <1>1, FS_EmptySet DEF Counted
  <1>3. /\ e \in Calendar!Events(calendar) /\ IsFirst(e, Calendar!Events(calendar))
        /\ Holds(calendar', Calendar!Events(calendar) \ {e}, e.ts)
    BY <1>1, <1>2, WithoutNextHolds
  <1> HIDE DEF e
  <1>4. e.ts \in Nat
    BY <1>3, ShapeFacts DEF Event
  <1>5. CalendarInv'
    <2>1. \A f \in Calendar!Events(calendar') : f.uid < calendarUid'
      BY <1>1, <1>3 DEF Holds
    <2> QED
      BY <1>1, <1>3, <1>4, <2>1 DEF Holds
  <1>6. Calendar!Agenda!IsFirst(e, Calendar!Events(calendar))
    BY <1>3 DEF IsFirst, Calendar!Agenda!IsFirst, Precedes, Calendar!Agenda!Precedes
  <1>7. Calendar!Events(calendar') = Calendar!Events(calendar) \ {e}
    BY <1>3 DEF Holds
  <1>8. Calendar!Agenda!RemoveNext
    <2> HIDE DEF CalendarInv
    <2> QED
      BY <1>1, <1>3, <1>6, <1>7 DEF Calendar!Agenda!RemoveNext
  <1> QED
    BY <1>5, <1>8

\* RemoveEvent is the agenda's.
LEMMA CalendarRemoveEventStep ==
  ASSUME CalendarInv, Calendar!RemoveEvent
  PROVE  CalendarInv' /\ Calendar!Agenda!RemoveEvent
  <1> USE DEF CalendarInv
  <1>1. PICK e \in Calendar!Events(calendar) :
            LET erased == [calendar EXCEPT !.buckets[Calendar!Hash(calendar, e.ts)] = Calendar!Erase(@, e.uid)]
            IN  calendar' = Calendar!ResizeDown([erased EXCEPT !.qSize = @ - 1])
    BY DEF Calendar!RemoveEvent
  <1>2. calendarTs' = calendarTs /\ calendarUid' = calendarUid
    BY DEF Calendar!RemoveEvent
  <1>3. Holds(calendar', Calendar!Events(calendar) \ {e}, calendar.lastPrio)
    BY <1>1, EraseHolds
  <1>4. Calendar!Events(calendar') = Calendar!Events(calendar) \ {e}
    BY <1>3 DEF Holds
  <1>5. CalendarInv'
    BY <1>2, <1>3 DEF Holds
  <1> QED
    BY <1>2, <1>4, <1>5 DEF Calendar!Agenda!RemoveEvent

\* Changing to a new calendar is invisible.
LEMMA CalendarSetSchedulerStep ==
  ASSUME CalendarInv, Calendar!SetScheduler
  PROVE  CalendarInv' /\ UNCHANGED <<Calendar!Events(calendar), calendarTs, calendarUid>>
  <1> USE DEF CalendarInv
  <1>1. Holds(calendar', Calendar!Events(calendar), 0)
    BY CalendarChangesOver
  <1>2. calendarTs' = calendarTs /\ calendarUid' = calendarUid
    BY DEF Calendar!SetScheduler
  <1> QED
    BY <1>1, <1>2 DEF Holds

\* The calendar starts empty.
LEMMA CalendarInitInv == Calendar!Init => CalendarInv /\ Calendar!Agenda!Init
  <1> SUFFICES ASSUME Calendar!Init PROVE CalendarInv /\ Calendar!Agenda!Init
    OBVIOUS
  <1>1. calendar = Calendar!Opened(2, 1, 0, 0) /\ calendarTs = 0 /\ calendarUid = 4
    BY DEF Calendar!Init, Calendar!FirstUid
  <1>2. Holds(calendar, {}, 0)
    BY <1>1, EmptyCalendar
  <1> QED
    BY <1>1, <1>2 DEF CalendarInv, Holds, Calendar!Agenda!Init, Calendar!Agenda!FirstUid

\* Every step of the calendar is one of the agenda, or invisible.
LEMMA CalendarNextStep ==
  ASSUME CalendarInv, Calendar!Next
  PROVE  CalendarInv' /\ [Calendar!Agenda!Next]_<<Calendar!Events(calendar), calendarTs, calendarUid>>
  BY CalendarInsertStep, CalendarRemoveNextStep, CalendarRemoveEventStep, CalendarSetSchedulerStep
     DEF Calendar!Next, Calendar!Agenda!Next

\* The calendar queue keeps its promise through every resize, skipped year,
\* removal and change of scheduler.
THEOREM CalendarKeepsAgenda == EventLoopSpec => CalendarIsAgenda
  <1> DEFINE Step == [Calendar!Agenda!Next]_<<Calendar!Events(calendar), calendarTs, calendarUid>>
  <1>1. EventLoopInit => CalendarInv /\ Calendar!Agenda!Init
    BY CalendarInitInv DEF EventLoopInit
  <1>2. ASSUME CalendarInv, [EventLoopNext]_<<scheduler, vars, heapVars, calendarVars>>
        PROVE  CalendarInv' /\ Step
    <2>1. CASE UsesCalendar
      BY <1>2, <2>1, CalendarNextStep DEF UsesCalendar
    <2>2. CASE UNCHANGED calendarVars
      BY <1>2, <2>2 DEF CalendarInv, calendarVars
    <2> QED
      BY <1>2, <2>1, <2>2 DEF EventLoopNext, UsesMap, UsesHeap
  <1> QED
    BY <1>1, <1>2, PTL DEF EventLoopSpec, CalendarIsAgenda, Calendar!ImplementsAgenda, Calendar!Agenda!Spec

-----------------------------------------------------------------------------
\* Whichever scheduler a run uses, the default simulator with its map does only
\* what its own specification allows: what holds of every behaviour of that
\* specification holds of every run of the event loop.
THEOREM EventLoopRunsSimulator == EventLoopSpec => Spec
  <1>1. EventLoopInit => Init
    BY DEF EventLoopInit
  <1>2. [EventLoopNext]_<<scheduler, vars, heapVars, calendarVars>> => [Next]_vars
    BY DEF EventLoopNext, UsesMap, UsesHeap, UsesCalendar
  <1> QED
    BY <1>1, <1>2, PTL DEF EventLoopSpec, Spec

=============================================================================
