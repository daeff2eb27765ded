-------------------------- MODULE CalendarScheduler --------------------------
(* The calendar queue a simulator may keep its events in: an array of        *)
(* buckets, each the sorted list of the events of one "day" of every "year", *)
(* which grows and shrinks and changes the length of its days with the       *)
(* events it holds.                                                          *)
EXTENDS EventKey, SequencesExt

CONSTANTS Delays, MaxUid

VARIABLES calendar,     \* the members of CalendarScheduler
          m_currentTs, m_uid

calendarVars == <<calendar, m_currentTs, m_uid>>

\* Init, for a queue whose last event was due at startPrio.
Opened(nBuckets, width, startPrio, qSize) ==
    [buckets |-> [i \in 0 .. nBuckets - 1 |-> <<>>],
     nBuckets |-> nBuckets, width |-> width, qSize |-> qSize, lastPrio |-> startPrio,
     lastBucket |-> (startPrio \div width) % nBuckets,
     bucketTop |-> (startPrio \div width + 1) * width]

Hash(c, ts) == (ts \div c.width) % c.nBuckets

Events(c) == UNION {ToSet(c.buckets[i]) : i \in DOMAIN c.buckets}

\* Mutant of DoInsert: an event goes before those due at the same time.
DoInsertBeforeEquals(c, e) ==
    LET bucket == c.buckets[Hash(c, e.ts)]
        later == {i \in DOMAIN bucket : e.ts <= bucket[i].ts}
        place == IF later = {} THEN Len(bucket) + 1 ELSE Min(later)
    IN  [c EXCEPT !.buckets[Hash(c, e.ts)] = InsertAt(bucket, place, e)]

DoInsert(c, e) ==
    LET bucket == c.buckets[Hash(c, e.ts)]
        later == {i \in DOMAIN bucket : Precedes(e, bucket[i])}
        place == IF later = {} THEN Len(bucket) + 1 ELSE Min(later)
    IN  [c EXCEPT !.buckets[Hash(c, e.ts)] = InsertAt(bucket, place, e)]

-----------------------------------------------------------------------------
\* The k-th bucket after the current one, and the end of its day.
Day(c, k) == (c.lastBucket + k) % c.nBuckets
Top(c, k) == c.bucketTop + k * c.width

\* Days of the coming year that have an event.
DaysDue(c) == {k \in 0 .. c.nBuckets - 1 :
                  /\ c.buckets[Day(c, k)] # <<>>
                  /\ Head(c.buckets[Day(c, k)]).ts < Top(c, k)}

Fronts(c) == {Head(c.buckets[i]) : i \in {j \in DOMAIN c.buckets : c.buckets[j] # <<>>}}

\* The event taken, and the calendar at its day.  A year without events is
\* skipped for the day of the earliest event there is.
DoRemoveNext(c) ==
    IF DaysDue(c) # {}
    THEN LET k == Min(DaysDue(c))
             e == Head(c.buckets[Day(c, k)])
         IN  [event |-> e,
              rest |-> [c EXCEPT !.lastBucket = Day(c, k), !.lastPrio = e.ts,
                                 !.bucketTop = Top(c, k), !.buckets[Day(c, k)] = Tail(@)]]
    ELSE LET e == CHOOSE f \in Fronts(c) : IsFirst(f, Fronts(c))
         IN  [event |-> e,
              rest |-> [c EXCEPT !.lastBucket = Hash(c, e.ts), !.lastPrio = e.ts,
                                 !.bucketTop = (e.ts \div c.width + 1) * c.width,
                                 !.buckets[Hash(c, e.ts)] = Tail(@)]]

-----------------------------------------------------------------------------
TakeSample(s) ==
    LET next == DoRemoveNext(s.calendar)
    IN  [calendar |-> next.rest, samples |-> Append(s.samples, next.event)]

Samples(c, n) ==
    LET after[i \in 0 .. n] ==
            IF i = 0 THEN [calendar |-> c, samples |-> <<>>] ELSE TakeSample(after[i - 1])
    IN  after[n].samples

SampleCount(qSize) ==
    LET some == IF qSize <= 5 THEN qSize ELSE 5 + qSize \div 10
    IN  IF some > 25 THEN 25 ELSE some

\* The sum of the gaps between successive samples, those wider than limit left out.
Separation(samples, limit) ==
    LET gap(i) == samples[i + 1].ts - samples[i].ts
        sum[i \in 0 .. Len(samples) - 1] ==
            IF i = 0 THEN 0
            ELSE IF gap(i) <= limit THEN sum[i - 1] + gap(i)
            ELSE sum[i - 1]
    IN  sum[Len(samples) - 1]

\* Three times the separation of the next events, the wide gaps left out.  The
\* samples are put back where they were.
CalculateNewWidth(c) ==
    IF c.qSize < 2 THEN 1
    ELSE LET samples == Samples(c, SampleCount(c.qSize))
             all == samples[Len(samples)].ts - samples[1].ts
             width == 3 * Separation(samples, 2 * (all \div (Len(samples) - 1)))
         IN  IF width > 1 THEN width ELSE 1

InsertAll(c, bucket) ==
    LET after[i \in 0 .. Len(bucket)] ==
            IF i = 0 THEN c ELSE DoInsert(after[i - 1], bucket[i])
    IN  after[Len(bucket)]

Resize(c, newSize) ==
    LET after[i \in 0 .. c.nBuckets] ==
            IF i = 0 THEN Opened(newSize, CalculateNewWidth(c), c.lastPrio, c.qSize)
            ELSE InsertAll(after[i - 1], c.buckets[i - 1])
    IN  after[c.nBuckets]

ResizeUp(c) ==
    IF c.qSize > c.nBuckets * 2 /\ c.nBuckets < 32768 THEN Resize(c, 2 * c.nBuckets) ELSE c

ResizeDown(c) == IF c.qSize < c.nBuckets \div 2 THEN Resize(c, c.nBuckets \div 2) ELSE c

InsertOne(c, e) == ResizeUp([DoInsert(c, e) EXCEPT !.qSize = @ + 1])

\* What is left when the event DoRemoveNext gives is taken.
WithoutNext(c) == ResizeDown([DoRemoveNext(c).rest EXCEPT !.qSize = @ - 1])

\* The event with this uid is erased from its bucket.
Erase(bucket, uid) == RemoveAt(bucket, CHOOSE i \in DOMAIN bucket : bucket[i].uid = uid)

\* What is left of a calendar, and the new one, after one more event has changed over.
ChangeOver(s) ==
    [old |-> WithoutNext(s.old), new |-> InsertOne(s.new, DoRemoveNext(s.old).event)]

-----------------------------------------------------------------------------
Init == calendar = Opened(2, 1, 0, 0) /\ m_currentTs = 0 /\ m_uid = FirstUid

Insert ==
    /\ m_uid < MaxUid
    /\ \E d \in Delays :
          calendar' = InsertOne(calendar, [ts |-> m_currentTs + d, uid |-> m_uid])
    /\ m_uid' = m_uid + 1
    /\ UNCHANGED m_currentTs

RemoveNext ==
    /\ calendar.qSize > 0
    /\ calendar' = WithoutNext(calendar)
    /\ m_currentTs' = DoRemoveNext(calendar).event.ts
    /\ UNCHANGED m_uid

RemoveEvent ==
    /\ \E e \in Events(calendar) :
          LET erased == [calendar EXCEPT !.buckets[Hash(calendar, e.ts)] = Erase(@, e.uid)]
          IN  calendar' = ResizeDown([erased EXCEPT !.qSize = @ - 1])
    /\ UNCHANGED <<m_currentTs, m_uid>>

\* The simulator changes to a new calendar queue, whose first day is day 0.
SetScheduler ==
    /\ LET after[n \in 0 .. calendar.qSize] ==
               IF n = 0 THEN [old |-> calendar, new |-> Opened(2, 1, 0, 0)]
               ELSE ChangeOver(after[n - 1])
       IN  calendar' = after[calendar.qSize].new
    /\ UNCHANGED <<m_currentTs, m_uid>>

Next == Insert \/ RemoveNext \/ RemoveEvent \/ SetScheduler

Spec == Init /\ [][Next]_calendarVars

-----------------------------------------------------------------------------
\* Through every resize, every skipped year and every removal the calendar
\* gives out the earliest event it holds, and loses none.
Agenda == INSTANCE EventAgenda WITH events <- Events(calendar)
ImplementsAgenda == Agenda!Spec

=============================================================================
