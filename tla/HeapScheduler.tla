---------------------------- MODULE HeapScheduler ----------------------------
(* The binary heap a simulator may keep its events in, and the calls the     *)
(* simulator makes of it.                                                    *)
EXTENDS EventKey, SequencesExt

CONSTANTS Delays, MaxUid

VARIABLES heap,         \* m_heap from its first used item on: the root is heap[1]
          m_currentTs, m_uid,
          misplaced     \* has Remove put an event under a parent that is due later

heapVars == <<heap, m_currentTs, m_uid, misplaced>>

Exch(h, a, b) == [h EXCEPT ![a] = h[b], ![b] = h[a]]

\* One turn of the loop in BottomUp, for the event at index.
Rise(s) ==
    LET parent == s.index \div 2
    IN  IF s.index > 1 /\ Precedes(s.heap[s.index], s.heap[parent])
        THEN [heap |-> Exch(s.heap, s.index, parent), index |-> parent]
        ELSE s

\* The loop ends within as many turns as there are items.
BottomUp(h) ==
    LET after[n \in 0 .. Len(h)] ==
            IF n = 0 THEN [heap |-> h, index |-> Len(h)] ELSE Rise(after[n - 1])
    IN  after[Len(h)].heap

\* Mutant of Smallest: of two events due at the same time, the right one.
SmallestByTime(h, a, b) == IF h[a].ts < h[b].ts THEN a ELSE b

Smallest(h, a, b) == IF Precedes(h[a], h[b]) THEN a ELSE b

\* One turn of the loop in TopDown, the last one to a single child included.
Sink(s) ==
    LET left == 2 * s.index
        child == IF left < Len(s.heap) THEN Smallest(s.heap, left, left + 1) ELSE left
    IN  IF left > Len(s.heap) \/ Precedes(s.heap[s.index], s.heap[child])
        THEN s
        ELSE [heap |-> Exch(s.heap, s.index, child), index |-> child]

TopDown(h, start) ==
    LET after[n \in 0 .. Len(h)] ==
            IF n = 0 THEN [heap |-> h, index |-> start] ELSE Sink(after[n - 1])
    IN  after[Len(h)].heap

\* The last item takes the place of item i, and only sinks from there.
Without(h, i) == TopDown(SubSeq(Exch(h, i, Len(h)), 1, Len(h) - 1), i)

InsertOne(h, e) == BottomUp(Append(h, e))

\* What is left of a heap, and the new one, after one more event has changed over.
ChangeOver(s) == [old |-> Without(s.old, 1), new |-> InsertOne(s.new, s.old[1])]

-----------------------------------------------------------------------------
Init == heap = <<>> /\ m_currentTs = 0 /\ m_uid = FirstUid /\ misplaced = FALSE

Insert ==
    /\ m_uid < MaxUid
    /\ \E d \in Delays :
          heap' = InsertOne(heap, [ts |-> m_currentTs + d, uid |-> m_uid])
    /\ m_uid' = m_uid + 1
    /\ UNCHANGED <<m_currentTs, misplaced>>

RemoveNext ==
    /\ heap # <<>>
    /\ heap' = Without(heap, 1)
    /\ m_currentTs' = heap[1].ts
    /\ UNCHANGED <<m_uid, misplaced>>

RemoveEvent ==
    /\ \E i \in DOMAIN heap :
          /\ heap' = Without(heap, i)
          /\ misplaced' = (misplaced \/ (i > 1 /\ Precedes(heap[Len(heap)], heap[i \div 2])))
    /\ UNCHANGED <<m_currentTs, m_uid>>

\* The simulator changes to a new heap.
SetScheduler ==
    /\ LET after[n \in 0 .. Len(heap)] ==
               IF n = 0 THEN [old |-> heap, new |-> <<>>] ELSE ChangeOver(after[n - 1])
       IN  heap' = after[Len(heap)].new
    /\ misplaced' = FALSE
    /\ UNCHANGED <<m_currentTs, m_uid>>

Next == Insert \/ RemoveNext \/ RemoveEvent \/ SetScheduler

Spec == Init /\ [][Next]_heapVars

-----------------------------------------------------------------------------
Agenda == INSTANCE EventAgenda WITH events <- ToSet(heap)

\* A heap in which an event has been misplaced still gives out one it holds.
GiveAnother ==
    /\ misplaced
    /\ \E e \in ToSet(heap) : ToSet(heap') = ToSet(heap) \ {e} /\ m_currentTs' = e.ts
    /\ UNCHANGED m_uid

\* Inserting, taking and removing events in any order, the heap loses none and what
\* it gives out next is the earliest, "the earliest event from the event list", until
\* a Remove has moved an event under a later parent.
AgendaUnlessMisplaced ==
    Agenda!Init /\ [][Agenda!Next \/ GiveAnother]_<<ToSet(heap), m_currentTs, m_uid>>

=============================================================================
