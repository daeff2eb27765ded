------------------------ MODULE BlockAckWindowProofs ------------------------
(* Lemmas about sequence numbers and about the ring of BlockAckWindow: what  *)
(* Advance, Mark and Clear do to the set of marked offsets, and where the    *)
(* originator's notifications leave its window.                              *)
EXTENDS TransmitWindow, Ordering, Sequences, FiniteSetTheorems, FunctionTheorems,
        NaturalsInduction, WellFoundedInduction, TLAPS

LEMMA HalfSpace == /\ SeqHalf \in Nat
                   /\ SeqSpace = 2 * SeqHalf
                   /\ 2 * WinSize <= SeqHalf
                   /\ SeqSpace \in Nat \ {0}
  BY SeqSpaceAssumption, WinSizeAssumption DEF SeqHalf

\* GetDistance without the modulo: one turn of the circle at most.
LEMMA DistanceValue ==
  ASSUME NEW seq \in SeqNos, NEW start \in SeqNos
  PROVE  /\ Distance(seq, start) \in SeqNos
         /\ Distance(seq, start) =
              IF seq >= start THEN seq - start ELSE seq - start + SeqSpace
  BY SeqSpaceAssumption, HalfSpace, SMTT(30) DEF Distance, SeqNos

LEMMA ModType == ASSUME NEW n \in Nat, NEW m \in Nat \ {0}
                 PROVE  n % m \in 0 .. m - 1
  BY SMTT(30)

LEMMA PlusType == ASSUME NEW seq \in SeqNos, NEW n \in Nat
                  PROVE  Plus(seq, n) \in SeqNos
  <1>1. seq + n \in Nat
    BY DEF SeqNos
  <1> QED
    BY <1>1, ModType, HalfSpace DEF Plus, SeqNos

LEMMA PlusValue ==
  ASSUME NEW seq \in SeqNos, NEW n \in 0 .. SeqSpace
  PROVE  Plus(seq, n) = IF seq + n < SeqSpace THEN seq + n ELSE seq + n - SeqSpace
  <1> DEFINE sum == seq + n
  <1>1. /\ sum \in Nat /\ sum < 2 * SeqSpace
        /\ SeqSpace \in Nat \ {0} /\ sum - SeqSpace \in Int
    BY HalfSpace DEF SeqNos
  <1>2. Plus(seq, n) = sum % SeqSpace
    BY DEF Plus
  <1> HIDE DEF sum
  <1>3. (sum < SeqSpace => sum % SeqSpace = sum)
        /\ (sum >= SeqSpace => sum % SeqSpace = sum - SeqSpace)
    BY <1>1, SMTT(30)
  <1>4. sum = seq + n
    BY DEF sum
  <1> QED
    BY <1>1, <1>2, <1>3, <1>4, HalfSpace DEF SeqNos

\* Moving on twice is moving on once by the sum.
LEMMA PlusPlus ==
  ASSUME NEW seq \in SeqNos, NEW a \in Nat, NEW b \in Nat, a + b <= SeqSpace
  PROVE  Plus(Plus(seq, a), b) = Plus(seq, a + b)
  <1>1. a \in 0 .. SeqSpace /\ b \in 0 .. SeqSpace /\ a + b \in 0 .. SeqSpace
    BY HalfSpace
  <1>2. Plus(seq, a) \in SeqNos
    BY PlusType
  <1> DEFINE mid == Plus(seq, a)
  <1>3. mid = IF seq + a < SeqSpace THEN seq + a ELSE seq + a - SeqSpace
    BY <1>1, PlusValue
  <1>4. Plus(mid, b) = IF mid + b < SeqSpace THEN mid + b ELSE mid + b - SeqSpace
    BY <1>1, <1>2, PlusValue
  <1>5. Plus(seq, a + b) = IF seq + (a + b) < SeqSpace THEN seq + (a + b)
                                                    ELSE seq + (a + b) - SeqSpace
    BY <1>1, PlusValue
  <1>6. seq \in 0 .. SeqSpace - 1
    BY DEF SeqNos
  <1> HIDE DEF mid
  <1>7. Plus(mid, b) = Plus(seq, a + b)
    BY <1>3, <1>4, <1>5, <1>6, HalfSpace
  <1> QED
    BY <1>7 DEF mid

-----------------------------------------------------------------------------
LEMMA FirstGapExists ==
  ASSUME NEW A \in SUBSET Offsets
  PROVE  /\ FirstGap(A) \in 0 .. WinSize
         /\ FirstGap(A) \notin A
         /\ \A m \in Offsets : m < FirstGap(A) => m \in A
  <1> DEFINE Gaps == {n \in Nat : n <= WinSize /\ n \notin A}
             Less == {ss \in Nat \X Nat : ss[1] < ss[2]}
  <1>1. WinSize \in Gaps
    BY WinSizeAssumption DEF Offsets
  <1>2. IsWellFoundedOn(Less, Nat)
    BY NatLessThanWellFounded DEF OpToRel
  <1>3. PICK n \in Gaps : \A m \in Gaps : ~(<<m, n>> \in Less)
    <2>1. Gaps \subseteq Nat /\ Gaps # {}
      BY <1>1
    <2> HIDE DEF Gaps, Less
    <2> QED
      BY <1>2, <2>1, WFMin
  <1>4. n \in 0 .. WinSize /\ n \notin A
    BY WinSizeAssumption
  <1>5. ASSUME NEW m \in Offsets, m < n
        PROVE  m \in A
    <2>1. m \in Nat /\ n \in Nat /\ m <= WinSize
      BY WinSizeAssumption DEF Offsets
    <2>2. <<m, n>> \in Less
      BY <1>5, <2>1
    <2> QED
      BY <1>3, <2>1, <2>2
  <1> HIDE DEF Gaps, Less
  <1> QED
    BY <1>4, <1>5 DEF FirstGap

-----------------------------------------------------------------------------
LEMMA CellValue ==
  ASSUME NEW w \in Windows, NEW d \in 0 .. WinSize
  PROVE  /\ Cell(w, d) = IF w.head + d < WinSize THEN w.head + d
                                                ELSE w.head + d - WinSize
         /\ Cell(w, d) \in Offsets
  <1>1. w.head \in 0 .. WinSize - 1
    BY DEF Windows, Offsets
  <1> DEFINE sum == w.head + d
  <1>2. /\ sum \in Nat /\ sum < 2 * WinSize
        /\ WinSize \in Nat \ {0} /\ sum - WinSize \in Int
    BY <1>1, WinSizeAssumption
  <1>3. Cell(w, d) = sum % WinSize
    BY DEF Cell
  <1> HIDE DEF sum
  <1>4. /\ sum < WinSize => sum % WinSize = sum
        /\ sum >= WinSize => sum % WinSize = sum - WinSize
        /\ sum % WinSize \in 0 .. WinSize - 1
    BY <1>2, SMTT(30)
  <1>5. sum = w.head + d
    BY DEF sum
  <1> QED
    BY <1>1, <1>2, <1>3, <1>4, <1>5 DEF Offsets

\* Distinct offsets have distinct cells.
LEMMA CellInjective ==
  ASSUME NEW w \in Windows, NEW d \in Offsets, NEW e \in Offsets,
         Cell(w, d) = Cell(w, e)
  PROVE  d = e
  <1>1. w.head \in 0 .. WinSize - 1
    BY DEF Windows, Offsets
  <1>2. d \in 0 .. WinSize /\ e \in 0 .. WinSize
    BY WinSizeAssumption DEF Offsets
  <1> QED
    BY <1>1, <1>2, CellValue, WinSizeAssumption DEF Offsets

LEMMA ClearWindow ==
  ASSUME NEW w \in Windows, NEW n \in 0 .. WinSize
  PROVE  /\ Clear(w, n) \in Windows
         /\ Clear(w, n).winStart = Plus(w.winStart, n)
         /\ Marked(Clear(w, n)) = Drop(Marked(w), n)
  <1> DEFINE c == Clear(w, n)
  <1>1. w.winStart \in SeqNos /\ n \in Nat
    BY WinSizeAssumption DEF Windows
  <1>2. c \in Windows
    BY <1>1, PlusType, CellValue DEF Windows, Clear, Offsets
  <1>3. ASSUME NEW d \in Offsets
        PROVE  At(c, d) <=> d + n \in Marked(w)
    <2>1. c.head = Cell(w, n) /\ c.head \in 0 .. WinSize - 1
      BY CellValue DEF Clear, Offsets
    <2>2. w.head \in 0 .. WinSize - 1 /\ d \in 0 .. WinSize
      BY WinSizeAssumption DEF Windows, Offsets
    <2>3. CASE d + n < WinSize
      <3>1. d + n \in Offsets /\ d + n \in 0 .. WinSize
        BY <2>2, <2>3, WinSizeAssumption DEF Offsets
      <3>2. Cell(c, d) = Cell(w, d + n)
        BY <1>2, <2>1, <2>2, <3>1, CellValue, WinSizeAssumption
      <3>3. \A e \in Offsets : e < n => Cell(w, d + n) # Cell(w, e)
        BY <3>1, CellInjective, WinSizeAssumption DEF Offsets
      <3>4. Cell(w, d + n) \in Offsets
        BY <3>1, CellValue
      <3> QED
        BY <3>1, <3>2, <3>3, <3>4 DEF At, Marked, Clear
    <2>4. CASE d + n >= WinSize
      <3> DEFINE e == d + n - WinSize
      <3>1. e \in Offsets /\ e < n /\ e \in 0 .. WinSize
        BY <2>4, WinSizeAssumption DEF Offsets
      <3>2. Cell(c, d) = Cell(w, e)
        BY <1>2, <2>1, <2>2, <3>1, CellValue, WinSizeAssumption
      <3>3. Cell(w, e) \in Offsets
        BY <3>1, CellValue
      <3>4. ~At(c, d)
        BY <3>1, <3>2, <3>3 DEF At, Clear
      <3>5. d + n \notin Offsets
        BY <2>4, WinSizeAssumption DEF Offsets
      <3> QED
        BY <3>4, <3>5 DEF Marked
    <2> QED
      BY <2>3, <2>4, WinSizeAssumption DEF Offsets
  <1>4. c.winStart = Plus(w.winStart, n)
    BY DEF Clear
  <1> HIDE DEF c
  <1>5. Marked(c) = Drop(Marked(w), n)
    BY <1>3 DEF Marked, Drop
  <1> QED
    BY <1>2, <1>4, <1>5 DEF c

LEMMA InitWindowEmpty ==
  ASSUME NEW s \in SeqNos
  PROVE  InitWindow(s) \in Windows /\ Marked(InitWindow(s)) = {}
  <1>1. InitWindow(s) \in Windows
    BY WinSizeAssumption DEF InitWindow, Windows, Offsets
  <1>2. \A d \in Offsets : ~At(InitWindow(s), d)
    <2> TAKE d \in Offsets
    <2>1. d \in 0 .. WinSize
      BY WinSizeAssumption DEF Offsets
    <2>2. Cell(InitWindow(s), d) \in Offsets
      BY <1>1, <2>1, CellValue
    <2> QED
      BY <2>2 DEF At, InitWindow
  <1> QED
    BY <1>1, <1>2 DEF Marked

\* Advance by any count: the ring becomes the window that far on.
LEMMA AdvanceWindow ==
  ASSUME NEW w \in Windows, NEW n \in Nat
  PROVE  /\ Advance(w, n) \in Windows
         /\ Advance(w, n).winStart = Plus(w.winStart, n)
         /\ Marked(Advance(w, n)) = Drop(Marked(w), n)
  <1>1. w.winStart \in SeqNos
    BY DEF Windows
  <1>2. CASE n < WinSize
    <2>1. n \in 0 .. WinSize /\ Advance(w, n) = Clear(w, n)
      BY <1>2, WinSizeAssumption DEF Advance
    <2> QED
      BY <2>1, ClearWindow
  <1>3. CASE n >= WinSize
    <2>1. Advance(w, n) = InitWindow(Plus(w.winStart, n))
      BY <1>3 DEF Advance
    <2>2. Plus(w.winStart, n) \in SeqNos
      BY <1>1, PlusType
    <2>3. Drop(Marked(w), n) = {}
      BY <1>3, WinSizeAssumption DEF Drop, Marked, Offsets
    <2> QED
      BY <2>1, <2>2, <2>3, InitWindowEmpty DEF InitWindow
  <1> QED
    BY <1>2, <1>3, WinSizeAssumption

LEMMA MarkWindow ==
  ASSUME NEW w \in Windows, NEW d \in Offsets
  PROVE  /\ Mark(w, d) \in Windows
         /\ Mark(w, d).winStart = w.winStart
         /\ Marked(Mark(w, d)) = Marked(w) \cup {d}
  <1>1. d \in 0 .. WinSize
    BY WinSizeAssumption DEF Offsets
  <1>2. Cell(w, d) \in Offsets
    BY <1>1, CellValue
  <1>3. Mark(w, d) \in Windows /\ Mark(w, d).winStart = w.winStart
    BY <1>2 DEF Mark, Windows
  <1>4. ASSUME NEW e \in Offsets
        PROVE  At(Mark(w, d), e) <=> (At(w, e) \/ e = d)
    <2>1. Cell(Mark(w, d), e) = Cell(w, e)
      BY DEF Cell, Mark, Windows
    <2>2. Cell(w, e) = Cell(w, d) <=> e = d
      BY CellInjective
    <2>3. e \in 0 .. WinSize
      BY WinSizeAssumption DEF Offsets
    <2>4. Cell(w, e) \in Offsets
      BY <2>3, CellValue
    <2> QED
      BY <1>2, <2>1, <2>2, <2>4 DEF At, Mark, Windows
  <1> QED
    BY <1>3, <1>4 DEF Marked

-----------------------------------------------------------------------------
LEMMA FirstGapHere ==
  ASSUME NEW w \in Windows
  PROVE  /\ FirstGap(Marked(w)) \in 0 .. WinSize
         /\ FirstGap(Marked(w)) \notin Marked(w)
  BY FirstGapExists DEF Marked

\* AdvanceTxWindow stops at the first offset that is not marked.
LEMMA AdvanceTxWindowStops ==
  ASSUME NEW w \in Windows
  PROVE  LET gap == FirstGap(Marked(w))
         IN  /\ AdvanceTxWindow(w) \in Windows
             /\ AdvanceTxWindow(w).winStart = Plus(w.winStart, gap)
             /\ Marked(AdvanceTxWindow(w)) = Drop(Marked(w), gap)
             /\ ~At(AdvanceTxWindow(w), 0)
  <1> DEFINE gap == FirstGap(Marked(w))
             c == AdvanceTxWindow(w)
  <1>1. gap \in 0 .. WinSize /\ gap \notin Marked(w)
    BY FirstGapHere
  <1>2. /\ c \in Windows
        /\ c.winStart = Plus(w.winStart, gap)
        /\ Marked(c) = Drop(Marked(w), gap)
    BY <1>1, ClearWindow DEF AdvanceTxWindow
  <1>3. 0 \notin Drop(Marked(w), gap)
    BY <1>1 DEF Drop
  <1>4. 0 \in Offsets
    BY WinSizeAssumption DEF Offsets
  <1>5. ~At(c, 0)
    BY <1>2, <1>3, <1>4 DEF Marked
  <1> QED
    BY <1>2, <1>5

\* The three notifications in terms of offsets: advance by a count, then to
\* the first gap.
LEMMA AdvanceThenSettle ==
  ASSUME NEW w \in Windows, NEW n \in Nat, n + WinSize <= SeqSpace
  PROVE  LET rest == Drop(Marked(w), n)
             gap  == FirstGap(rest)
             v    == AdvanceTxWindow(Advance(w, n))
         IN  /\ v \in Windows
             /\ v.winStart = Plus(w.winStart, n + gap)
             /\ Marked(v) = Drop(rest, gap)
             /\ ~At(v, 0)
  <1> DEFINE a == Advance(w, n)
             gap == FirstGap(Marked(a))
  <1>1. a \in Windows /\ a.winStart = Plus(w.winStart, n)
                      /\ Marked(a) = Drop(Marked(w), n)
    BY AdvanceWindow
  <1>2. gap \in 0 .. WinSize
    BY <1>1, FirstGapHere
  <1>3. w.winStart \in SeqNos /\ gap \in Nat /\ n + gap <= SeqSpace
    BY <1>2, WinSizeAssumption, HalfSpace DEF Windows
  <1>4. Plus(Plus(w.winStart, n), gap) = Plus(w.winStart, n + gap)
    BY <1>3, PlusPlus
  <1> HIDE DEF a
  <1>5. LET v == AdvanceTxWindow(a)
        IN  /\ v \in Windows
            /\ v.winStart = Plus(a.winStart, gap)
            /\ Marked(v) = Drop(Marked(a), gap)
            /\ ~At(v, 0)
    BY <1>1, AdvanceTxWindowStops
  <1> QED
    BY <1>1, <1>4, <1>5 DEF a

LEMMA DropNone == ASSUME NEW A \in SUBSET Offsets PROVE Drop(A, 0) = A
  <1>1. \A d \in Offsets : d + 0 = d
    BY DEF Offsets
  <1> QED
    BY <1>1 DEF Drop

LEMMA AdvanceNowhere == \A w \in Windows : Advance(w, 0) = w
  <1> TAKE w \in Windows
  <1> DEFINE c == Clear(w, 0)
  <1>1. 0 \in 0 .. WinSize /\ w.head \in 0 .. WinSize - 1 /\ w.winStart \in SeqNos
    BY WinSizeAssumption DEF Windows, Offsets
  <1>2. c.winStart = w.winStart
    BY <1>1, PlusValue, HalfSpace DEF Clear, SeqNos
  <1>3. c.head = w.head
    BY <1>1, CellValue, WinSizeAssumption DEF Clear
  <1>4. c.window = w.window
    <2>1. ~\E d \in Offsets : d < 0
      BY DEF Offsets
    <2>2. c.window = [i \in Offsets |-> w.window[i] /\ \A d \in Offsets : d < 0 => i # Cell(w, d)]
      BY DEF Clear
    <2>3. c.window = [i \in Offsets |-> w.window[i]]
      BY <2>1, <2>2, Zenon DEF Windows
    <2> QED
      BY <2>3 DEF Windows
  <1>5. c = w
    BY <1>2, <1>3, <1>4 DEF Clear, Windows
  <1>6. Advance(w, 0) = c
    BY WinSizeAssumption DEF Advance
  <1> QED
    BY <1>5, <1>6

-----------------------------------------------------------------------------
\* Elements of a finite set that a key with integer values tells apart.
Keyed(M, key) ==
  /\ IsFiniteSet(M)
  /\ \A m \in M : key[m] \in Int
  /\ \A m, n \in M : key[m] = key[n] => m = n

\* How many come before an element: the ranks are the numbers below the size.
Rank(M, key, m) == Cardinality({n \in M : key[n] < key[m]})

LEMMA RankOrder ==
  ASSUME NEW M, NEW key, Keyed(M, key)
  PROVE  /\ \A m \in M : Rank(M, key, m) \in 0 .. Cardinality(M) - 1
         /\ \A m, n \in M : Rank(M, key, m) < Rank(M, key, n) <=> key[m] < key[n]
  <1> DEFINE Before(m) == {n \in M : key[n] < key[m]}
  <1>1. ASSUME NEW A \in SUBSET M, NEW B \in SUBSET M, A \subseteq B, A # B
        PROVE  /\ Cardinality(A) \in Nat /\ Cardinality(B) \in Nat /\ Cardinality(A) < Cardinality(B)
    <2>1. IsFiniteSet(B)
      BY FS_Subset DEF Keyed
    <2>2. Cardinality(A) <= Cardinality(B) /\ (Cardinality(A) = Cardinality(B) => A = B) /\ IsFiniteSet(A)
      BY <1>1, <2>1, FS_Subset
    <2>3. Cardinality(A) \in Nat /\ Cardinality(B) \in Nat
      BY <2>1, <2>2, FS_CardinalityType
    <2> QED
      BY <1>1, <2>2, <2>3
  <1>2. \A m \in M : Before(m) \in SUBSET M /\ m \notin Before(m)
    BY DEF Keyed
  <1>3. ASSUME NEW m \in M
        PROVE  Rank(M, key, m) \in 0 .. Cardinality(M) - 1
    <2>1. Before(m) # M /\ Before(m) \in SUBSET M
      BY <1>2
    <2>2. /\ Cardinality(Before(m)) \in Nat /\ Cardinality(M) \in Nat
          /\ Cardinality(Before(m)) < Cardinality(M)
      <3> HIDE DEF Before
      <3> QED
        BY <1>1, <2>1
    <2> QED
      BY <2>2 DEF Rank
  <1>4. ASSUME NEW m \in M, NEW n \in M, key[m] < key[n]
        PROVE  Rank(M, key, m) < Rank(M, key, n)
    <2>1. Before(m) \subseteq Before(n) /\ m \in Before(n) /\ m \notin Before(m)
      BY <1>4 DEF Keyed
    <2>2. Cardinality(Before(m)) < Cardinality(Before(n))
      <3> HIDE DEF Before
      <3> QED
        BY <1>1, <1>2, <2>1
    <2> QED
      BY <2>2 DEF Rank
  <1>5. ASSUME NEW m \in M, NEW n \in M, Rank(M, key, m) < Rank(M, key, n)
        PROVE  key[m] < key[n]
    <2>1. key[m] \in Int /\ key[n] \in Int /\ (key[m] = key[n] => m = n)
      BY DEF Keyed
    <2>2. Rank(M, key, m) \in Int /\ Rank(M, key, n) \in Int
      BY <1>3
    <2>3. CASE key[n] < key[m]
      <3>1. Rank(M, key, n) < Rank(M, key, m)
        BY <1>4, <2>3
      <3> QED
        BY <1>5, <2>2, <3>1
    <2>4. CASE key[m] = key[n]
      BY <1>5, <2>1, <2>2, <2>4
    <2> QED
      BY <2>1, <2>3, <2>4
  <1> QED
    BY <1>3, <1>4, <1>5

\* The sequence Ordered has every element of the set once, in the order of its key.
LEMMA OrderedMeans ==
  ASSUME NEW M, NEW key, Keyed(M, key)
  PROVE  LET s == Ordered(M, key)
         IN  /\ s \in Seq(M) /\ DOMAIN s = 1 .. Cardinality(M)
             /\ \A m \in M : \E i \in DOMAIN s : s[i] = m
             /\ \A i, j \in DOMAIN s : i < j => key[s[i]] < key[s[j]]
  <1> DEFINE c == Cardinality(M)
             s == Ordered(M, key)
             rank == [m \in M |-> Rank(M, key, m)]
  <1>1. IsFiniteSet(M) /\ c \in Nat
    BY FS_CardinalityType DEF Keyed
  <1>2. rank \in Injection(M, 0 .. c - 1)
    <2>1. rank \in [M -> 0 .. c - 1]
      BY RankOrder
    <2>2. ASSUME NEW m \in M, NEW n \in M, rank[m] = rank[n]
          PROVE  m = n
      <3>1. Rank(M, key, m) = Rank(M, key, n) /\ Rank(M, key, m) \in Int
        BY <2>2, RankOrder
      <3>2. ~(key[m] < key[n]) /\ ~(key[n] < key[m])
        BY <3>1, RankOrder
      <3> QED
        BY <3>2 DEF Keyed
    <2> QED
      BY <2>1, <2>2 DEF Injection, IsInjective
  <1>3. IsFiniteSet(0 .. c - 1) /\ Cardinality(0 .. c - 1) = c
    BY <1>1, FS_Interval
  <1>4. rank \in Surjection(M, 0 .. c - 1)
    <2> HIDE DEF rank
    <2> QED
      BY <1>2, <1>3, FS_Injection
  <1>5. \A i \in 0 .. c - 1 : /\ Nth(M, key, i) \in M
                              /\ Rank(M, key, Nth(M, key, i)) = i
    <2> TAKE i \in 0 .. c - 1
    <2>1. \E m \in M : rank[m] = i
      BY <1>4 DEF Surjection
    <2>2. \E m \in M : Rank(M, key, m) = i
      BY <2>1
    <2> QED
      BY <2>2 DEF Nth, Rank
  <1>6. s = [i \in 1 .. c |-> Nth(M, key, i - 1)]
    BY DEF Ordered
  <1>7. \A i \in 1 .. c : /\ i - 1 \in 0 .. c - 1 /\ s[i] \in M
                          /\ Rank(M, key, s[i]) = i - 1
    BY <1>1, <1>5, <1>6
  <1>8. DOMAIN s = 1 .. c /\ s \in Seq(M)
    BY <1>1, <1>6, <1>7
  <1>9. ASSUME NEW m \in M
        PROVE  \E i \in DOMAIN s : s[i] = m
    <2> DEFINE i == Rank(M, key, m) + 1
    <2>1. Rank(M, key, m) \in 0 .. c - 1 /\ i \in 1 .. c /\ i - 1 = Rank(M, key, m)
      BY <1>1, RankOrder
    <2> HIDE DEF i, s
    <2>2. s[i] \in M /\ Rank(M, key, s[i]) = Rank(M, key, m)
      BY <1>7, <2>1
    <2>3. rank[s[i]] = rank[m]
      BY <2>2
    <2>4. s[i] = m
      BY <1>2, <2>2, <2>3 DEF Injection, IsInjective
    <2> QED
      BY <1>8, <2>1, <2>4
  <1>10. ASSUME NEW i \in DOMAIN s, NEW j \in DOMAIN s, i < j
         PROVE  key[s[i]] < key[s[j]]
    <2> HIDE DEF s
    <2>1. i \in 1 .. c /\ j \in 1 .. c
      BY <1>8
    <2>2. Rank(M, key, s[i]) < Rank(M, key, s[j])
      BY <1>7, <1>10, <2>1
    <2> QED
      BY <1>7, <2>1, <2>2, RankOrder
  <1> QED
    BY <1>8, <1>9, <1>10

=============================================================================
