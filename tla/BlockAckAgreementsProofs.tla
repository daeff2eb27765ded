-------------------------- MODULE BlockAckAgreementsProofs ---------------------------
(* Theorems about both ends of an agreement, for every sequence space,       *)
(* window size and set of MPDUs.  The originator's transmit window keeps its *)
(* type, never starts at an acknowledged MPDU, and implements TxWindow.  The *)
(* recipient's buffer stays within its window, its two windows stay          *)
(* together, and what it acknowledges it holds or has let pass.              *)
EXTENDS BlockAckAgreements, BlockAckWindowProofs

(***************************************************************************)
(* The originator                                                          *)
(***************************************************************************)
Inv == TypeOK /\ StartsUnacked

LEMMA InitWindowInv ==
  ASSUME NEW s \in SeqNos
  PROVE  InitWindow(s) \in Windows /\ ~At(InitWindow(s), 0)
  <1>1. InitWindow(s) \in Windows /\ Marked(InitWindow(s)) = {} /\ 0 \in Offsets
    BY InitWindowEmpty, WinSizeAssumption DEF Offsets
  <1> QED
    BY <1>1 DEF Marked

\* SlideTo of the abstract window, in the operators of this module.
LEMMA SlideToMeans ==
  ASSUME NEW n, NEW A
  PROVE  Abstract!SlideTo(n, A) <=>
           LET rest == Drop(A, n)
               gap  == FirstGap(rest)
           IN  /\ txWindow'.winStart = Plus(txWindow.winStart, n + gap)
               /\ Marked(txWindow') = Drop(rest, gap)
  BY DEF Abstract!SlideTo, Abstract!Drop, Abstract!FirstGap, Drop, FirstGap,
         Abstract!Plus, Plus, Abstract!Offsets, Offsets, Marked, At, Cell

\* What each action does, as the abstract window sees it.
LEMMA StepRefines ==
  ASSUME Inv, NEW seq \in SeqNos,
         \/ InitTxWindow(seq)
         \/ NotifyTransmittedMpdu(seq)
         \/ NotifyAckedMpdu(seq)
         \/ NotifyDiscardedMpdu(seq)
  PROVE  Inv' /\ (Abstract!Next \/ UNCHANGED <<txWindow.winStart, Marked(txWindow)>>)
  <1> DEFINE distance == Distance(seq, txWindow.winStart)
  <1>1. txWindow \in Windows /\ txWindow.winStart \in SeqNos /\ ~At(txWindow, 0)
    BY DEF Inv, TypeOK, StartsUnacked, Windows
  <1>2. distance \in SeqNos /\ distance \in Nat
    BY <1>1, DistanceValue DEF SeqNos
  <1>3. CASE InitTxWindow(seq)
    <2>1. txWindow' = InitWindow(seq)
      BY <1>3 DEF InitTxWindow
    <2>2. Inv'
      BY <2>1, InitWindowInv DEF Inv, TypeOK, StartsUnacked
    <2>3. txWindow'.winStart \in SeqNos /\ Marked(txWindow') = {}
      BY <2>1, InitWindowEmpty DEF InitWindow
    <2> QED
      BY <2>2, <2>3 DEF Abstract!Next, Abstract!Restart, Abstract!SeqNos, SeqNos
  <1>4. CASE NotifyTransmittedMpdu(seq)
    <2>1. CASE distance \in WinSize .. SeqHalf - 1
      <3> DEFINE n == distance - WinSize + 1
      <3>1. n \in Nat /\ n + WinSize <= SeqSpace
        BY <1>2, <2>1, WinSizeAssumption, HalfSpace
      <3>2. txWindow' = AdvanceTxWindow(Advance(txWindow, n))
        BY <1>4, <2>1 DEF NotifyTransmittedMpdu, AfterTransmitted
      <3> HIDE DEF n
      <3>3. /\ txWindow' \in Windows
            /\ txWindow'.winStart = Plus(txWindow.winStart,
                                         n + FirstGap(Drop(Marked(txWindow), n)))
            /\ Marked(txWindow') = Drop(Drop(Marked(txWindow), n),
                                        FirstGap(Drop(Marked(txWindow), n)))
            /\ ~At(txWindow', 0)
        BY <1>1, <3>1, <3>2, AdvanceThenSettle
      <3>4. Abstract!SlideTo(n, Marked(txWindow))
        BY <3>3, SlideToMeans
      <3>5. Abstract!Transmit(seq)
        BY <2>1, <3>4 DEF Abstract!Transmit, n, Abstract!Distance, Distance,
                          Abstract!SeqHalf, SeqHalf
      <3> QED
        BY <3>3, <3>5 DEF Inv, TypeOK, StartsUnacked, Abstract!Next, Abstract!SeqNos, SeqNos
    <2>2. CASE distance \notin WinSize .. SeqHalf - 1
      <3>1. txWindow' = txWindow
        BY <1>4, <2>2 DEF NotifyTransmittedMpdu, AfterTransmitted
      <3> QED
        BY <3>1 DEF Inv, TypeOK, StartsUnacked, At, Cell, Marked
    <2> QED
      BY <2>1, <2>2
  <1>5. CASE NotifyAckedMpdu(seq)
    <2>1. CASE IsOld(seq, txWindow.winStart)
      <3>1. txWindow' = txWindow
        BY <1>5, <2>1 DEF NotifyAckedMpdu, AfterAcked
      <3> QED
        BY <3>1 DEF Inv, TypeOK, StartsUnacked, At, Cell, Marked
    <2>2. CASE ~IsOld(seq, txWindow.winStart)
      <3> DEFINE m == Mark(txWindow, distance)
                 gap == FirstGap(Marked(m))
      <3>1. distance \in Offsets /\ txWindow' = AdvanceTxWindow(m)
        BY <1>5, <2>2 DEF NotifyAckedMpdu, CanAck, AfterAcked
      <3>2. /\ m \in Windows
            /\ m.winStart = txWindow.winStart
            /\ Marked(m) = Marked(txWindow) \cup {distance}
        BY <1>1, <3>1, MarkWindow
      <3> HIDE DEF m
      <3>3. /\ txWindow' \in Windows
            /\ txWindow'.winStart = Plus(m.winStart, gap)
            /\ Marked(txWindow') = Drop(Marked(m), gap)
            /\ ~At(txWindow', 0)
        BY <3>1, <3>2, AdvanceTxWindowStops
      <3>4. Drop(Marked(m), 0) = Marked(m) /\ 0 + gap = gap
        <4>1. gap \in Nat
          BY <3>2, FirstGapHere, WinSizeAssumption
        <4> QED
          BY <4>1, DropNone DEF Marked
      <3>5. Abstract!SlideTo(0, Marked(txWindow) \cup {distance})
        <4> DEFINE A == Marked(txWindow) \cup {distance}
        <4>1. /\ Drop(A, 0) = A
              /\ gap = FirstGap(A) /\ 0 + gap = gap
          BY <3>2, <3>4
        <4>2. /\ txWindow'.winStart = Plus(txWindow.winStart, 0 + FirstGap(Drop(A, 0)))
              /\ Marked(txWindow') = Drop(Drop(A, 0), FirstGap(Drop(A, 0)))
          BY <3>2, <3>3, <4>1
        <4> QED
          BY <4>2, SlideToMeans
      <3>6. Abstract!Ack(seq)
        BY <3>1, <3>5 DEF Abstract!Ack, Abstract!Distance, Distance, Abstract!Offsets, Offsets
      <3> QED
        BY <3>3, <3>6 DEF Inv, TypeOK, StartsUnacked, Abstract!Next, Abstract!SeqNos, SeqNos
    <2> QED
      BY <2>1, <2>2
  <1>6. CASE NotifyDiscardedMpdu(seq)
    <2>1. CASE IsOld(seq, txWindow.winStart)
      <3>1. txWindow' = txWindow
        BY <1>6, <2>1 DEF NotifyDiscardedMpdu, AfterDiscarded
      <3> QED
        BY <3>1 DEF Inv, TypeOK, StartsUnacked, At, Cell, Marked
    <2>2. CASE ~IsOld(seq, txWindow.winStart)
      <3> DEFINE n == distance + 1
      <3>1. n \in Nat /\ n + WinSize <= SeqSpace
        BY <1>2, <2>2, WinSizeAssumption, HalfSpace DEF IsOld
      <3>2. txWindow' = AdvanceTxWindow(Advance(txWindow, n))
        BY <1>6, <2>2 DEF NotifyDiscardedMpdu, AfterDiscarded
      <3> HIDE DEF n
      <3>3. /\ txWindow' \in Windows
            /\ txWindow'.winStart = Plus(txWindow.winStart,
                                         n + FirstGap(Drop(Marked(txWindow), n)))
            /\ Marked(txWindow') = Drop(Drop(Marked(txWindow), n),
                                        FirstGap(Drop(Marked(txWindow), n)))
            /\ ~At(txWindow', 0)
        BY <1>1, <3>1, <3>2, AdvanceThenSettle
      <3>4. Abstract!SlideTo(n, Marked(txWindow))
        BY <3>3, SlideToMeans
      <3>5. Abstract!Discard(seq)
        BY <2>2, <3>4 DEF Abstract!Discard, n, Abstract!IsOld, IsOld,
                          Abstract!Distance, Distance, Abstract!SeqHalf, SeqHalf
      <3> QED
        BY <3>3, <3>5 DEF Inv, TypeOK, StartsUnacked, Abstract!Next, Abstract!SeqNos, SeqNos
    <2> QED
      BY <2>1, <2>2
  <1> QED
    BY <1>3, <1>4, <1>5, <1>6

LEMMA InvInductive == /\ Init => Inv
                      /\ Inv /\ [Next]_txWindow => Inv'
  <1>1. Init => Inv
    BY InitWindowInv DEF Init, Inv, TypeOK, StartsUnacked
  <1>2. ASSUME Inv, Next PROVE Inv'
    BY <1>2, StepRefines DEF Next
  <1>3. Inv /\ UNCHANGED txWindow => Inv'
    BY DEF Inv, TypeOK, StartsUnacked, At, Cell
  <1> QED
    BY <1>1, <1>2, <1>3

\* For every ring size and sequence space the transmit window stays a ring of
\* flags over the window OriginatorBlockAckAgreement was given.
THEOREM TypeCorrect == Spec => []TypeOK
  <1>1. Inv => TypeOK
    BY DEF Inv
  <1> QED
    BY <1>1, InvInductive, PTL DEF Spec

\* No notification leaves the window starting at an acknowledged MPDU, so
\* GetStartingSequence is always an MPDU the recipient may still need.
THEOREM NeverStartsAcked == Spec => []StartsUnacked
  <1>1. Inv => StartsUnacked
    BY DEF Inv
  <1> QED
    BY <1>1, InvInductive, PTL DEF Spec

\* The ring of BlockAckWindow under OriginatorBlockAckAgreement implements the
\* sliding window over offsets, whatever its size and however often it wraps.
THEOREM RingImplementsTxWindow == Spec => ImplementsTxWindow
  <1>1. Init => Abstract!Init
    BY InitWindowEmpty DEF Init, InitWindow, Abstract!Init, Abstract!SeqNos, SeqNos
  <1>2. Inv /\ [Next]_txWindow => [Abstract!Next]_(Abstract!vars)
    <2>1. ASSUME Inv, Next PROVE [Abstract!Next]_(Abstract!vars)
      BY <2>1, StepRefines DEF Next, Abstract!vars
    <2>2. UNCHANGED txWindow => UNCHANGED Abstract!vars
      BY DEF Abstract!vars, Marked, At, Cell
    <2> QED
      BY <2>1, <2>2
  <1> QED
    BY <1>1, <1>2, InvInductive, PTL DEF Spec, ImplementsTxWindow, Abstract!Spec

(***************************************************************************)
(* The recipient                                                           *)
(***************************************************************************)
\* How far the buffer's window is ahead of the scoreboard's.
Lead == Distance(winStartB, scoreboard.winStart)

TypeInv ==
    /\ scoreboard \in Windows /\ winStartB \in SeqNos /\ bufferedMpdus \subseteq Mpdu
    /\ status \in {"active", "aborted", "destroyed"}

\* The scoreboard's window has not passed by what is buffered, nor fallen short
\* of it.
BufferReached == \A m \in bufferedMpdus : Lead + Ahead(m, winStartB) < WinSize

\* AckedIsHeld, in distances.
MarkedIsHeld ==
    \A d \in Marked(scoreboard) :
        d < Lead \/ \E m \in bufferedMpdus : Lead + Ahead(m, winStartB) = d

Held == BufferReached /\ MarkedIsHeld

IInv == TypeInv /\ BufferWithinWindow /\ WindowsTogether /\ (status = "active" => Held)

-----------------------------------------------------------------------------
\* Distances add up, unless they go round.
LEMMA DistanceAdds ==
  ASSUME NEW x \in SeqNos, NEW y \in SeqNos, NEW z \in SeqNos
  PROVE  /\ Distance(x, y) + Distance(y, z) < SeqSpace =>
              Distance(x, z) = Distance(x, y) + Distance(y, z)
         /\ Distance(y, z) <= Distance(x, z) =>
              Distance(x, y) = Distance(x, z) - Distance(y, z)
  <1>1. /\ Distance(x, y) = IF x >= y THEN x - y ELSE x - y + SeqSpace
        /\ Distance(y, z) = IF y >= z THEN y - z ELSE y - z + SeqSpace
        /\ Distance(x, z) = IF x >= z THEN x - z ELSE x - z + SeqSpace
    BY DistanceValue
  <1>2. \A s \in {x, y, z} : s \in Int /\ 0 <= s /\ s < SeqSpace
    BY HalfSpace DEF SeqNos
  <1> QED
    BY <1>1, <1>2, HalfSpace

LEMMA PlusDistance ==
  ASSUME NEW s \in SeqNos, NEW n \in 0 .. SeqSpace - 1
  PROVE  Plus(s, n) \in SeqNos /\ Distance(Plus(s, n), s) = n
  <1>1. n \in 0 .. SeqSpace /\ n \in Nat
    BY HalfSpace
  <1> DEFINE p == Plus(s, n)
  <1>2. p \in SeqNos /\ p = IF s + n < SeqSpace THEN s + n ELSE s + n - SeqSpace
    BY <1>1, PlusType, PlusValue
  <1> HIDE DEF p
  <1>3. Distance(p, s) = n
    <2>1. Distance(p, s) = IF p >= s THEN p - s ELSE p - s + SeqSpace
      BY <1>2, DistanceValue
    <2> QED
      BY <1>1, <1>2, <2>1, HalfSpace DEF SeqNos
  <1> QED
    BY <1>2, <1>3 DEF p

LEMMA DistanceSelf == ASSUME NEW s \in SeqNos PROVE Distance(s, s) = 0
  <1>1. Distance(s, s) = IF s >= s THEN s - s ELSE s - s + SeqSpace
    BY DistanceValue
  <1>2. s \in Int
    BY DEF SeqNos
  <1> QED
    BY <1>1, <1>2

LEMMA DistanceSame ==
  ASSUME NEW s \in SeqNos, NEW x \in SeqNos, NEW y \in SeqNos, Distance(x, s) = Distance(y, s)
  PROVE  x = y
  <1>1. Distance(x, s) = IF x >= s THEN x - s ELSE x - s + SeqSpace
    BY DistanceValue
  <1>2. Distance(x, s) = IF y >= s THEN y - s ELSE y - s + SeqSpace
    BY DistanceValue
  <1>3. /\ x \in Int /\ y \in Int /\ s \in Int /\ SeqSpace \in Int
        /\ 0 <= x /\ x < SeqSpace /\ 0 <= y /\ y < SeqSpace
    BY HalfSpace DEF SeqNos
  <1>4. (IF x >= s THEN x - s ELSE x - s + SeqSpace) = (IF y >= s THEN y - s ELSE y - s + SeqSpace)
    BY <1>1, <1>2
  <1> QED
    BY <1>3, <1>4

LEMMA AheadType ==
  ASSUME RecipientAssumption, NEW m \in Mpdu, NEW s \in SeqNos
  PROVE  SeqNumber[m] \in SeqNos /\ Ahead(m, s) = Distance(SeqNumber[m], s) /\ Ahead(m, s) \in 0 .. SeqSpace - 1
  BY DistanceValue DEF RecipientAssumption, Ahead, SeqNos

LEMMA LeadType == TypeInv => Lead \in 0 .. SeqSpace - 1
  BY DistanceValue DEF TypeInv, Lead, Windows, SeqNos

\* The start computed in a uint16_t, if it is a sequence number at all, is the
\* one of a window that ends at the MPDU.
LEMMA NewStartValue ==
  ASSUME RecipientAssumption, NEW seq \in SeqNos, NEW start \in SeqNos,
         (seq - WinSize + 1) % U16 \in SeqNos, Distance(seq, start) \in WinSize .. SeqHalf - 1
  PROVE  Distance((seq - WinSize + 1) % U16, start) = Distance(seq, start) - WinSize + 1
  <1> DEFINE x == seq - WinSize + 1
             new == x % U16
  <1>1. /\ x \in Int /\ -U16 <= x /\ x < U16 /\ U16 \in Nat \ {0} /\ SeqSpace <= U16
        /\ x < SeqSpace /\ x > -WinSize
    BY WinSizeAssumption, HalfSpace DEF RecipientAssumption, SeqNos
  <1> HIDE DEF x
  <1>2. (x >= 0 => x % U16 = x) /\ (x < 0 => x % U16 = x + U16)
    BY <1>1, SMTT(30)
  <1>3. x < 0 => U16 = SeqSpace
    <2>1. SUFFICES ASSUME x < 0 PROVE U16 = SeqSpace
      OBVIOUS
    <2>2. x + U16 \in 0 .. SeqSpace - 1
      BY <1>2, <2>1 DEF SeqNos, x
    <2>3. U16 < 2 * SeqSpace
      BY <1>1, <2>2, WinSizeAssumption, HalfSpace
    <2>4. U16 % SeqSpace = U16 - SeqSpace
      <3>1. U16 \in Nat /\ SeqSpace \in Nat \ {0} /\ SeqSpace <= U16 /\ U16 < 2 * SeqSpace
        BY <1>1, <2>3, HalfSpace
      <3> QED
        BY <3>1, SMTT(30)
    <2> QED
      BY <1>1, <2>4, HalfSpace DEF RecipientAssumption
  <1>4. new = IF x >= 0 THEN x ELSE x + SeqSpace
    BY <1>1, <1>2, <1>3
  <1>5. new \in SeqNos
    BY DEF x
  <1> HIDE DEF new
  <1>6. Distance(new, start) = Distance(seq, start) - WinSize + 1
    <2>1. new = IF seq - WinSize + 1 >= 0 THEN seq - WinSize + 1 ELSE seq - WinSize + 1 + SeqSpace
      BY <1>4 DEF x
    <2>2. Distance(seq, start) = IF seq >= start THEN seq - start ELSE seq - start + SeqSpace
      BY DistanceValue
    <2>3. Distance(new, start) = IF new >= start THEN new - start ELSE new - start + SeqSpace
      BY <1>5, DistanceValue
    <2> QED
      BY <1>5, <2>1, <2>2, <2>3, WinSizeAssumption, HalfSpace DEF SeqNos
  <1> QED
    BY <1>6 DEF new, x

-----------------------------------------------------------------------------
\* What Release leaves buffered, as seen from the old start of the window, and
\* how far it takes the window past newStart: over MPDUs that were buffered.
LEMMA ReleaseWindow ==
  ASSUME RecipientAssumption, winStartB \in SeqNos, NEW buffer \in SUBSET Mpdu,
         NEW newStart \in SeqNos, NEW k \in 0 .. SeqHalf - 1, k = Distance(newStart, winStartB),
         \A m \in buffer : Ahead(m, winStartB) < k + WinSize,
         Release(buffer, newStart)
  PROVE  /\ bufferedMpdus' \subseteq buffer
         /\ \E run \in 0 .. WinSize :
               /\ winStartB' \in SeqNos /\ winStartB' = Plus(newStart, run)
               /\ Distance(winStartB', winStartB) = k + run
               /\ \A m \in buffer : Ahead(m, winStartB) # k + run
               /\ \A m \in buffer : m \in bufferedMpdus' <=> Ahead(m, winStartB) > k + run
               /\ \A m \in bufferedMpdus' : Ahead(m, winStartB') = Ahead(m, winStartB) - (k + run)
               /\ run > 0 => \E m \in buffer : Ahead(m, winStartB) = k + run - 1
  <1> DEFINE early == {m \in buffer : Ahead(m, winStartB) < k}
             rest  == buffer \ early
             A     == {Ahead(m, newStart) : m \in rest} \cap Offsets
             run   == FirstGap(A)
             next  == {m \in rest : Ahead(m, newStart) < run}
  <1>1. bufferedMpdus' = rest \ next /\ winStartB' = Plus(newStart, run)
    BY DEF Release
  <1>2. /\ k + WinSize < SeqSpace /\ WinSize \in Nat \ {0} /\ k \in Nat /\ SeqSpace \in Nat
        /\ SeqSpace = 2 * SeqHalf
    BY HalfSpace, WinSizeAssumption
  <1>3. ASSUME NEW m \in buffer
        PROVE  Ahead(m, winStartB) \in 0 .. SeqSpace - 1 /\ Ahead(m, winStartB) < k + WinSize
    BY AheadType
  <1>4. ASSUME NEW m \in rest
        PROVE  Ahead(m, newStart) = Ahead(m, winStartB) - k /\ Ahead(m, newStart) \in Offsets
    <2>1. /\ m \in buffer /\ SeqNumber[m] \in SeqNos /\ Ahead(m, winStartB) >= k
          /\ Ahead(m, winStartB) = Distance(SeqNumber[m], winStartB)
          /\ Ahead(m, newStart) = Distance(SeqNumber[m], newStart)
      <3>1. m \in buffer /\ ~(Ahead(m, winStartB) < k) /\ m \in Mpdu
        OBVIOUS
      <3> QED
        BY <3>1, <1>2, <1>3, AheadType
    <2>2. Ahead(m, newStart) = Ahead(m, winStartB) - k
      BY <2>1, DistanceAdds
    <2> QED
      BY <2>1, <2>2, <1>2, <1>3 DEF Offsets
  <1>5. A \in SUBSET Offsets
    OBVIOUS
  <1> HIDE DEF A
  <1>6. run \in 0 .. WinSize /\ run \notin A /\ \A i \in Offsets : i < run => i \in A
    BY <1>5, FirstGapExists
  <1> HIDE DEF run
  <1>7. /\ winStartB' \in SeqNos /\ Distance(winStartB', winStartB) = k + run
    <2>1. run \in 0 .. SeqSpace - 1
      BY <1>2, <1>6
    <2>2. winStartB' \in SeqNos /\ Distance(winStartB', newStart) = run
      BY <1>1, <2>1, PlusDistance
    <2>3. Distance(winStartB', newStart) + Distance(newStart, winStartB) < SeqSpace
      BY <1>2, <1>6, <2>2, HalfSpace
    <2> QED
      BY <2>2, <2>3, <1>2, <1>6, DistanceAdds
  <1>8. ASSUME NEW m \in buffer
        PROVE  /\ m \in bufferedMpdus' <=> Ahead(m, winStartB) > k + run
               /\ Ahead(m, winStartB) # k + run
    <2>1. CASE m \in early
      BY <2>1, <1>1, <1>2, <1>3, <1>6
    <2>2. CASE m \in rest
      <3>1. Ahead(m, newStart) = Ahead(m, winStartB) - k /\ Ahead(m, newStart) \in A
        BY <2>2, <1>4 DEF A
      <3>2. Ahead(m, newStart) # run
        BY <3>1, <1>6
      <3>3. m \in bufferedMpdus' <=> ~(Ahead(m, newStart) < run)
        BY <2>2, <1>1
      <3> QED
        BY <3>1, <3>2, <3>3, <1>2, <1>3, <1>6
    <2> QED
      BY <2>1, <2>2
  <1>9. ASSUME NEW m \in bufferedMpdus'
        PROVE  Ahead(m, winStartB') = Ahead(m, winStartB) - (k + run)
    <2>1. m \in buffer /\ m \in Mpdu
      BY <1>1
    <2>2. Ahead(m, winStartB) > k + run
      BY <2>1, <1>8
    <2>3. /\ SeqNumber[m] \in SeqNos /\ Ahead(m, winStartB) = Distance(SeqNumber[m], winStartB)
          /\ Ahead(m, winStartB') = Distance(SeqNumber[m], winStartB')
      BY <2>1, <1>7, AheadType
    <2>4. Distance(winStartB', winStartB) <= Distance(SeqNumber[m], winStartB)
      BY <2>2, <2>3, <1>2, <1>3, <1>6, <1>7, <2>1
    <2> QED
      BY <2>3, <2>4, <1>7, DistanceAdds
  <1>10. run > 0 => \E m \in buffer : Ahead(m, winStartB) = k + run - 1
    <2> SUFFICES ASSUME run > 0 PROVE \E m \in buffer : Ahead(m, winStartB) = k + run - 1
      OBVIOUS
    <2>1. run - 1 \in A
      BY <1>2, <1>6 DEF Offsets
    <2>2. PICK m \in rest : Ahead(m, newStart) = run - 1
      BY <2>1 DEF A
    <2>3. m \in buffer /\ Ahead(m, winStartB) - k = run - 1
      BY <2>2, <1>4
    <2> QED
      BY <2>3, <1>2, <1>3, <1>6
  <1> QED
    BY <1>1, <1>6, <1>7, <1>8, <1>9, <1>10

LEMMA ReleaseType ==
  ASSUME NEW buffer \in SUBSET Mpdu, NEW newStart \in SeqNos, Release(buffer, newStart)
  PROVE  bufferedMpdus' \subseteq Mpdu /\ winStartB' \in SeqNos
  <1> DEFINE early == {m \in buffer : Ahead(m, winStartB) < Distance(newStart, winStartB)}
             rest  == buffer \ early
             A     == {Ahead(m, newStart) : m \in rest} \cap Offsets
  <1>1. winStartB' = Plus(newStart, FirstGap(A)) /\ bufferedMpdus' \subseteq buffer
    BY DEF Release
  <1>2. A \in SUBSET Offsets
    OBVIOUS
  <1> HIDE DEF A
  <1>3. FirstGap(A) \in 0 .. WinSize
    BY <1>2, FirstGapExists
  <1>4. FirstGap(A) \in Nat
    BY <1>3, WinSizeAssumption
  <1> QED
    BY <1>1, <1>4, PlusType

-----------------------------------------------------------------------------
\* A step that moves the scoreboard by adv, the buffer's start first by k, then
\* over what is buffered: what remains lies in both windows.
LEMMA SettleStep ==
  ASSUME RecipientAssumption, IInv, status = "active", status' = status,
         NEW buffer \in SUBSET Mpdu, NEW newStart \in SeqNos, Release(buffer, newStart),
         NEW k \in 0 .. SeqHalf - 1, k = Distance(newStart, winStartB),
         NEW adv \in Nat, adv <= Lead + k, Lead + k <= adv + WinSize,
         scoreboard' \in Windows, adv = Distance(scoreboard'.winStart, scoreboard.winStart),
         \A m, n \in buffer : SeqNumber[m] = SeqNumber[n] => m = n,
         \A m \in buffer : Lead + Ahead(m, winStartB) < adv + WinSize,
         \A d \in Marked(scoreboard') :
             d + adv < Lead + k \/ \E m \in buffer : Lead + Ahead(m, winStartB) = d + adv
  PROVE  IInv'
  <1>1. /\ winStartB \in SeqNos /\ scoreboard.winStart \in SeqNos /\ scoreboard'.winStart \in SeqNos
        /\ Lead \in 0 .. SeqSpace - 1 /\ Lead <= WinSize
    BY LeadType DEF IInv, TypeInv, Windows, WindowsTogether, Lead
  <1>2. /\ 2 * WinSize <= SeqHalf /\ SeqSpace = 2 * SeqHalf /\ SeqHalf \in Nat /\ WinSize \in Nat \ {0}
        /\ SeqSpace \in Nat
    BY HalfSpace, WinSizeAssumption
  <1>3. ASSUME NEW m \in buffer
        PROVE  Ahead(m, winStartB) \in 0 .. SeqSpace - 1 /\ Ahead(m, winStartB) < k + WinSize
    <2>1. Ahead(m, winStartB) \in 0 .. SeqSpace - 1
      BY <1>1, AheadType
    <2> QED
      BY <1>1, <1>2, <2>1
  <1>4. /\ bufferedMpdus' \subseteq buffer
        /\ \E run \in 0 .. WinSize :
               /\ winStartB' \in SeqNos /\ winStartB' = Plus(newStart, run)
               /\ Distance(winStartB', winStartB) = k + run
               /\ \A m \in buffer : Ahead(m, winStartB) # k + run
               /\ \A m \in buffer : m \in bufferedMpdus' <=> Ahead(m, winStartB) > k + run
               /\ \A m \in bufferedMpdus' : Ahead(m, winStartB') = Ahead(m, winStartB) - (k + run)
               /\ run > 0 => \E m \in buffer : Ahead(m, winStartB) = k + run - 1
    BY <1>1, <1>3, ReleaseWindow
  <1>5. PICK run \in 0 .. WinSize :
               /\ winStartB' \in SeqNos
               /\ Distance(winStartB', winStartB) = k + run
               /\ \A m \in buffer : Ahead(m, winStartB) # k + run
               /\ \A m \in buffer : m \in bufferedMpdus' <=> Ahead(m, winStartB) > k + run
               /\ \A m \in bufferedMpdus' : Ahead(m, winStartB') = Ahead(m, winStartB) - (k + run)
               /\ run > 0 => \E m \in buffer : Ahead(m, winStartB) = k + run - 1
    BY <1>4
  <1>6. Lead' = Lead + k + run - adv
    <2>1. Distance(winStartB', scoreboard.winStart) = (k + run) + Lead
      <3>1. Distance(winStartB', winStartB) + Distance(winStartB, scoreboard.winStart) < SeqSpace
        BY <1>1, <1>2, <1>5 DEF Lead
      <3> QED
        BY <1>1, <1>5, <3>1, DistanceAdds DEF Lead
    <2>2. Distance(scoreboard'.winStart, scoreboard.winStart) <= Distance(winStartB', scoreboard.winStart)
      BY <1>1, <1>2, <1>5, <2>1
    <2>3. Distance(winStartB', scoreboard'.winStart) = (k + run) + Lead - adv
      BY <1>1, <1>5, <2>1, <2>2, DistanceAdds
    <2> QED
      BY <1>1, <1>2, <2>3 DEF Lead
  <1>7. TypeInv'
    BY <1>4, <1>5 DEF IInv, TypeInv
  <1>8. BufferWithinWindow'
    <2>1. ASSUME NEW m \in bufferedMpdus' PROVE Ahead(m, winStartB') \in 1 .. WinSize - 1
      BY <1>2, <1>3, <1>4, <1>5
    <2> QED
      BY <1>4, <2>1 DEF BufferWithinWindow, Ahead
  <1>9. Lead' <= WinSize
    <2>1. CASE run = 0
      BY <1>1, <1>2, <1>6, <2>1
    <2>2. CASE run > 0
      <3>1. PICK m \in buffer : Ahead(m, winStartB) = k + run - 1
        BY <1>5, <2>2
      <3>2. Lead + (k + run - 1) < adv + WinSize
        BY <3>1
      <3> QED
        BY <1>1, <1>2, <1>6, <3>2
    <2> QED
      BY <2>1, <2>2
  <1>10. WindowsTogether'
    BY <1>9 DEF WindowsTogether, Lead
  <1>11. BufferReached'
    <2>1. ASSUME NEW m \in bufferedMpdus' PROVE Lead' + Ahead(m, winStartB') < WinSize
      <3>1. /\ m \in buffer /\ Lead + Ahead(m, winStartB) < adv + WinSize
            /\ Ahead(m, winStartB') = Ahead(m, winStartB) - (k + run)
        BY <1>4, <1>5
      <3> QED
        BY <1>1, <1>2, <1>3, <1>6, <3>1
    <2> QED
      BY <2>1 DEF BufferReached, Ahead
  <1>12. MarkedIsHeld'
    <2>1. ASSUME NEW d \in Marked(scoreboard')
          PROVE  d < Lead' \/ \E m \in bufferedMpdus' : Lead' + Ahead(m, winStartB') = d
      <3>1. d \in Int
        BY WinSizeAssumption DEF Marked, Offsets
      <3>2. CASE d + adv < Lead + k
        BY <1>1, <1>2, <1>6, <3>1, <3>2
      <3>3. ASSUME NEW m \in buffer, Lead + Ahead(m, winStartB) = d + adv
            PROVE  d < Lead' \/ \E n \in bufferedMpdus' : Lead' + Ahead(n, winStartB') = d
        <4>1. CASE m \in bufferedMpdus'
          <5>1. Lead' + Ahead(m, winStartB') = d
            BY <1>1, <1>2, <1>3, <1>5, <1>6, <3>1, <3>3, <4>1
          <5> QED
            BY <4>1, <5>1
        <4>2. CASE m \notin bufferedMpdus'
          <5>1. Ahead(m, winStartB) < k + run
            BY <1>2, <1>3, <1>5, <4>2
          <5> QED
            BY <1>1, <1>2, <1>3, <1>6, <3>1, <3>3, <5>1
        <4> QED
          BY <4>1, <4>2
      <3> QED
        BY <3>2, <3>3
    <2> QED
      BY <2>1 DEF MarkedIsHeld, Ahead, Marked, At, Cell
  <1> QED
    BY <1>7, <1>8, <1>10, <1>11, <1>12 DEF IInv, Held

\* A step that moves only the scoreboard, and not past the buffer's start.
LEMMA KeepStep ==
  ASSUME RecipientAssumption, IInv, status = "active", status' = status, Keep,
         NEW adv \in Nat, adv <= Lead, scoreboard' \in Windows,
         adv = Distance(scoreboard'.winStart, scoreboard.winStart),
         \A d \in Marked(scoreboard') : d + adv < Lead \/ d + adv \in Marked(scoreboard)
  PROVE  IInv'
  <1>1. /\ winStartB \in SeqNos /\ scoreboard.winStart \in SeqNos /\ scoreboard'.winStart \in SeqNos
        /\ Lead \in 0 .. SeqSpace - 1 /\ Lead <= WinSize /\ WinSize \in Nat \ {0} /\ SeqSpace \in Nat
    BY LeadType, WinSizeAssumption, HalfSpace DEF IInv, TypeInv, Windows, WindowsTogether, Lead
  <1>2. winStartB' = winStartB /\ bufferedMpdus' = bufferedMpdus
    BY DEF Keep
  <1>3. Lead' = Lead - adv
    <2>1. Distance(winStartB, scoreboard'.winStart) = Lead - adv
      BY <1>1, DistanceAdds DEF Lead
    <2> QED
      BY <1>2, <2>1 DEF Lead
  <1>4. ASSUME NEW m \in bufferedMpdus
        PROVE  /\ Ahead(m, winStartB) \in 0 .. SeqSpace - 1 /\ Lead + Ahead(m, winStartB) < WinSize
               /\ Ahead(m, winStartB') = Ahead(m, winStartB)
    BY <1>1, <1>2, AheadType DEF IInv, TypeInv, Held, BufferReached
  <1>5. TypeInv' /\ BufferWithinWindow'
    BY <1>1, <1>2 DEF IInv, TypeInv, BufferWithinWindow, Ahead
  <1>6. WindowsTogether'
    <2>1. Lead' <= WinSize
      BY <1>1, <1>3
    <2> QED
      BY <2>1 DEF WindowsTogether, Lead
  <1>7. BufferReached'
    <2>1. ASSUME NEW m \in bufferedMpdus' PROVE Lead' + Ahead(m, winStartB') < WinSize
      BY <1>1, <1>2, <1>3, <1>4
    <2> QED
      BY <2>1 DEF BufferReached, Ahead
  <1>8. MarkedIsHeld'
    <2>1. ASSUME NEW d \in Marked(scoreboard')
          PROVE  d < Lead' \/ \E m \in bufferedMpdus' : Lead' + Ahead(m, winStartB') = d
      <3>1. d \in Int
        BY WinSizeAssumption DEF Marked, Offsets
      <3>2. d + adv < Lead \/ \E m \in bufferedMpdus : Lead + Ahead(m, winStartB) = d + adv
        BY DEF IInv, Held, MarkedIsHeld
      <3>3. ASSUME NEW m \in bufferedMpdus, Lead + Ahead(m, winStartB) = d + adv
            PROVE  Lead' + Ahead(m, winStartB') = d
        BY <1>1, <1>3, <1>4, <3>1, <3>3
      <3> QED
        BY <1>1, <1>2, <1>3, <3>1, <3>2, <3>3
    <2> QED
      BY <2>1 DEF MarkedIsHeld, Ahead, Marked, At, Cell
  <1> QED
    BY <1>5, <1>6, <1>7, <1>8 DEF IInv, Held

-----------------------------------------------------------------------------
\* The scoreboard after an MPDU that is not old to it: moved, if at all, so
\* that its window ends at the MPDU, and with a mark for it.
LEMMA ScoreboardMpdu ==
  ASSUME scoreboard \in Windows, NEW seq \in SeqNos, scoreboard' = ScoreboardAfterMpdu(seq),
         NEW e, e = Distance(seq, scoreboard.winStart), e < SeqHalf,
         NEW adv, adv = IF e < WinSize THEN 0 ELSE e - WinSize + 1
  PROVE  /\ scoreboard' \in Windows /\ Distance(scoreboard'.winStart, scoreboard.winStart) = adv
         /\ \A d \in Marked(scoreboard') : d + adv = e \/ d + adv \in Marked(scoreboard)
  <1>1. /\ scoreboard.winStart \in SeqNos /\ e \in 0 .. SeqSpace - 1
        /\ WinSize \in Nat \ {0} /\ SeqSpace \in Nat /\ SeqHalf \in Nat /\ SeqSpace = 2 * SeqHalf
    BY DistanceValue, WinSizeAssumption, HalfSpace DEF Windows, SeqNos
  <1>2. CASE e < WinSize
    <2>1. e \in Offsets /\ scoreboard' = Mark(scoreboard, e)
      BY <1>1, <1>2 DEF Offsets, ScoreboardAfterMpdu
    <2>2. /\ scoreboard' \in Windows /\ scoreboard'.winStart = scoreboard.winStart
          /\ Marked(scoreboard') = Marked(scoreboard) \cup {e}
      BY <2>1, MarkWindow
    <2>3. Distance(scoreboard.winStart, scoreboard.winStart) = 0
      BY <1>1, DistanceSelf
    <2>4. \A d \in Marked(scoreboard') : d + 0 = d
      BY <2>2, <1>1 DEF Marked, Offsets
    <2> QED
      BY <1>2, <2>2, <2>3, <2>4
  <1>3. CASE ~(e < WinSize)
    <2> DEFINE a == Advance(scoreboard, adv)
    <2>1. adv = e - WinSize + 1 /\ adv \in Nat /\ adv \in 0 .. SeqSpace - 1 /\ WinSize - 1 \in Offsets
      BY <1>1, <1>3 DEF Offsets
    <2>2. scoreboard' = Mark(a, WinSize - 1)
      BY <1>1, <1>3, <2>1 DEF ScoreboardAfterMpdu
    <2>3. /\ a \in Windows /\ a.winStart = Plus(scoreboard.winStart, adv)
          /\ Marked(a) = Drop(Marked(scoreboard), adv)
      BY <2>1, AdvanceWindow
    <2> HIDE DEF a
    <2>4. /\ scoreboard' \in Windows /\ scoreboard'.winStart = a.winStart
          /\ Marked(scoreboard') = Marked(a) \cup {WinSize - 1}
      BY <2>1, <2>2, <2>3, MarkWindow
    <2>5. Distance(scoreboard'.winStart, scoreboard.winStart) = adv
      BY <1>1, <2>1, <2>3, <2>4, PlusDistance
    <2>6. ASSUME NEW d \in Marked(scoreboard')
          PROVE  d + adv = e \/ d + adv \in Marked(scoreboard)
      <3>1. CASE d = WinSize - 1
        BY <1>1, <2>1, <3>1
      <3>2. CASE d \in Drop(Marked(scoreboard), adv)
        BY <3>2 DEF Drop
      <3> QED
        BY <2>3, <2>4, <3>1, <3>2
    <2> QED
      BY <2>4, <2>5, <2>6
  <1> QED
    BY <1>2, <1>3

\* The scoreboard after a BlockAckReq for a start ahead of its own.
LEMMA ScoreboardBar ==
  ASSUME scoreboard \in Windows, NEW ssn \in SeqNos, scoreboard' = ScoreboardAfterBar(ssn),
         NEW e, e = Distance(ssn, scoreboard.winStart), e \in 1 .. SeqHalf - 1
  PROVE  /\ scoreboard' \in Windows /\ scoreboard'.winStart = ssn
         /\ \A d \in Marked(scoreboard') : d + e \in Marked(scoreboard)
  <1>1. /\ scoreboard.winStart \in SeqNos /\ e \in 0 .. SeqSpace - 1 /\ e \in Nat
        /\ WinSize \in Nat \ {0} /\ SeqHalf \in Nat
    BY DistanceValue, WinSizeAssumption, HalfSpace DEF Windows, SeqNos
  <1>2. CASE e < WinSize
    <2>1. scoreboard' = Advance(scoreboard, e)
      BY <1>1, <1>2 DEF ScoreboardAfterBar
    <2>2. /\ scoreboard' \in Windows /\ scoreboard'.winStart = Plus(scoreboard.winStart, e)
          /\ Marked(scoreboard') = Drop(Marked(scoreboard), e)
      BY <1>1, <2>1, AdvanceWindow
    <2>3. Plus(scoreboard.winStart, e) = ssn
      <3>1. /\ Plus(scoreboard.winStart, e) \in SeqNos
            /\ Distance(Plus(scoreboard.winStart, e), scoreboard.winStart) = Distance(ssn, scoreboard.winStart)
        BY <1>1, PlusDistance
      <3> QED
        BY <1>1, <3>1, DistanceSame
    <2> QED
      BY <2>2, <2>3 DEF Drop
  <1>3. CASE ~(e < WinSize)
    <2>1. scoreboard' = InitWindow(ssn)
      BY <1>1, <1>3 DEF ScoreboardAfterBar
    <2> QED
      BY <2>1, InitWindowEmpty DEF InitWindow
  <1> QED
    BY <1>2, <1>3

\* Insert adds an MPDU unless one with its sequence number is there.
LEMMA InsertProperties ==
  ASSUME RecipientAssumption, IInv, status = "active", NEW m \in Mpdu
  PROVE  /\ Insert(m) \in SUBSET Mpdu
         /\ \A b \in Insert(m) : b \in bufferedMpdus \/ b = m
         /\ \A b \in bufferedMpdus : b \in Insert(m)
         /\ \E b \in Insert(m) : SeqNumber[b] = SeqNumber[m]
         /\ \A b, c \in Insert(m) : SeqNumber[b] = SeqNumber[c] => b = c
  <1>1. /\ bufferedMpdus \subseteq Mpdu
        /\ \A b, c \in bufferedMpdus : SeqNumber[b] = SeqNumber[c] => b = c
    BY DEF IInv, TypeInv, BufferWithinWindow
  <1>2. CASE \E b \in bufferedMpdus : SeqNumber[b] = SeqNumber[m]
    BY <1>1, <1>2 DEF Insert
  <1>3. CASE ~ \E b \in bufferedMpdus : SeqNumber[b] = SeqNumber[m]
    <2>1. Insert(m) = bufferedMpdus \cup {m}
      BY <1>3 DEF Insert
    <2> QED
      BY <1>1, <1>3, <2>1
  <1> QED
    BY <1>2, <1>3

-----------------------------------------------------------------------------
\* An MPDU in reach that the buffer does not take for an old one.
LEMMA ReceiveNewStep ==
  ASSUME RecipientAssumption, IInv, status = "active", NEW m \in Mpdu, InReach(SeqNumber[m]),
         ReceiveWithinWindow(m) \/ ReceiveBeyondWindow(m)
  PROVE  IInv'
  <1> DEFINE seq == SeqNumber[m]
             a == Ahead(m, winStartB)
             e == Distance(seq, scoreboard.winStart)
             adv == IF e < WinSize THEN 0 ELSE e - WinSize + 1
             k == IF a < WinSize THEN 0 ELSE a - WinSize + 1
  <1>1. /\ scoreboard \in Windows /\ winStartB \in SeqNos /\ scoreboard.winStart \in SeqNos
        /\ Lead \in 0 .. SeqSpace - 1 /\ Lead <= WinSize
    BY LeadType DEF IInv, TypeInv, Windows, WindowsTogether, Lead
  <1>2. /\ 2 * WinSize <= SeqHalf /\ SeqSpace = 2 * SeqHalf /\ SeqHalf \in Nat /\ WinSize \in Nat \ {0}
        /\ SeqSpace \in Nat
    BY HalfSpace, WinSizeAssumption
  <1>3. seq \in SeqNos /\ a = Distance(seq, winStartB) /\ a \in 0 .. SeqSpace - 1
    BY <1>1, AheadType
  <1>4. a < SeqHalf
    BY <1>2, <1>3 DEF ReceiveWithinWindow, ReceiveBeyondWindow
  <1>5. e = Lead + a
    <2>1. Distance(seq, winStartB) + Distance(winStartB, scoreboard.winStart) < SeqSpace
      BY <1>1, <1>2, <1>3, <1>4 DEF Lead
    <2> QED
      BY <1>1, <1>3, <2>1, DistanceAdds DEF Lead
  <1>6. e < SeqHalf
    BY <1>2, <1>3, <1>4 DEF InReach, IsOld
  <1>7. \/ /\ status' = "aborted" /\ Keep /\ UNCHANGED scoreboard
        \/ /\ scoreboard' = ScoreboardAfterMpdu(seq) /\ status' = status
           /\ \E newStart \in SeqNos : Release(Insert(m), newStart) /\ Distance(newStart, winStartB) = k
    <2>1. CASE ReceiveWithinWindow(m)
      <3>1. a < WinSize /\ k = 0
        BY <2>1 DEF ReceiveWithinWindow
      <3>2. Distance(winStartB, winStartB) = 0
        BY <1>1, DistanceSelf
      <3> QED
        BY <2>1, <3>1, <3>2, <1>1 DEF ReceiveWithinWindow
    <2>2. CASE ReceiveBeyondWindow(m)
      <3> DEFINE newStart == (seq - WinSize + 1) % U16
      <3>1. CASE newStart \notin SeqNos
        BY <2>2, <3>1 DEF ReceiveBeyondWindow
      <3>2. CASE newStart \in SeqNos
        <4>1. /\ a \in WinSize .. SeqHalf - 1 /\ Release(Insert(m), newStart)
              /\ scoreboard' = ScoreboardAfterMpdu(seq) /\ status' = status
          BY <2>2, <3>2 DEF ReceiveBeyondWindow
        <4>2. Distance(newStart, winStartB) = a - WinSize + 1
          BY <1>1, <1>3, <3>2, <4>1, NewStartValue
        <4>3. k = a - WinSize + 1
          BY <1>2, <1>3, <4>1
        <4> HIDE DEF newStart, k
        <4> QED
          BY <3>2, <4>1, <4>2, <4>3
      <3> QED
        BY <3>1, <3>2
    <2> QED
      BY <2>1, <2>2
  <1>8. CASE status' = "aborted" /\ Keep /\ UNCHANGED scoreboard
    BY <1>8 DEF IInv, TypeInv, BufferWithinWindow, WindowsTogether, Keep
  <1>9. ASSUME scoreboard' = ScoreboardAfterMpdu(seq), status' = status,
               NEW newStart \in SeqNos, Release(Insert(m), newStart),
               Distance(newStart, winStartB) = k
        PROVE  IInv'
    <2> DEFINE buffer == Insert(m)
    <2>1. /\ adv \in Nat /\ k \in 0 .. SeqHalf - 1 /\ adv <= Lead + k /\ Lead + k <= adv + WinSize
          /\ e < adv + WinSize
      BY <1>1, <1>2, <1>3, <1>4, <1>5
    <2>2. /\ scoreboard' \in Windows /\ Distance(scoreboard'.winStart, scoreboard.winStart) = adv
          /\ \A d \in Marked(scoreboard') : d + adv = e \/ d + adv \in Marked(scoreboard)
      <3> DEFINE dist == e
                 move == adv
      <3>1. dist = Distance(seq, scoreboard.winStart) /\ dist < SeqHalf
        BY <1>6
      <3>2. move = IF dist < WinSize THEN 0 ELSE dist - WinSize + 1
        OBVIOUS
      <3> HIDE DEF dist, move
      <3>3. /\ scoreboard' \in Windows /\ Distance(scoreboard'.winStart, scoreboard.winStart) = move
            /\ \A d \in Marked(scoreboard') : d + move = dist \/ d + move \in Marked(scoreboard)
        BY <1>1, <1>3, <1>9, <3>1, <3>2, ScoreboardMpdu
      <3> QED
        BY <3>3 DEF dist, move
    <2>3. /\ buffer \in SUBSET Mpdu
          /\ \A b \in buffer : b \in bufferedMpdus \/ b = m
          /\ \A b \in bufferedMpdus : b \in buffer
          /\ \E b \in buffer : SeqNumber[b] = SeqNumber[m]
          /\ \A b, c \in buffer : SeqNumber[b] = SeqNumber[c] => b = c
      BY InsertProperties
    <2> HIDE DEF buffer
    <2>4. \A b \in buffer : Lead + Ahead(b, winStartB) < adv + WinSize
      <3>1. ASSUME NEW b \in bufferedMpdus PROVE Lead + Ahead(b, winStartB) < adv + WinSize
        <4>1. b \in Mpdu /\ Lead + Ahead(b, winStartB) < WinSize
          BY DEF IInv, TypeInv, Held, BufferReached
        <4>2. Ahead(b, winStartB) \in 0 .. SeqSpace - 1
          BY <1>1, <4>1, AheadType
        <4> QED
          BY <1>1, <1>2, <2>1, <4>1, <4>2
      <3>2. Lead + Ahead(m, winStartB) < adv + WinSize
        BY <1>5, <2>1
      <3> QED
        BY <2>3, <3>1, <3>2
    <2>5. ASSUME NEW d \in Marked(scoreboard')
          PROVE  d + adv < Lead + k \/ \E b \in buffer : Lead + Ahead(b, winStartB) = d + adv
      <3>1. CASE d + adv = e
        <4>1. PICK b \in buffer : SeqNumber[b] = SeqNumber[m]
          BY <2>3
        <4>2. Lead + Ahead(b, winStartB) = d + adv
          BY <1>5, <3>1, <4>1 DEF Ahead
        <4> QED
          BY <4>2
      <3>2. CASE d + adv \in Marked(scoreboard)
        <4>1. d + adv < Lead \/ \E b \in bufferedMpdus : Lead + Ahead(b, winStartB) = d + adv
          BY <3>2 DEF IInv, Held, MarkedIsHeld
        <4>2. d + adv \in Int
          BY <3>2, WinSizeAssumption DEF Marked, Offsets
        <4>3. d + adv < Lead => d + adv < Lead + k
          BY <1>1, <1>2, <2>1, <4>2
        <4> QED
          BY <2>3, <4>1, <4>3
      <3> QED
        BY <2>2, <3>1, <3>2
    <2>6. Release(buffer, newStart)
      BY <1>9 DEF buffer
    <2> HIDE DEF adv, k
    <2> QED
      BY <1>9, <2>1, <2>2, <2>3, <2>4, <2>5, <2>6, SettleStep
  <1> QED
    BY <1>7, <1>8, <1>9

\* What is old to the buffer is behind it, or outside, to the scoreboard.
LEMMA OldToScoreboard ==
  ASSUME TypeInv, NEW seq \in SeqNos, IsOld(seq, winStartB), Lead <= WinSize,
         Distance(seq, scoreboard.winStart) < SeqHalf
  PROVE  Distance(seq, scoreboard.winStart) < Lead
  <1> DEFINE e == Distance(seq, scoreboard.winStart)
  <1>1. /\ winStartB \in SeqNos /\ scoreboard.winStart \in SeqNos /\ Lead \in 0 .. SeqSpace - 1
        /\ e \in 0 .. SeqSpace - 1
    BY LeadType, DistanceValue DEF TypeInv, Windows, SeqNos
  <1>2. SUFFICES ASSUME ~(e < Lead) PROVE FALSE
    OBVIOUS
  <1>3. Lead <= e /\ SeqSpace \in Nat /\ SeqHalf \in Nat
    BY <1>1, <1>2, HalfSpace
  <1>4. Distance(seq, winStartB) = e - Lead
    BY <1>1, <1>3, DistanceAdds DEF Lead
  <1> QED
    BY <1>1, <1>3, <1>4 DEF IsOld

LEMMA ReceiveOldStep ==
  ASSUME RecipientAssumption, IInv, status = "active", NEW m \in Mpdu, ReceiveOld(m)
  PROVE  IInv'
  <1> DEFINE seq == SeqNumber[m]
             e == Distance(seq, scoreboard.winStart)
  <1>1. /\ scoreboard \in Windows /\ scoreboard.winStart \in SeqNos /\ winStartB \in SeqNos /\ TypeInv
        /\ Lead \in 0 .. SeqSpace - 1 /\ Lead <= WinSize /\ seq \in SeqNos /\ IsOld(seq, winStartB)
        /\ e \in 0 .. SeqSpace - 1
    BY LeadType, AheadType, DistanceValue
       DEF IInv, TypeInv, Windows, WindowsTogether, Lead, ReceiveOld, SeqNos
  <1>2. WinSize \in Nat \ {0} /\ SeqHalf \in Nat /\ 2 * WinSize <= SeqHalf /\ SeqSpace \in Nat
    BY WinSizeAssumption, HalfSpace
  <1>3. e < SeqHalf => e < Lead
    BY <1>1, OldToScoreboard
  <1>4. Distance(scoreboard.winStart, scoreboard.winStart) = 0
    BY <1>1, DistanceSelf
  <1>5. Keep /\ status' = status /\ scoreboard' = ScoreboardAfterMpdu(seq)
    BY DEF ReceiveOld
  <1> HIDE DEF e, seq
  <1>6. /\ scoreboard' \in Windows /\ scoreboard'.winStart = scoreboard.winStart
        /\ \A d \in Marked(scoreboard') : d < Lead \/ d \in Marked(scoreboard)
    <2>1. CASE e < SeqHalf
      <3>1. e < WinSize /\ e \in Offsets /\ e < Lead
        BY <1>1, <1>2, <1>3, <2>1 DEF Offsets
      <3>2. scoreboard' = Mark(scoreboard, e)
        BY <1>1, <1>2, <1>5, <3>1 DEF ScoreboardAfterMpdu, e
      <3> QED
        BY <1>1, <3>1, <3>2, MarkWindow
    <2>2. CASE ~(e < SeqHalf)
      <3>1. ~(e < WinSize) /\ e \notin WinSize .. SeqHalf - 1
        BY <1>1, <1>2, <2>2
      <3>2. scoreboard' = scoreboard
        BY <1>5, <3>1 DEF ScoreboardAfterMpdu, e
      <3> QED
        BY <1>1, <3>2
    <2> QED
      BY <2>1, <2>2
  <1>7. \A d \in Marked(scoreboard') : d + 0 < Lead \/ d + 0 \in Marked(scoreboard)
    <2>1. ASSUME NEW d \in Marked(scoreboard') PROVE d + 0 = d
      BY <1>2 DEF Marked, Offsets
    <2> QED
      BY <1>6, <2>1
  <1> QED
    BY <1>1, <1>4, <1>5, <1>6, <1>7, KeepStep

LEMMA BarStep ==
  ASSUME RecipientAssumption, IInv, NEW ssn \in SeqNos, InReach(ssn), NotifyReceivedBar(ssn)
  PROVE  IInv'
  <1> DEFINE k == Distance(ssn, winStartB)
             e == Distance(ssn, scoreboard.winStart)
  <1>1. /\ scoreboard \in Windows /\ scoreboard.winStart \in SeqNos /\ winStartB \in SeqNos /\ TypeInv
        /\ status = "active" /\ status' = status /\ scoreboard' = ScoreboardAfterBar(ssn)
    BY DEF IInv, TypeInv, Windows, NotifyReceivedBar
  <1>2. /\ Lead \in 0 .. SeqSpace - 1 /\ Lead <= WinSize
        /\ k \in 0 .. SeqSpace - 1 /\ e \in 0 .. SeqSpace - 1
    BY <1>1, LeadType, DistanceValue DEF IInv, WindowsTogether, Lead, SeqNos
  <1>3. /\ WinSize \in Nat \ {0} /\ SeqHalf \in Nat /\ 2 * WinSize <= SeqHalf /\ SeqSpace = 2 * SeqHalf
        /\ SeqSpace \in Nat
    BY WinSizeAssumption, HalfSpace
  <1>4. k < SeqHalf => e = Lead + k
    <2>1. SUFFICES ASSUME k < SeqHalf PROVE e = Lead + k
      OBVIOUS
    <2>2. Distance(ssn, winStartB) + Distance(winStartB, scoreboard.winStart) < SeqSpace
      BY <1>2, <1>3, <2>1 DEF Lead
    <2>3. e = Distance(ssn, winStartB) + Distance(winStartB, scoreboard.winStart)
      BY <1>1, <2>2, DistanceAdds
    <2> HIDE DEF e
    <2> QED
      BY <1>2, <2>3 DEF Lead
  <1>5. e \in 1 .. SeqHalf - 1 =>
            /\ scoreboard' \in Windows /\ scoreboard'.winStart = ssn
            /\ \A d \in Marked(scoreboard') : d + e \in Marked(scoreboard)
    BY <1>1, ScoreboardBar
  <1>6. CASE k \in 1 .. SeqHalf - 1
    <2>1. Release(bufferedMpdus, ssn)
      BY <1>6 DEF NotifyReceivedBar
    <2>2. e < SeqHalf
      BY <1>2, <1>3, <1>6 DEF InReach, IsOld
    <2>3. e = Lead + k /\ e \in 1 .. SeqHalf - 1 /\ e \in Nat /\ k \in 0 .. SeqHalf - 1
      BY <1>2, <1>3, <1>4, <1>6, <2>2
    <2>4. \A m \in bufferedMpdus : Lead + Ahead(m, winStartB) < e + WinSize
      <3>1. ASSUME NEW m \in bufferedMpdus PROVE Lead + Ahead(m, winStartB) < e + WinSize
        <4>1. m \in Mpdu /\ Lead + Ahead(m, winStartB) < WinSize
          BY <1>1 DEF IInv, TypeInv, Held, BufferReached
        <4>2. Ahead(m, winStartB) \in 0 .. SeqSpace - 1
          BY <1>1, <4>1, AheadType
        <4> QED
          BY <1>2, <1>3, <4>1, <4>2
      <3> QED
        BY <3>1
    <2>5. ASSUME NEW d \in Marked(scoreboard')
          PROVE  d + e < Lead + k \/ \E m \in bufferedMpdus : Lead + Ahead(m, winStartB) = d + e
      <3>1. d + e \in Marked(scoreboard)
        BY <1>5, <2>3
      <3>2. d + e < Lead \/ \E m \in bufferedMpdus : Lead + Ahead(m, winStartB) = d + e
        BY <1>1, <3>1 DEF IInv, Held, MarkedIsHeld
      <3>3. d + e \in Int
        BY <3>1, WinSizeAssumption DEF Marked, Offsets
      <3> QED
        BY <1>2, <3>2, <3>3
    <2>6. /\ bufferedMpdus \in SUBSET Mpdu
          /\ \A m, n \in bufferedMpdus : SeqNumber[m] = SeqNumber[n] => m = n
      BY <1>1 DEF IInv, TypeInv, BufferWithinWindow
    <2>7. /\ k = Distance(ssn, winStartB) /\ e = Distance(scoreboard'.winStart, scoreboard.winStart)
          /\ scoreboard' \in Windows
      BY <1>5, <2>3
    <2>8. e <= Lead + k /\ Lead + k <= e + WinSize
      BY <1>2, <1>3, <2>3
    <2> HIDE DEF e, k
    <2> QED
      BY <1>1, <2>1, <2>3, <2>4, <2>5, <2>6, <2>7, <2>8, SettleStep
  <1>7. CASE k \notin 1 .. SeqHalf - 1
    <2>1. Keep
      BY <1>7 DEF NotifyReceivedBar
    <2>2. CASE e \in 1 .. SeqHalf - 1
      <3>1. e <= Lead /\ e \in Nat
        <4>1. CASE k = 0
          BY <1>2, <1>3, <1>4, <4>1
        <4>2. CASE k # 0
          <5>1. IsOld(ssn, winStartB)
            BY <1>2, <1>3, <1>7, <4>2 DEF IsOld
          <5>2. e < SeqHalf
            BY <1>3, <2>2
          <5>3. e < Lead
            BY <1>1, <1>2, <5>1, <5>2, OldToScoreboard
          <5> QED
            BY <1>2, <1>3, <5>3
        <4> QED
          BY <4>1, <4>2
      <3>2. /\ e = Distance(scoreboard'.winStart, scoreboard.winStart) /\ scoreboard' \in Windows
            /\ \A d \in Marked(scoreboard') : d + e \in Marked(scoreboard)
        BY <1>5, <2>2
      <3> HIDE DEF e, k
      <3> QED
        BY <1>1, <2>1, <3>1, <3>2, KeepStep
    <2>3. CASE e \notin 1 .. SeqHalf - 1
      <3>1. e \notin 1 .. WinSize - 1 /\ e \notin WinSize .. SeqHalf - 1
        BY <1>2, <1>3, <2>3
      <3>2. scoreboard' = scoreboard
        BY <1>1, <3>1 DEF ScoreboardAfterBar
      <3> QED
        BY <1>1, <2>1, <3>2
           DEF IInv, TypeInv, BufferWithinWindow, WindowsTogether, Held, BufferReached, MarkedIsHeld,
               Lead, Ahead, Keep, Marked, At, Cell
    <2> QED
      BY <2>2, <2>3
  <1> QED
    BY <1>6, <1>7

LEMMA DestroyStep ==
  ASSUME RecipientAssumption, IInv, Destroy
  PROVE  IInv'
  <1>1. /\ status' = "destroyed" /\ scoreboard' = scoreboard
        /\ bufferedMpdus \in SUBSET Mpdu /\ scoreboard.winStart \in SeqNos /\ scoreboard \in Windows
        /\ Release(bufferedMpdus, scoreboard.winStart)
    BY DEF Destroy, IInv, TypeInv, Windows
  <1>2. bufferedMpdus' \subseteq Mpdu /\ winStartB' \in SeqNos
    BY <1>1, ReleaseType
  <1> QED
    BY <1>1, <1>2 DEF IInv, TypeInv, BufferWithinWindow, WindowsTogether

-----------------------------------------------------------------------------
LEMMA InitInv == RecipientInit => IInv
  <1> SUFFICES ASSUME NEW startingSeq \in SeqNos, InitAt(startingSeq) PROVE IInv
    BY DEF RecipientInit
  <1>1. /\ scoreboard = InitWindow(startingSeq) /\ winStartB = startingSeq /\ bufferedMpdus = {}
        /\ status = "active" /\ scoreboard.winStart = startingSeq
    BY DEF InitAt, InitWindow
  <1>2. scoreboard \in Windows /\ Marked(scoreboard) = {}
    BY <1>1, InitWindowEmpty
  <1>3. Distance(winStartB, scoreboard.winStart) = 0
    BY <1>1, DistanceSelf
  <1> QED
    BY <1>1, <1>2, <1>3, WinSizeAssumption
       DEF IInv, TypeInv, BufferWithinWindow, WindowsTogether, Held, BufferReached, MarkedIsHeld

LEMMA NextInv ==
  ASSUME RecipientAssumption
  PROVE  IInv /\ [RecipientNext]_recipientVars => IInv'
  <1> SUFFICES ASSUME IInv, [RecipientNext]_recipientVars PROVE IInv'
    OBVIOUS
  <1>1. CASE UNCHANGED recipientVars
    BY <1>1 DEF recipientVars, IInv, TypeInv, BufferWithinWindow, WindowsTogether, Held, BufferReached,
                MarkedIsHeld, Lead, Ahead, Marked, At, Cell
  <1>2. CASE Receive
    <2>1. PICK m \in Mpdu : InReach(SeqNumber[m]) /\ NotifyReceivedMpdu(m)
      BY <1>2 DEF Receive
    <2> QED
      BY <2>1, ReceiveNewStep, ReceiveOldStep DEF NotifyReceivedMpdu
  <1>3. CASE ReceiveBar
    BY <1>3, BarStep DEF ReceiveBar
  <1>4. CASE Destroy
    BY <1>4, DestroyStep
  <1> QED
    BY <1>1, <1>2, <1>3, <1>4 DEF RecipientNext

LEMMA Inductive ==
  ASSUME RecipientAssumption
  PROVE  RecipientSpec => []IInv
  BY InitInv, NextInv, PTL DEF RecipientSpec

\* "There cannot be old MPDUs in the buffer", nor two with one number.
THEOREM BufferStaysWithin ==
  ASSUME RecipientAssumption
  PROVE  RecipientSpec => []BufferWithinWindow
  <1>1. IInv => BufferWithinWindow
    BY DEF IInv
  <1> QED
    BY <1>1, Inductive, PTL

\* The windows of the scoreboard and of the buffer stay together.
THEOREM WindowsStayTogether ==
  ASSUME RecipientAssumption
  PROVE  RecipientSpec => []WindowsTogether
  <1>1. IInv => WindowsTogether
    BY DEF IInv
  <1> QED
    BY <1>1, Inductive, PTL

\* What a BlockAck reports the recipient holds or has let pass.
THEOREM AckedStaysHeld ==
  ASSUME RecipientAssumption
  PROVE  RecipientSpec => []AckedIsHeld
  <1>1. IInv => AckedIsHeld
    <2> SUFFICES ASSUME IInv, status = "active", NEW seq \in BlockAckBitmap
                 PROVE  \/ \E m \in bufferedMpdus : SeqNumber[m] = seq
                        \/ Distance(seq, scoreboard.winStart)
                             < Distance(winStartB, scoreboard.winStart)
      BY DEF AckedIsHeld
    <2>1. PICK d \in Marked(scoreboard) : seq = Plus(scoreboard.winStart, d)
      BY DEF BlockAckBitmap
    <2>2. /\ scoreboard.winStart \in SeqNos /\ winStartB \in SeqNos /\ d \in 0 .. SeqSpace - 1
          /\ TypeInv /\ bufferedMpdus \subseteq Mpdu
      BY WinSizeAssumption, HalfSpace DEF IInv, TypeInv, Windows, Marked, Offsets
    <2>3. seq \in SeqNos /\ Distance(seq, scoreboard.winStart) = d
      BY <2>1, <2>2, PlusDistance
    <2>4. d < Lead \/ \E m \in bufferedMpdus : Lead + Ahead(m, winStartB) = d
      BY DEF IInv, Held, MarkedIsHeld
    <2>5. ASSUME NEW m \in bufferedMpdus, Lead + Ahead(m, winStartB) = d
          PROVE  SeqNumber[m] = seq
      <3>1. SeqNumber[m] \in SeqNos /\ Ahead(m, winStartB) = Distance(SeqNumber[m], winStartB)
        BY <2>2, AheadType
      <3>2. Distance(SeqNumber[m], winStartB) + Distance(winStartB, scoreboard.winStart) = d
        <4>1. /\ Distance(SeqNumber[m], winStartB) \in SeqNos
              /\ Distance(winStartB, scoreboard.winStart) \in SeqNos
          BY <2>2, <3>1, DistanceValue
        <4> QED
          BY <2>5, <3>1, <4>1 DEF Lead, SeqNos
      <3>3. Distance(SeqNumber[m], scoreboard.winStart) = d
        <4>1. d < SeqSpace
          BY <2>2, HalfSpace
        <4> QED
          BY <2>2, <3>1, <3>2, <4>1, DistanceAdds
      <3> QED
        BY <2>2, <2>3, <3>1, <3>3, DistanceSame
    <2> QED
      BY <2>3, <2>4, <2>5 DEF Lead
  <1> QED
    BY <1>1, Inductive, PTL

-----------------------------------------------------------------------------
\* What a step hands up, and where it leaves the window.
UpInOrder ==
    /\ Distance(winStartB', winStartB) <= SeqHalf
    /\ \A i \in DOMAIN forwardedUp' :
          /\ Ahead(forwardedUp'[i], winStartB) < Distance(winStartB', winStartB)
          /\ i > 1 => Ahead(forwardedUp'[i - 1], winStartB)
                        < Ahead(forwardedUp'[i], winStartB)

\* MPDUs whose sequence numbers differ are finitely many, and their distances
\* tell them apart.
LEMMA InOrderMeans ==
  ASSUME RecipientAssumption, NEW M \in SUBSET Mpdu, NEW start \in SeqNos,
         \A m, n \in M : SeqNumber[m] = SeqNumber[n] => m = n
  PROVE  LET s == InOrder(M, start)
         IN  /\ \E c \in Nat : s \in Seq(M) /\ DOMAIN s = 1 .. c
             /\ \A i \in DOMAIN s : s[i] \in M
             /\ \A i, j \in DOMAIN s : i < j => Ahead(s[i], start) < Ahead(s[j], start)
  <1> DEFINE key == [m \in M |-> Ahead(m, start)]
             number == [m \in M |-> SeqNumber[m]]
             s == Ordered(M, key)
  <1>1. IsFiniteSet(M)
    <2>1. number \in Injection(M, SeqNos)
      BY DEF Injection, IsInjective, RecipientAssumption
    <2>2. IsFiniteSet(SeqNos)
      BY HalfSpace, FS_Interval DEF SeqNos
    <2> HIDE DEF number
    <2> QED
      BY <2>1, <2>2, FS_Injection
  <1>2. \A m \in M : key[m] = Ahead(m, start) /\ key[m] \in Int
    BY AheadType
  <1>3. \A m, n \in M : key[m] = key[n] => m = n
    <2> SUFFICES ASSUME NEW m \in M, NEW n \in M, key[m] = key[n] PROVE m = n
      OBVIOUS
    <2>1. /\ SeqNumber[m] \in SeqNos /\ SeqNumber[n] \in SeqNos
          /\ Distance(SeqNumber[m], start) = Distance(SeqNumber[n], start)
      BY <1>2, AheadType
    <2> QED
      BY <2>1, DistanceSame
  <1> HIDE DEF key
  <1>4. Keyed(M, key)
    BY <1>1, <1>2, <1>3 DEF Keyed
  <1>5. /\ s \in Seq(M) /\ DOMAIN s = 1 .. Cardinality(M)
        /\ \A i, j \in DOMAIN s : i < j => key[s[i]] < key[s[j]]
    BY <1>4, OrderedMeans
  <1>6. Cardinality(M) \in Nat
    BY <1>1, FS_CardinalityType
  <1> HIDE DEF s
  <1>7. \A i \in DOMAIN s : s[i] \in M
    BY <1>5, <1>6
  <1>8. InOrder(M, start) = s
    BY DEF InOrder, s, key
  <1> QED
    BY <1>2, <1>5, <1>6, <1>7, <1>8

\* Release hands up what lies behind newStart, then what follows it without a
\* gap, each in order.
LEMMA ReleaseOrder ==
  ASSUME RecipientAssumption, winStartB \in SeqNos, NEW buffer \in SUBSET Mpdu,
         NEW newStart \in SeqNos, NEW k \in 0 .. SeqHalf - 1, k = Distance(newStart, winStartB),
         \A m \in buffer : Ahead(m, winStartB) < k + WinSize /\ Ahead(m, winStartB) < SeqHalf,
         \A m, n \in buffer : SeqNumber[m] = SeqNumber[n] => m = n,
         Release(buffer, newStart)
  PROVE  UpInOrder
  <1> DEFINE early == {m \in buffer : Ahead(m, winStartB) < k}
             rest  == buffer \ early
             A     == {Ahead(m, newStart) : m \in rest} \cap Offsets
             run   == FirstGap(A)
             next  == {m \in rest : Ahead(m, newStart) < run}
             first == InOrder(early, winStartB)
             last  == InOrder(next, newStart)
  <1>1. /\ forwardedUp' = first \o last /\ winStartB' = Plus(newStart, run)
    BY DEF Release
  <1>2. /\ WinSize \in Nat \ {0} /\ k \in Nat /\ SeqSpace \in Nat /\ SeqHalf \in Nat
        /\ SeqSpace = 2 * SeqHalf /\ 2 * WinSize <= SeqHalf
    BY HalfSpace, WinSizeAssumption
  <1>3. A \in SUBSET Offsets
    OBVIOUS
  <1> HIDE DEF A
  <1>4. run \in 0 .. WinSize /\ \A i \in Offsets : i < run => i \in A
    BY <1>3, FirstGapExists
  <1> HIDE DEF run
  <1>5. Distance(winStartB', winStartB) = k + run
    <2>1. run \in 0 .. SeqSpace - 1
      BY <1>2, <1>4
    <2>2. winStartB' \in SeqNos /\ Distance(winStartB', newStart) = run
      BY <1>1, <2>1, PlusDistance
    <2>3. Distance(winStartB', newStart) + Distance(newStart, winStartB) < SeqSpace
      BY <1>2, <1>4, <2>2
    <2> QED
      BY <2>2, <2>3, <1>2, <1>4, DistanceAdds
  <1>6. ASSUME NEW m \in rest
        PROVE  /\ Ahead(m, newStart) = Ahead(m, winStartB) - k
               /\ Ahead(m, winStartB) \in Nat /\ Ahead(m, winStartB) >= k
    <2>1. m \in buffer /\ ~(Ahead(m, winStartB) < k) /\ m \in Mpdu
      OBVIOUS
    <2>2. /\ SeqNumber[m] \in SeqNos /\ Ahead(m, winStartB) \in Nat /\ Ahead(m, winStartB) >= k
          /\ Ahead(m, winStartB) = Distance(SeqNumber[m], winStartB)
          /\ Ahead(m, newStart) = Distance(SeqNumber[m], newStart)
      BY <1>2, <2>1, AheadType
    <2> QED
      BY <2>2, DistanceAdds
  <1>7. k + run <= SeqHalf
    <2>1. CASE run = 0
      BY <1>2, <2>1
    <2>2. CASE run > 0
      <3>1. run - 1 \in A
        BY <1>2, <1>4, <2>2 DEF Offsets
      <3>2. PICK m \in rest : Ahead(m, newStart) = run - 1
        BY <3>1 DEF A
      <3>3. m \in buffer /\ Ahead(m, winStartB) - k = run - 1 /\ Ahead(m, winStartB) < SeqHalf
        BY <3>2, <1>6
      <3> QED
        BY <1>2, <1>4, <1>6, <3>3
    <2> QED
      BY <1>4, <2>1, <2>2
  <1>8. /\ early \in SUBSET Mpdu /\ \A m, n \in early : SeqNumber[m] = SeqNumber[n] => m = n
        /\ next \in SUBSET Mpdu /\ \A m, n \in next : SeqNumber[m] = SeqNumber[n] => m = n
    OBVIOUS
  <1> HIDE DEF first, last
  <1>9. PICK c \in Nat :
              /\ first \in Seq(early) /\ DOMAIN first = 1 .. c
              /\ \A i \in DOMAIN first : first[i] \in early
              /\ \A i, j \in DOMAIN first :
                    i < j => Ahead(first[i], winStartB) < Ahead(first[j], winStartB)
    <2> HIDE DEF early
    <2> QED
      BY <1>8, InOrderMeans DEF first
  <1>10. PICK d \in Nat :
              /\ last \in Seq(next) /\ DOMAIN last = 1 .. d
              /\ \A i \in DOMAIN last : last[i] \in next
              /\ \A i, j \in DOMAIN last :
                    i < j => Ahead(last[i], newStart) < Ahead(last[j], newStart)
    <2> HIDE DEF next
    <2> QED
      BY <1>8, InOrderMeans DEF last
  <1>11. /\ DOMAIN forwardedUp' = 1 .. c + d
         /\ \A i \in 1 .. c : forwardedUp'[i] = first[i]
         /\ \A i \in c + 1 .. c + d : forwardedUp'[i] = last[i - c]
    <2>1. Len(first) = c /\ Len(last) = d /\ first \in Seq(Mpdu) /\ last \in Seq(Mpdu)
      BY <1>8, <1>9, <1>10
    <2> HIDE DEF early, next
    <2> QED
      BY <1>1, <2>1
  <1>12. \A i \in 1 .. c : Ahead(forwardedUp'[i], winStartB) \in Nat /\ Ahead(forwardedUp'[i], winStartB) < k
    BY <1>2, <1>8, <1>9, <1>11, AheadType
  <1>13. \A i \in c + 1 .. c + d :
            /\ Ahead(forwardedUp'[i], winStartB) \in Nat
            /\ k <= Ahead(forwardedUp'[i], winStartB) /\ Ahead(forwardedUp'[i], winStartB) < k + run
            /\ Ahead(forwardedUp'[i], newStart) = Ahead(forwardedUp'[i], winStartB) - k
    <2> TAKE i \in c + 1 .. c + d
    <2>1. i - c \in 1 .. d /\ forwardedUp'[i] = last[i - c]
      BY <1>11
    <2>2. forwardedUp'[i] \in rest /\ Ahead(forwardedUp'[i], newStart) < run
      BY <1>10, <2>1
    <2> HIDE DEF rest
    <2> QED
      BY <1>2, <1>4, <1>6, <2>2
  <1>14. ASSUME NEW i \in 1 .. c + d, i > 1
         PROVE  Ahead(forwardedUp'[i - 1], winStartB) < Ahead(forwardedUp'[i], winStartB)
    <2>1. CASE i <= c
      <3>1. i \in 1 .. c /\ i - 1 \in 1 .. c /\ i - 1 < i
        BY <1>14, <2>1
      <3> QED
        BY <1>9, <1>11, <3>1
    <2>2. CASE i = c + 1
      <3>1. i - 1 \in 1 .. c /\ i \in c + 1 .. c + d
        BY <1>14, <2>2
      <3> QED
        BY <1>2, <1>12, <1>13, <3>1
    <2>3. CASE i > c + 1
      <3>1. i \in c + 1 .. c + d /\ i - 1 \in c + 1 .. c + d
        BY <1>14, <2>3
      <3>2. i - c \in DOMAIN last /\ i - 1 - c \in DOMAIN last /\ i - 1 - c < i - c
        BY <1>10, <3>1
      <3>3. Ahead(forwardedUp'[i - 1], newStart) < Ahead(forwardedUp'[i], newStart)
        BY <1>10, <1>11, <3>1, <3>2
      <3> QED
        BY <1>2, <1>13, <3>1, <3>3
    <2> QED
      BY <1>14, <2>1, <2>2, <2>3
  <1>15. ASSUME NEW i \in 1 .. c + d
         PROVE  Ahead(forwardedUp'[i], winStartB) < k + run
    <2>1. i \in 1 .. c \/ i \in c + 1 .. c + d
      OBVIOUS
    <2> QED
      BY <1>2, <1>4, <1>12, <1>13, <2>1
  <1> QED
    BY <1>5, <1>7, <1>11, <1>14, <1>15 DEF UpInOrder

\* A step that hands up nothing and leaves the window where it is.
LEMMA KeepOrder ==
  ASSUME winStartB \in SeqNos, Keep
  PROVE  UpInOrder
  <1>1. Distance(winStartB', winStartB) = 0 /\ forwardedUp' = <<>>
    BY DistanceSelf DEF Keep
  <1> QED
    BY <1>1, HalfSpace DEF UpInOrder

LEMMA StepOrder ==
  ASSUME RecipientAssumption, IInv, RecipientNext, status' = "active"
  PROVE  UpInOrder
  <1>1. /\ winStartB \in SeqNos /\ bufferedMpdus \in SUBSET Mpdu
        /\ WinSize \in Nat \ {0} /\ SeqHalf \in Nat /\ 2 * WinSize <= SeqHalf /\ SeqSpace \in Nat
    BY WinSizeAssumption, HalfSpace DEF IInv, TypeInv
  <1>2. status = "active" =>
            /\ \A m \in bufferedMpdus : Ahead(m, winStartB) \in 0 .. WinSize - 1
            /\ \A m, n \in bufferedMpdus : SeqNumber[m] = SeqNumber[n] => m = n
    BY <1>1 DEF IInv, BufferWithinWindow
  <1>3. CASE Receive
    <2>1. PICK m \in Mpdu : InReach(SeqNumber[m]) /\ NotifyReceivedMpdu(m)
      BY <1>3 DEF Receive
    <2>2. /\ Insert(m) \in SUBSET Mpdu /\ status = "active"
          /\ \A b \in Insert(m) : b \in bufferedMpdus \/ b = m
          /\ \A b, c \in Insert(m) : SeqNumber[b] = SeqNumber[c] => b = c
      BY <2>1, InsertProperties DEF NotifyReceivedMpdu
    <2>3. Ahead(m, winStartB) \in 0 .. SeqSpace - 1 /\ SeqNumber[m] \in SeqNos
          /\ Ahead(m, winStartB) = Distance(SeqNumber[m], winStartB)
      BY <1>1, AheadType
    <2>4. CASE ReceiveWithinWindow(m)
      <3>1. Release(Insert(m), winStartB) /\ Ahead(m, winStartB) < WinSize
        BY <2>4 DEF ReceiveWithinWindow
      <3>2. 0 = Distance(winStartB, winStartB) /\ 0 \in 0 .. SeqHalf - 1
        BY <1>1, DistanceSelf
      <3>3. \A b \in Insert(m) : Ahead(b, winStartB) < 0 + WinSize /\ Ahead(b, winStartB) < SeqHalf
        BY <1>1, <1>2, <2>2, <2>3, <3>1
      <3> QED
        BY <1>1, <2>2, <3>1, <3>2, <3>3, ReleaseOrder
    <2>5. CASE ReceiveBeyondWindow(m)
      <3> DEFINE newStart == (SeqNumber[m] - WinSize + 1) % U16
                 a == Ahead(m, winStartB)
                 k == a - WinSize + 1
      <3>1. /\ newStart \in SeqNos /\ Release(Insert(m), newStart) /\ a \in WinSize .. SeqHalf - 1
        BY <2>5 DEF ReceiveBeyondWindow
      <3>2. Distance(newStart, winStartB) = k
        BY <1>1, <2>3, <3>1, NewStartValue
      <3> HIDE DEF newStart
      <3>3. k \in 0 .. SeqHalf - 1
        BY <1>1, <3>1
      <3>4. \A b \in Insert(m) : Ahead(b, winStartB) < k + WinSize /\ Ahead(b, winStartB) < SeqHalf
        BY <1>1, <1>2, <2>2, <2>3, <3>1
      <3> HIDE DEF k
      <3> QED
        BY <1>1, <2>2, <3>1, <3>2, <3>3, <3>4, ReleaseOrder
    <2>6. CASE ReceiveOld(m)
      BY <1>1, <2>6, KeepOrder DEF ReceiveOld
    <2> QED
      BY <2>1, <2>4, <2>5, <2>6 DEF NotifyReceivedMpdu
  <1>4. CASE ReceiveBar
    <2>1. PICK ssn \in SeqNos : InReach(ssn) /\ NotifyReceivedBar(ssn)
      BY <1>4 DEF ReceiveBar
    <2> DEFINE k == Distance(ssn, winStartB)
    <2>2. CASE k \in 1 .. SeqHalf - 1
      <3>1. Release(bufferedMpdus, ssn) /\ status = "active"
        BY <2>1, <2>2 DEF NotifyReceivedBar
      <3>2. k \in 0 .. SeqHalf - 1 /\ k = Distance(ssn, winStartB)
        BY <2>2
      <3> HIDE DEF k
      <3>3. \A b \in bufferedMpdus : Ahead(b, winStartB) < k + WinSize /\ Ahead(b, winStartB) < SeqHalf
        BY <1>1, <1>2, <3>1, <3>2
      <3> QED
        BY <1>1, <1>2, <3>1, <3>2, <3>3, ReleaseOrder
    <2>3. CASE k \notin 1 .. SeqHalf - 1
      BY <1>1, <2>1, <2>3, KeepOrder DEF NotifyReceivedBar
    <2> QED
      BY <2>2, <2>3
  <1>5. CASE Destroy
    BY <1>5 DEF Destroy
  <1> QED
    BY <1>3, <1>4, <1>5 DEF RecipientNext

\* Whatever arrives, MPDUs go up in increasing order of sequence number and
\* behind the window that stays.
THEOREM GoesUpInOrder ==
  ASSUME RecipientAssumption
  PROVE  RecipientSpec => ForwardsInOrder
  <1>1. IInv /\ [RecipientNext]_recipientVars => [status' = "active" => UpInOrder]_recipientVars
    BY StepOrder
  <1>2. IInv /\ [RecipientNext]_recipientVars =>
          [status' = "active" =>
             /\ Distance(winStartB', winStartB) <= SeqHalf
             /\ \A i \in DOMAIN forwardedUp' :
                   /\ Ahead(forwardedUp'[i], winStartB) < Distance(winStartB', winStartB)
                   /\ i > 1 => Ahead(forwardedUp'[i - 1], winStartB)
                                 < Ahead(forwardedUp'[i], winStartB)]_recipientVars
    BY <1>1 DEF UpInOrder
  <1> QED
    BY <1>2, Inductive, PTL DEF RecipientSpec, ForwardsInOrder

=============================================================================
