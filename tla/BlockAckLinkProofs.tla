------------------------- MODULE BlockAckLinkProofs -------------------------
(* Theorems about a block ack agreement, for every sequence space, window    *)
(* size, number of MPDUs and configuration.  First the originator alone, at  *)
(* the mercy of any recipient (BlockAckManager): what is in flight lies      *)
(* within the transmit window, numbers that have been on the air are not     *)
(* given to other MPDUs, and nothing but an MPDU that expired between its    *)
(* RTS and its CTS is left behind to hold up the window.  Then both ends and *)
(* the link that loses frames between them (BlockAckLink): nothing that was  *)
(* acknowledged is lost, nothing still to be sent is taken for old, nothing  *)
(* stays in the recipient's buffer, and MPDUs go up in order, each at most   *)
(* once.  What the originator does is proved once for both, over what is     *)
(* known of the recipient: nothing when the originator is alone (Free), what *)
(* it waits for and has in the link (Told).                                  *)
EXTENDS BlockAckLink, BlockAckWindowProofs, FiniteSetTheorems

(***************************************************************************)
(* MPDUs and their sequence numbers                                        *)
(***************************************************************************)
LEMMA DivisionOf ==
  ASSUME NEW k \in Nat \ {0}, NEW x \in Nat
  PROVE  x = k * (x \div k) + (x % k) /\ x \div k \in Int /\ x % k \in 0 .. k - 1
  BY SMTT(30)

LEMMA RemainderOf ==
  ASSUME NEW k \in Nat \ {0}, NEW q \in Int, NEW r \in 0 .. k - 1
  PROVE  (k * q + r) % k = r
  BY SMTT(30)

\* Adding at most a turn of the circle to any number moves its remainder on.
LEMMA RemainderMoves ==
  ASSUME NEW k \in Nat \ {0}, NEW x \in Nat, NEW n \in 0 .. k
  PROVE  (x + n) % k = IF (x % k) + n < k THEN (x % k) + n ELSE (x % k) + n - k
  <1> DEFINE q == x \div k
             r == x % k
  <1>1. x = k * q + r /\ q \in Int /\ r \in 0 .. k - 1
    BY DivisionOf
  <1> HIDE DEF q, r
  <1>2. CASE r + n < k
    <2>1. x + n = k * q + (r + n) /\ r + n \in 0 .. k - 1
      BY <1>1, <1>2
    <2> QED
      BY <2>1, <1>1, <1>2, RemainderOf DEF r
  <1>3. CASE r + n >= k
    <2> DEFINE next == q + 1
               rest == r + n - k
    <2>1. k * next = k * q + k /\ next \in Int
      BY <1>1
    <2>2. x + n = k * next + rest /\ rest \in 0 .. k - 1
      BY <1>1, <1>3, <2>1
    <2> HIDE DEF next, rest
    <2>3. (x + n) % k = rest
      BY <2>1, <2>2, RemainderOf
    <2> QED
      BY <1>1, <1>3, <2>3 DEF r, rest
  <1> QED
    BY <1>1, <1>2, <1>3

LEMMA ConstantTypes ==
  /\ StartingSeq \in Nat /\ MaxMpdu \in Nat /\ MaxAmpdu \in Nat \ {0}
  /\ SeqSpace \in Nat \ {0} /\ SeqHalf \in Nat /\ SeqSpace = 2 * SeqHalf
  /\ WinSize \in Nat \ {0} /\ 2 * WinSize <= SeqHalf
  BY BlockAckManagerAssumption, HalfSpace, WinSizeAssumption DEF SeqNos

LEMMA SeqOfMpduType == \A m \in Nat : SeqOfMpdu(m) \in SeqNos
  <1> TAKE m \in Nat
  <1> DEFINE x == StartingSeq + m
  <1>1. x \in Nat
    BY ConstantTypes
  <1> HIDE DEF x
  <1>2. x % SeqSpace \in 0 .. SeqSpace - 1
    BY <1>1, ModType, ConstantTypes
  <1> QED
    BY <1>2 DEF SeqOfMpdu, SeqNos, x

LEMMA SeqOfMpduMoves ==
  ASSUME NEW m \in Nat, NEW n \in 0 .. SeqSpace
  PROVE  /\ SeqOfMpdu(m + n) = Plus(SeqOfMpdu(m), n)
         /\ SeqOfMpdu(m + n) = IF SeqOfMpdu(m) + n < SeqSpace THEN SeqOfMpdu(m) + n
                               ELSE SeqOfMpdu(m) + n - SeqSpace
  <1> DEFINE x == StartingSeq + m
             r == x % SeqSpace
  <1>1. x \in Nat /\ StartingSeq + (m + n) = x + n
    BY ConstantTypes
  <1>2. SeqOfMpdu(m) = r /\ SeqOfMpdu(m + n) = (x + n) % SeqSpace
    BY <1>1 DEF SeqOfMpdu
  <1>3. SeqSpace \in Nat \ {0}
    BY ConstantTypes
  <1> HIDE DEF x
  <1>4. (x + n) % SeqSpace = IF r + n < SeqSpace THEN r + n ELSE r + n - SeqSpace
    BY <1>1, <1>3, RemainderMoves
  <1>5. SeqOfMpdu(m) \in SeqNos
    BY SeqOfMpduType
  <1> HIDE DEF r
  <1>6. SeqOfMpdu(m + n) = IF SeqOfMpdu(m) + n < SeqSpace THEN SeqOfMpdu(m) + n
                           ELSE SeqOfMpdu(m) + n - SeqSpace
    BY <1>2, <1>4
  <1> QED
    BY <1>5, <1>6, PlusValue

\* How far an MPDU is from the start of a window, up to half a turn behind it.
LEMMA DistanceAhead ==
  ASSUME NEW S \in Nat, NEW m \in Nat, S <= m, m < S + SeqSpace
  PROVE  Distance(SeqOfMpdu(m), SeqOfMpdu(S)) = m - S
  <1> DEFINE n == m - S
  <1>1. n \in 0 .. SeqSpace /\ n < SeqSpace /\ S + n = m
    BY ConstantTypes
  <1> HIDE DEF n
  <1>2. /\ SeqOfMpdu(S) \in SeqNos
        /\ SeqOfMpdu(m) = IF SeqOfMpdu(S) + n < SeqSpace THEN SeqOfMpdu(S) + n
                          ELSE SeqOfMpdu(S) + n - SeqSpace
    BY <1>1, SeqOfMpduMoves, SeqOfMpduType
  <1>3. SeqOfMpdu(m) \in SeqNos /\ SeqOfMpdu(S) \in 0 .. SeqSpace - 1
    BY SeqOfMpduType DEF SeqNos
  <1>4. Distance(SeqOfMpdu(m), SeqOfMpdu(S)) = n
    BY <1>1, <1>2, <1>3, DistanceValue, ConstantTypes
  <1> QED
    BY <1>4 DEF n

LEMMA DistanceBehind ==
  ASSUME NEW S \in Nat, NEW m \in Nat, m < S, S <= m + SeqHalf
  PROVE  Distance(SeqOfMpdu(m), SeqOfMpdu(S)) = SeqSpace - (S - m)
  <1> DEFINE n == S - m
  <1>1. n \in 0 .. SeqSpace /\ n > 0 /\ n < SeqSpace /\ m + n = S
    BY ConstantTypes
  <1> HIDE DEF n
  <1>2. /\ SeqOfMpdu(m) \in SeqNos
        /\ SeqOfMpdu(S) = IF SeqOfMpdu(m) + n < SeqSpace THEN SeqOfMpdu(m) + n
                          ELSE SeqOfMpdu(m) + n - SeqSpace
    BY <1>1, SeqOfMpduMoves, SeqOfMpduType
  <1>3. SeqOfMpdu(S) \in SeqNos /\ SeqOfMpdu(m) \in 0 .. SeqSpace - 1
    BY SeqOfMpduType DEF SeqNos
  <1>4. Distance(SeqOfMpdu(m), SeqOfMpdu(S)) = SeqSpace - n
    BY <1>1, <1>2, <1>3, DistanceValue, ConstantTypes
  <1> QED
    BY <1>4 DEF n

LEMMA PositionInWindow ==
  ASSUME NEW w, NEW S \in Nat, w.winStart = SeqOfMpdu(S),
         NEW m \in Nat, m < S + WinSize, S <= m + SeqHalf
  PROVE  /\ IsOldIn(w, m) <=> m < S
         /\ IsInWindow(w, m) <=> S <= m
         /\ S <= m => Distance(SeqOfMpdu(m), w.winStart) = m - S
  <1>1. CASE S <= m
    <2>1. m < S + SeqSpace /\ m - S < WinSize /\ m - S < SeqHalf
      BY <1>1, ConstantTypes
    <2>2. Distance(SeqOfMpdu(m), w.winStart) = m - S
      BY <1>1, <2>1, DistanceAhead
    <2> QED
      BY <1>1, <2>1, <2>2, ConstantTypes DEF IsOldIn, IsOld, IsInWindow
  <1>2. CASE m < S
    <2>1. Distance(SeqOfMpdu(m), w.winStart) = SeqSpace - (S - m)
      BY <1>2, DistanceBehind
    <2>2. SeqSpace - (S - m) >= SeqHalf /\ ~(SeqSpace - (S - m) < WinSize)
      BY <1>2, ConstantTypes
    <2> QED
      BY <1>2, <2>1, <2>2 DEF IsOldIn, IsOld, IsInWindow
  <1> QED
    BY <1>1, <1>2

-----------------------------------------------------------------------------
(***************************************************************************)
(* The transmit window, in MPDUs                                           *)
(***************************************************************************)
\* The MPDUs marked in a window that starts at MPDU S.
Acked(w, S) == {S + d : d \in Marked(w)}

LEMMA AckedMeans ==
  ASSUME NEW w, NEW S \in Nat
  PROVE  \A m \in Int : m \in Acked(w, S) <=> m - S \in Marked(w)
  <1>1. \A m \in Int, d \in Offsets : m = S + d <=> d = m - S
    BY DEF Offsets
  <1> QED
    BY <1>1 DEF Acked, Marked

LEMMA AckedRange ==
  ASSUME NEW w, NEW S \in Nat
  PROVE  Acked(w, S) \subseteq S .. S + WinSize - 1
  BY ConstantTypes DEF Acked, Marked, Offsets

LEMMA AckedInWindow ==
  ASSUME NEW w, NEW S \in Nat, w.winStart = SeqOfMpdu(S),
         NEW m \in Nat, S <= m, m < S + WinSize
  PROVE  IsAcked(w, m) <=> m \in Acked(w, S)
  <1>1. m - S \in Offsets /\ S <= m + SeqHalf
    BY ConstantTypes DEF Offsets
  <1>2. Distance(SeqOfMpdu(m), w.winStart) = m - S
    BY <1>1, PositionInWindow
  <1> QED
    BY <1>1, <1>2, AckedMeans DEF IsAcked, Marked

\* The window v is one with the MPDUs of A acknowledged that has moved to MPDU
\* from, and on to the first one that is not acknowledged, T.
SlidTo(v, A, from, T) ==
  /\ T \in Nat /\ from <= T
  /\ v \in Windows /\ v.winStart = SeqOfMpdu(T)
  /\ Acked(v, T) = {a \in A : a >= T}
  /\ T \notin A
  /\ from .. T - 1 \subseteq A

LEMMA Settles ==
  ASSUME NEW w \in Windows, NEW S \in Nat, w.winStart = SeqOfMpdu(S),
         NEW k \in Nat, k + WinSize <= SeqSpace
  PROVE  \E T \in Nat : SlidTo(AdvanceTxWindow(Advance(w, k)), Acked(w, S), S + k, T)
  <1> DEFINE v    == AdvanceTxWindow(Advance(w, k))
             rest == Drop(Marked(w), k)
             gap  == FirstGap(rest)
             T    == S + (k + gap)
  <1>1. /\ v \in Windows
        /\ v.winStart = Plus(w.winStart, k + gap)
        /\ Marked(v) = Drop(rest, gap)
        /\ ~At(v, 0)
    BY AdvanceThenSettle
  <1>2. /\ gap \in 0 .. WinSize
        /\ gap \notin rest
        /\ \A e \in Offsets : e < gap => e \in rest
    <2>1. rest \in SUBSET Offsets
      BY DEF Drop
    <2> QED
      BY <2>1, FirstGapExists
  <1> HIDE DEF v, gap
  <1>3. k + gap \in 0 .. SeqSpace /\ T \in Nat /\ S + k <= T /\ S <= T
    BY <1>2, ConstantTypes
  <1>4. v.winStart = SeqOfMpdu(T)
    BY <1>1, <1>3, SeqOfMpduMoves
  <1>5. \A d \in Offsets : d \in Marked(v) <=> d + gap + k \in Marked(w)
    <2>1. \A d \in Offsets : d + gap \in rest => d + gap + k \in Marked(w)
      BY DEF Drop
    <2>2. \A d \in Offsets : d + gap + k \in Offsets => d + gap \in Offsets
      BY <1>2, ConstantTypes DEF Offsets
    <2> QED
      BY <1>1, <2>1, <2>2 DEF Drop, Marked
  <1>6. Acked(v, T) = {a \in Acked(w, S) : a >= T}
    <2>1. ASSUME NEW a \in Int
          PROVE  a \in Acked(v, T) <=> a \in Acked(w, S) /\ a >= T
      <3>1. a \in Acked(v, T) <=> a - T \in Marked(v)
        BY <1>3, AckedMeans
      <3>2. a \in Acked(w, S) <=> a - S \in Marked(w)
        BY AckedMeans
      <3>3. (a - T) + gap + k = a - S
        BY <1>2, <1>3
      <3>4. CASE a - T \in Offsets
        <4>1. a >= T
          BY <1>3, <3>4, ConstantTypes DEF Offsets
        <4> QED
          BY <1>5, <3>1, <3>2, <3>3, <3>4, <4>1
      <3>5. CASE a - T \notin Offsets
        <4>1. a - T \notin Marked(v)
          BY <3>5 DEF Marked
        <4>2. a >= T => a - S \notin Offsets
          BY <1>2, <1>3, <3>5, ConstantTypes DEF Offsets
        <4> QED
          BY <3>1, <3>2, <4>1, <4>2 DEF Marked
      <3> QED
        BY <3>4, <3>5
    <2>2. Acked(v, T) \subseteq Int /\ Acked(w, S) \subseteq Int
      BY <1>3, AckedRange, ConstantTypes
    <2> QED
      BY <2>1, <2>2
  <1>7. T \notin Acked(w, S)
    <2>1. 0 \in Offsets /\ 0 \notin Marked(v)
      BY <1>1, ConstantTypes DEF Marked, Offsets
    <2>2. 0 + gap + k = T - S
      BY <1>2, <1>3
    <2>3. T - S \notin Marked(w)
      BY <1>5, <2>1, <2>2
    <2> QED
      BY <1>3, <2>3, AckedMeans
  <1>8. ASSUME NEW x \in S + k .. T - 1
        PROVE  x \in Acked(w, S)
    <2> DEFINE e == x - S - k
    <2>1. e \in Offsets /\ e < gap /\ e + k = x - S /\ x \in Int
      BY <1>2, <1>3, <1>8, ConstantTypes DEF Offsets
    <2>2. e + k \in Marked(w)
      BY <1>2, <2>1 DEF Drop
    <2> QED
      BY <2>1, <2>2, AckedMeans
  <1>9. SlidTo(v, Acked(w, S), S + k, T)
    BY <1>1, <1>3, <1>4, <1>6, <1>7, <1>8 DEF SlidTo
  <1> QED
    BY <1>3, <1>9 DEF v

\* NotifyDiscardedMpdu, for an MPDU that is not old.
LEMMA DiscardedSlides ==
  ASSUME NEW w \in Windows, NEW S \in Nat, w.winStart = SeqOfMpdu(S),
         NEW m \in Nat, S <= m, m < S + WinSize
  PROVE  \E T \in Nat : SlidTo(AfterDiscarded(w, SeqOfMpdu(m)), Acked(w, S), m + 1, T)
  <1> DEFINE k == m - S + 1
  <1>1. k \in Nat /\ k + WinSize <= SeqSpace /\ S + k = m + 1 /\ S <= m + SeqHalf
    BY ConstantTypes
  <1>2. ~IsOld(SeqOfMpdu(m), w.winStart) /\ Distance(SeqOfMpdu(m), w.winStart) = m - S
    BY <1>1, PositionInWindow DEF IsOldIn
  <1>3. AfterDiscarded(w, SeqOfMpdu(m)) = AdvanceTxWindow(Advance(w, k))
    BY <1>2 DEF AfterDiscarded
  <1> HIDE DEF k
  <1> QED
    BY <1>1, <1>3, Settles

\* NotifyAckedMpdu, for an MPDU within the window.
LEMMA AckedSlides ==
  ASSUME NEW w \in Windows, NEW S \in Nat, w.winStart = SeqOfMpdu(S),
         NEW m \in Nat, S <= m, m < S + WinSize
  PROVE  \E T \in Nat : SlidTo(AfterAcked(w, SeqOfMpdu(m)), Acked(w, S) \cup {m}, S, T)
  <1> DEFINE d == m - S
             v == Mark(w, d)
  <1>1. d \in Offsets /\ S <= m + SeqHalf
    BY ConstantTypes DEF Offsets
  <1>2. ~IsOld(SeqOfMpdu(m), w.winStart) /\ Distance(SeqOfMpdu(m), w.winStart) = d
    BY <1>1, PositionInWindow DEF IsOldIn
  <1>3. v \in Windows /\ v.winStart = SeqOfMpdu(S) /\ Marked(v) = Marked(w) \cup {d}
    BY <1>1, MarkWindow
  <1>4. Acked(v, S) = Acked(w, S) \cup {m}
    <2>1. S + d = m
      OBVIOUS
    <2> HIDE DEF v, d
    <2> QED
      BY <1>3, <2>1 DEF Acked
  <1>5. AfterAcked(w, SeqOfMpdu(m)) = AdvanceTxWindow(v)
    BY <1>2 DEF AfterAcked
  <1>6. Advance(v, 0) = v
    BY <1>3, AdvanceNowhere
  <1>7. 0 + WinSize <= SeqSpace /\ S + 0 = S
    BY ConstantTypes
  <1> HIDE DEF v, d
  <1>8. \E T \in Nat : SlidTo(AdvanceTxWindow(Advance(v, 0)), Acked(v, S), S + 0, T)
    BY <1>3, <1>7, Settles
  <1> QED
    BY <1>4, <1>5, <1>6, <1>7, <1>8

-----------------------------------------------------------------------------
(***************************************************************************)
(* The inductive invariant                                                 *)
(***************************************************************************)
Bars == {"none", "always", "ifData"}
BA == [txWindow: Windows, inFlight: SUBSET Mpdus, queued: SUBSET Mpdus,
       retry: SUBSET Mpdus, bar: Bars]

\* The agreement o when its window starts at MPDU S, the MPDUs before N have been
\* on the air and those before M have a number.  Those excused may have left the
\* EDCA queue although the window did not move beyond them; those held are to be
\* reported as acknowledged or discarded.  What is known besides is P: the window
\* starts at P.from or later, the MPDUs before P.sent have been on the air, only
\* those of P.got have been acknowledged, and all before the window's start are
\* among these unless a BlockAckReq is scheduled.
Sound(o, S, N, M, excused, held, P) ==
  /\ o \in BA
  /\ M \in 0 .. MaxMpdu /\ N \in 0 .. M /\ S \in 0 .. N
  /\ M <= S + WinSize
  /\ o.txWindow.winStart = SeqOfMpdu(S)
  /\ S \notin Acked(o.txWindow, S)
  /\ Acked(o.txWindow, S) \subseteq (S .. N - 1) \ (o.queued \cup o.inFlight \cup held)
  /\ o.inFlight \subseteq S .. N - 1
  /\ o.retry \subseteq 0 .. N - 1
  /\ o.queued \subseteq (N .. M - 1) \cup o.retry \cup o.inFlight
  /\ \A m \in o.queued \cup held :
        /\ m \in 0 .. M - 1 /\ M <= m + WinSize
        /\ m >= S /\ m < N => m \in o.retry \cup o.inFlight
  /\ S .. N - 1 \subseteq o.queued \cup excused \cup Acked(o.txWindow, S)
  /\ P.from \in 0 .. S /\ P.sent \in 0 .. N
  /\ Acked(o.txWindow, S) \subseteq P.got
  /\ o.bar = "none" => 0 .. S - 1 \subseteq P.got

\* The first MPDU that has not been on the air.
Unsent == IF exchange.step = "cts" THEN AfterRelease(New(ba)) ELSE nextMpdu

SoundFrom(S, P) ==
  /\ Sound(ba, S, Unsent, nextMpdu, overtaken, exchange.mpdus, P)
  /\ exchange.step = "cts" =>
        /\ New(ba) = Unsent .. nextMpdu - 1
        /\ New(ba) \subseteq ba.queued \cup overtaken

Exchanges ==
  [step: {"idle", "cts", "response"}, method: {"none", "later", "ack", "blockack", "bar"},
   mpdus: SUBSET Mpdus]

IInv(P) ==
  /\ exchange \in Exchanges
  /\ exchange.step = "idle" => exchange.mpdus = {}
  /\ \E S \in Nat : SoundFrom(S, P)

\* Nothing is known of the recipient.
Free == [from |-> 0, sent |-> 0, got |-> Nat]

-----------------------------------------------------------------------------
LEMMA SoundNumbers ==
  ASSUME NEW P, NEW o, NEW S, NEW N, NEW M, NEW X, NEW H, Sound(o, S, N, M, X, H, P)
  PROVE  /\ S \in Nat /\ N \in Nat /\ M \in Nat /\ S <= N /\ N <= M /\ M <= S + WinSize
         /\ M <= MaxMpdu /\ o \in BA /\ o.txWindow \in Windows
         /\ o.txWindow.winStart = SeqOfMpdu(S)
  BY ConstantTypes DEF Sound, BA

\* Where an MPDU that the originator still deals with is.
LEMMA SoundPlace ==
  ASSUME NEW P, NEW o, NEW S, NEW N, NEW M, NEW X, NEW H, Sound(o, S, N, M, X, H, P),
         NEW m \in o.queued \cup o.inFlight \cup H
  PROVE  /\ m \in Nat /\ m < M /\ M <= m + WinSize
         /\ IsOldIn(o.txWindow, m) <=> m < S
         /\ IsOld(SeqOfMpdu(m), o.txWindow.winStart) <=> m < S
         /\ IsInWindow(o.txWindow, m) <=> S <= m
  <1>1. m \in Nat /\ m < M /\ M <= m + WinSize
    BY SoundNumbers, ConstantTypes DEF Sound
  <1>2. m < S + WinSize /\ S <= m + SeqHalf
    BY <1>1, SoundNumbers, ConstantTypes
  <1> QED
    BY <1>1, <1>2, SoundNumbers, PositionInWindow DEF IsOldIn

LEMMA SoundForgets ==
  ASSUME NEW P, NEW o, NEW S, NEW N, NEW M, NEW X, NEW H, Sound(o, S, N, M, X, H, P),
         NEW Q, Q.from \in 0 .. P.from, Q.sent \in 0 .. P.sent, P.got \subseteq Q.got
  PROVE  Sound(o, S, N, M, X, H, Q)
  <1>1. S \in Nat /\ N \in Nat
    BY SoundNumbers
  <1>2. Q.from \in 0 .. S /\ Q.sent \in 0 .. N
    BY <1>1 DEF Sound
  <1> QED
    BY <1>2 DEF Sound

LEMMA SoundRebased ==
  ASSUME NEW P, NEW o, NEW S, NEW N, NEW M, NEW X, NEW H, Sound(o, S, N, M, X, H, P)
  PROVE  Sound(o, S, N, M, X, H, [from |-> S, sent |-> N, got |-> P.got])
  BY SoundNumbers DEF Sound

LEMMA SoundWeakens ==
  ASSUME NEW P, NEW o, NEW S, NEW N, NEW M, NEW X, NEW H, Sound(o, S, N, M, X, H, P),
         NEW Y, NEW I, X \subseteq Y, I \subseteq H
  PROVE  Sound(o, S, N, M, Y, I, P)
  BY DEF Sound

\* A window that has slid on: what it moved beyond may be gone.
LEMMA SoundSlides ==
  ASSUME NEW P, NEW o, NEW S, NEW N, NEW M, NEW X, NEW H, Sound(o, S, N, M, X, H, P),
         NEW m \in S .. N - 1, NEW v, NEW T, SlidTo(v, Acked(o.txWindow, S), m + 1, T)
  PROVE  /\ T \in m + 1 .. N
         /\ \A p \in BA :
              /\ p.txWindow = v /\ p.bar # "none"
              /\ p.inFlight = {n \in o.inFlight : n >= T}
              /\ {n \in o.queued : n >= T} \subseteq p.queued
              /\ p.queued \subseteq {n \in o.queued : n \in o.inFlight => n >= T}
              /\ p.retry = o.retry
              => Sound(p, T, N, M, X, H, P)
  <1>0. S \in Nat /\ N \in Nat /\ M \in Nat /\ S <= N /\ m \in Nat /\ WinSize \in Nat
    BY SoundNumbers, ConstantTypes
  <1>1. T \in m + 1 .. N
    <2>1. Acked(o.txWindow, S) \subseteq S .. N - 1
      BY DEF Sound
    <2>2. T \in Nat /\ m + 1 <= T /\ (m + 1) .. T - 1 \subseteq Acked(o.txWindow, S)
      BY DEF SlidTo
    <2>3. CASE T = m + 1
      BY <1>0, <2>3
    <2>4. CASE T > m + 1
      <3>1. T - 1 \in (m + 1) .. T - 1
        BY <1>0, <2>2, <2>4
      <3>2. T - 1 \in S .. N - 1
        BY <2>1, <2>2, <3>1
      <3> QED
        BY <1>0, <2>2, <3>2
    <2> QED
      BY <1>0, <2>2, <2>3, <2>4
  <1>2. ASSUME NEW p \in BA, p.txWindow = v, p.retry = o.retry, p.bar # "none",
               p.inFlight = {n \in o.inFlight : n >= T},
               {n \in o.queued : n >= T} \subseteq p.queued,
               p.queued \subseteq {n \in o.queued : n \in o.inFlight => n >= T}
        PROVE  Sound(p, T, N, M, X, H, P)
    <2>1. T >= S /\ T \in 0 .. N /\ M <= T + WinSize
      BY <1>0, <1>1, SoundNumbers
    <2>2. /\ p.txWindow.winStart = SeqOfMpdu(T)
          /\ T \notin Acked(p.txWindow, T)
          /\ Acked(p.txWindow, T) = {a \in Acked(o.txWindow, S) : a >= T}
      BY <1>2 DEF SlidTo
    <2>3. Acked(p.txWindow, T) \subseteq (T .. N - 1) \ (p.queued \cup p.inFlight \cup H)
      BY <1>0, <1>2, <2>1, <2>2 DEF Sound
    <2>4. p.inFlight \subseteq T .. N - 1 /\ p.retry \subseteq 0 .. N - 1
      BY <1>0, <1>2, <2>1 DEF Sound
    <2>5. ASSUME NEW n \in p.queued \cup H
          PROVE  /\ n \in 0 .. M - 1 /\ M <= n + WinSize
                 /\ n >= T /\ n < N => n \in p.retry \cup p.inFlight
      BY <1>0, <1>2, <2>1 DEF Sound
    <2>6. T .. N - 1 \subseteq p.queued \cup X \cup Acked(p.txWindow, T)
      BY <1>0, <1>2, <2>1, <2>2 DEF Sound
    <2>7. p.queued \subseteq (N .. M - 1) \cup p.retry \cup p.inFlight
      BY <1>2 DEF Sound
    <2>8. P.from \in 0 .. T /\ P.sent \in 0 .. N /\ Acked(p.txWindow, T) \subseteq P.got
      <3>1. P.from \in 0 .. S /\ P.sent \in 0 .. N /\ Acked(o.txWindow, S) \subseteq P.got
        BY DEF Sound
      <3> QED
        BY <1>0, <1>1, <2>2, <3>1
    <2> QED
      BY <1>2, <2>1, <2>2, <2>3, <2>4, <2>5, <2>6, <2>7, <2>8 DEF Sound
  <1> QED
    BY <1>1, <1>2

-----------------------------------------------------------------------------
(***************************************************************************)
(* A method applied to one MPDU after another                              *)
(***************************************************************************)
\* What the loop makes of o at MPDU n.
Turn(method, M, o, n) == IF n \in M THEN Do(method, o, n) ELSE o

IsLoop(g, method, o, M, k) ==
  g = [n \in 0 .. k |-> IF n = 0 THEN o ELSE Turn(method, M, g[n - 1], n - 1)]

LEMMA LoopExists ==
  ASSUME NEW method, NEW o, NEW M
  PROVE  \A k \in Nat : \E g : IsLoop(g, method, o, M, k)
  <1> DEFINE Bad  == {k \in Nat : ~\E g : IsLoop(g, method, o, M, k)}
             Less == {ss \in Nat \X Nat : ss[1] < ss[2]}
  <1> SUFFICES ASSUME Bad # {}
               PROVE  FALSE
    OBVIOUS
  <1>1. IsWellFoundedOn(Less, Nat)
    BY NatLessThanWellFounded DEF OpToRel
  <1>2. PICK k \in Bad : \A j \in Bad : ~(<<j, k>> \in Less)
    <2>1. Bad \subseteq Nat
      OBVIOUS
    <2> HIDE DEF Bad, Less
    <2> QED
      BY <1>1, <2>1, WFMin
  <1>3. CASE k = 0
    <2> DEFINE g == [n \in 0 .. 0 |-> o]
    <2>1. IsLoop(g, method, o, M, 0)
      BY DEF IsLoop
    <2> QED
      BY <1>3, <2>1
  <1>4. CASE k # 0
    <2>1. k - 1 \in Nat /\ <<k - 1, k>> \in Less
      BY <1>4
    <2>2. PICK g : IsLoop(g, method, o, M, k - 1)
      BY <1>2, <2>1
    <2> DEFINE h == [n \in 0 .. k |-> IF n = k THEN Turn(method, M, g[k - 1], k - 1) ELSE g[n]]
    <2>3. ASSUME NEW n \in 0 .. k
          PROVE  h[n] = IF n = 0 THEN o ELSE Turn(method, M, h[n - 1], n - 1)
      <3>1. CASE n = k
        BY <1>4, <2>1, <3>1
      <3>2. CASE n # k
        <4>1. n \in 0 .. k - 1 /\ h[n] = g[n]
          BY <2>1, <3>2
        <4>2. g[n] = IF n = 0 THEN o ELSE Turn(method, M, g[n - 1], n - 1)
          BY <2>2, <4>1 DEF IsLoop
        <4>3. n # 0 => h[n - 1] = g[n - 1]
          BY <2>1, <4>1
        <4> QED
          BY <4>1, <4>2, <4>3
      <3> QED
        BY <3>1, <3>2
    <2>4. h = [n \in 0 .. k |-> h[n]]
      OBVIOUS
    <2> HIDE DEF h
    <2>5. IsLoop(h, method, o, M, k)
      BY <2>3, <2>4 DEF IsLoop
    <2> QED
      BY <2>5
  <1> QED
    BY <1>3, <1>4

LEMMA ForEachLoop ==
  ASSUME NEW method, NEW o, NEW M
  PROVE  \E g : IsLoop(g, method, o, M, MaxMpdu) /\ ForEach(method, o, M) = g[MaxMpdu]
  <1> DEFINE g == CHOOSE f : IsLoop(f, method, o, M, MaxMpdu)
  <1>1. IsLoop(g, method, o, M, MaxMpdu)
    BY LoopExists, ConstantTypes
  <1>2. ForEach(method, o, M) = g[MaxMpdu]
    BY DEF ForEach, IsLoop, Turn
  <1> QED
    BY <1>1, <1>2

\* What every turn keeps holds after the last: G has the pairs of the next MPDU and
\* the agreement.
LEMMA ForEachKeeps ==
  ASSUME NEW method, NEW o, NEW M, NEW G,
         <<0, o>> \in G,
         \A n \in 0 .. MaxMpdu - 1 : \A p :
            <<n, p>> \in G => <<n + 1, Turn(method, M, p, n)>> \in G
  PROVE  <<MaxMpdu, ForEach(method, o, M)>> \in G
  <1>1. PICK g : IsLoop(g, method, o, M, MaxMpdu) /\ ForEach(method, o, M) = g[MaxMpdu]
    BY ForEachLoop
  <1> DEFINE Bad  == {n \in Nat : n <= MaxMpdu /\ <<n, g[n]>> \notin G}
             Less == {ss \in Nat \X Nat : ss[1] < ss[2]}
  <1>2. Bad = {}
    <2> SUFFICES ASSUME Bad # {}
                 PROVE  FALSE
      OBVIOUS
    <2>1. IsWellFoundedOn(Less, Nat)
      BY NatLessThanWellFounded DEF OpToRel
    <2>2. PICK n \in Bad : \A j \in Bad : ~(<<j, n>> \in Less)
      <3>1. Bad \subseteq Nat
        OBVIOUS
      <3> HIDE DEF Bad, Less
      <3> QED
        BY <2>1, <3>1, WFMin
    <2>3. n \in 0 .. MaxMpdu
      BY ConstantTypes
    <2>4. g[n] = IF n = 0 THEN o ELSE Turn(method, M, g[n - 1], n - 1)
      BY <1>1, <2>3 DEF IsLoop
    <2>5. CASE n = 0
      BY <2>4, <2>5
    <2>6. CASE n # 0
      <3>1. n - 1 \in 0 .. MaxMpdu - 1 /\ n - 1 \in Nat /\ <<n - 1, n>> \in Less /\ n - 1 + 1 = n
        BY <2>3, <2>6, ConstantTypes
      <3>2. <<n - 1, g[n - 1]>> \in G
        BY <2>2, <2>3, <3>1, ConstantTypes
      <3> QED
        BY <2>4, <2>6, <3>1, <3>2
    <2> QED
      BY <2>5, <2>6
  <1> QED
    BY <1>1, <1>2, ConstantTypes

-----------------------------------------------------------------------------
(***************************************************************************)
(* What each method makes of the agreement                                 *)
(***************************************************************************)
\* An MPDU that the window has passed, or not reached, needs no excuse.
LEMMA SoundExcuses ==
  ASSUME NEW P, NEW o, NEW S, NEW N, NEW M, NEW X, NEW H, NEW m,
         Sound(o, S, N, M, X \cup {m}, H, P), m \notin S .. N - 1
  PROVE  Sound(o, S, N, M, X, H, P)
  BY DEF Sound

\* An MPDU of either queue may as well be held.
LEMMA SoundHolds ==
  ASSUME NEW P, NEW o, NEW S, NEW N, NEW M, NEW X, NEW H, NEW I,
         Sound(o, S, N, M, X, H, P), I \subseteq o.queued \cup o.inFlight
  PROVE  Sound(o, S, N, M, X, H \cup I, P)
  <1>1. ASSUME NEW m \in o.queued \cup (H \cup I)
        PROVE  /\ m \in 0 .. M - 1 /\ M <= m + WinSize
               /\ m >= S /\ m < N => m \in o.retry \cup o.inFlight
    <2>1. CASE m \in o.queued \cup H
      BY <2>1 DEF Sound
    <2>2. CASE m \in o.inFlight
      <3>1. m \in Nat /\ m < M /\ M <= m + WinSize
        BY <2>2, SoundPlace
      <3> QED
        BY <2>2, <3>1, SoundNumbers
    <2> QED
      BY <2>1, <2>2
  <1>2. Acked(o.txWindow, S) \subseteq
            (S .. N - 1) \ (o.queued \cup o.inFlight \cup (H \cup I))
    BY DEF Sound
  <1> QED
    BY <1>1, <1>2 DEF Sound

LEMMA DequeueSound ==
  ASSUME NEW P, NEW o, NEW S, NEW N, NEW M, NEW X, NEW H, Sound(o, S, N, M, X, H, P), NEW D
  PROVE  Sound([o EXCEPT !.queued = @ \ D], S, N, M, X \cup D, H, P)
  <1> DEFINE p == [o EXCEPT !.queued = @ \ D]
  <1>1. /\ p \in BA /\ p.txWindow = o.txWindow /\ p.inFlight = o.inFlight /\ p.bar = o.bar
        /\ p.retry = o.retry /\ p.queued = o.queued \ D
    BY SoundNumbers DEF BA
  <1> HIDE DEF p
  <1> QED
    BY <1>1 DEF Sound, p

LEMMA DiscardSound ==
  ASSUME NEW P, NEW o, NEW S, NEW N, NEW M, NEW X, NEW H, NEW m \in H,
         Sound(o, S, N, M, X \cup {m}, H, P)
  PROVE  \E T \in Nat : Sound(Discard(o, m), T, N, M, X, H, P) /\ m \notin T .. N - 1
  <1> DEFINE w == o.txWindow
             v == AfterDiscarded(w, SeqOfMpdu(m))
             gone == {n \in o.inFlight : IsOldIn(v, n)}
             p == [o EXCEPT !.txWindow = v, !.inFlight = @ \ gone,
                            !.queued = @ \ gone, !.bar = "always"]
  <1>1. /\ m \in Nat /\ m < M /\ M <= m + WinSize
        /\ IsOldIn(w, m) <=> m < S
    BY SoundPlace
  <1>2. /\ S \in Nat /\ N \in Nat /\ M \in Nat /\ S <= N /\ N <= M /\ M <= S + WinSize
        /\ o \in BA /\ w \in Windows /\ w.winStart = SeqOfMpdu(S)
    BY SoundNumbers
  <1>3. CASE m \notin o.retry \cup o.inFlight \/ m < S
    <2>1. Discard(o, m) = o
      BY <1>1, <1>3 DEF Discard
    <2>2. m \notin S .. N - 1
      <3>1. CASE m \notin o.retry \cup o.inFlight
        <4>1. m >= S /\ m < N => m \in o.retry \cup o.inFlight
          BY DEF Sound
        <4> QED
          BY <1>1, <1>2, <3>1, <4>1
      <3>2. CASE m < S
        BY <3>2, <1>1, <1>2
      <3> QED
        BY <1>3, <3>1, <3>2
    <2>3. Sound(o, S, N, M, X, H, P)
      BY <2>2, SoundExcuses
    <2> QED
      BY <1>2, <2>1, <2>2, <2>3
  <1>4. CASE m \in o.retry \cup o.inFlight /\ m >= S
    <2>1. m \in S .. N - 1
      BY <1>4, <1>1, <1>2 DEF Sound
    <2>2. m < S + WinSize
      BY <1>1, <1>2, ConstantTypes
    <2>3. PICK T \in Nat : SlidTo(v, Acked(w, S), m + 1, T)
      BY <1>1, <1>2, <1>4, <2>2, DiscardedSlides
    <2>4. v \in Windows /\ v.winStart = SeqOfMpdu(T)
      BY <2>3 DEF SlidTo
    <2>5. T \in m + 1 .. N
      BY <2>1, <2>3, SoundSlides
    <2> HIDE DEF v
    <2>6. \A n \in o.inFlight : IsOldIn(v, n) <=> n < T
      <3> TAKE n \in o.inFlight
      <3>1. n \in Nat /\ n < M /\ M <= n + WinSize
        BY SoundPlace
      <3>2. n < T + WinSize /\ T <= n + SeqHalf
        BY <1>1, <1>2, <2>1, <2>5, <3>1, ConstantTypes
      <3> QED
        BY <2>4, <3>1, <3>2, PositionInWindow
    <2>7. o.inFlight \subseteq Nat /\ o.queued \subseteq Nat
      BY <1>2, ConstantTypes DEF BA, Mpdus
    <2>8. /\ p \in BA /\ p.txWindow = v /\ p.retry = o.retry /\ p.bar # "none"
          /\ p.inFlight = o.inFlight \ gone /\ p.queued = o.queued \ gone
      BY <1>2, <2>4 DEF BA, Bars
    <2>9. Discard(o, m) = p
      BY <1>1, <1>2, <1>4 DEF Discard, v
    <2> HIDE DEF p
    <2>10. /\ p.inFlight = {n \in o.inFlight : n >= T}
           /\ {n \in o.queued : n >= T} \subseteq p.queued
           /\ p.queued \subseteq {n \in o.queued : n \in o.inFlight => n >= T}
      BY <2>6, <2>7, <2>8
    <2>11. Sound(p, T, N, M, X \cup {m}, H, P)
      BY <2>1, <2>3, <2>8, <2>10, SoundSlides
    <2>12. m \notin T .. N - 1
      BY <1>1, <2>5
    <2>13. Sound(p, T, N, M, X, H, P)
      BY <2>11, <2>12, SoundExcuses
    <2> QED
      BY <2>9, <2>12, <2>13
  <1> QED
    BY <1>1, <1>2, <1>3, <1>4

\* The three ways of giving an MPDU up.
Discards == {"Discard", "DequeueAndDiscard", "DiscardAndDequeue"}

LEMMA GiveUpSound ==
  ASSUME NEW P, NEW o, NEW S, NEW N, NEW M, NEW X, NEW H, NEW m \in H, NEW method \in Discards,
         Sound(o, S, N, M, X \cup {m}, H, P)
  PROVE  \E T \in Nat : Sound(Do(method, o, m), T, N, M, X, H, P)
  <1>1. CASE method = "Discard"
    BY <1>1, DiscardSound DEF Do
  <1>2. CASE method = "DequeueAndDiscard"
    <2> DEFINE p == [o EXCEPT !.queued = @ \ {m}]
    <2>1. X \cup {m} \cup {m} = X \cup {m}
      OBVIOUS
    <2>2. Sound(p, S, N, M, X \cup {m}, H, P)
      BY <2>1, DequeueSound
    <2>3. Do(method, o, m) = Discard(p, m)
      BY <1>2 DEF Do, DequeueAndDiscard
    <2> HIDE DEF p
    <2>4. \E T \in Nat : Sound(Discard(p, m), T, N, M, X, H, P)
      BY <2>2, DiscardSound
    <2> QED
      BY <2>3, <2>4
  <1>3. CASE method = "DiscardAndDequeue"
    <2> DEFINE d == Discard(o, m)
    <2>1. PICK T \in Nat : Sound(d, T, N, M, X, H, P) /\ m \notin T .. N - 1
      BY DiscardSound
    <2>2. Do(method, o, m) = [d EXCEPT !.queued = @ \ {m}]
      BY <1>3 DEF Do, DiscardAndDequeue
    <2> HIDE DEF d
    <2>3. Sound([d EXCEPT !.queued = @ \ {m}], T, N, M, X \cup {m}, H, P)
      BY <2>1, DequeueSound
    <2>4. Sound([d EXCEPT !.queued = @ \ {m}], T, N, M, X, H, P)
      BY <2>1, <2>3, SoundExcuses
    <2> QED
      BY <2>2, <2>4
  <1> QED
    BY <1>1, <1>2, <1>3 DEF Discards

-----------------------------------------------------------------------------
(***************************************************************************)
(* A method applied to the MPDUs of a set                                  *)
(***************************************************************************)
\* The MPDUs of D from the n-th on.
Later(D, n) == {m \in D : m >= n}

LEMMA LaterOnes ==
  ASSUME NEW D, D \subseteq Mpdus
  PROVE  /\ Later(D, 0) = D /\ Later(D, MaxMpdu) = {}
         /\ \A n \in D : /\ Later(D, n) = Later(D, n + 1) \cup {n}
                         /\ n \notin Later(D, n + 1) /\ Later(D, n + 1) \in SUBSET D
         /\ \A n \in Nat \ D : Later(D, n) = Later(D, n + 1)
  <1>1. \A m \in D : m \in Nat /\ m < MaxMpdu
    BY ConstantTypes DEF Mpdus
  <1>2. Later(D, 0) = D
    BY <1>1 DEF Later
  <1>3. Later(D, MaxMpdu) = {}
    BY <1>1, ConstantTypes DEF Later
  <1>4. ASSUME NEW n \in D
        PROVE  /\ Later(D, n) = Later(D, n + 1) \cup {n}
               /\ n \notin Later(D, n + 1) /\ Later(D, n + 1) \in SUBSET D
    BY <1>1 DEF Later
  <1>5. ASSUME NEW n \in Nat \ D
        PROVE  Later(D, n) = Later(D, n + 1)
    BY <1>1 DEF Later
  <1> QED
    BY <1>2, <1>3, <1>4, <1>5

\* The MPDUs of D still to come are excused if in Y and held if in I; when all
\* have had their turn none is.  K is what else every turn keeps.
LEMMA ForEachSound ==
  ASSUME NEW P, NEW method, NEW o, NEW N, NEW M, NEW X, NEW H, NEW D, NEW Y, NEW I, NEW K,
         D \subseteq Mpdus, o \in K \cap BA,
         \E S \in Nat : Sound(o, S, N, M, X \cup (D \cap Y), H \cup (D \cap I), P),
         \A n \in D, R \in SUBSET D : \A p \in K \cap BA : \A S \in Nat :
            Sound(p, S, N, M, X \cup ((R \cup {n}) \cap Y), H \cup ((R \cup {n}) \cap I), P)
               /\ n \notin R
            => /\ Do(method, p, n) \in K
               /\ \E T \in Nat : Sound(Do(method, p, n), T, N, M, X \cup (R \cap Y), H \cup (R \cap I), P)
  PROVE  /\ ForEach(method, o, D) \in K \cap BA
         /\ \E T \in Nat : Sound(ForEach(method, o, D), T, N, M, X, H, P)
  <1> DEFINE Holds(p, R) == \E S \in Nat : Sound(p, S, N, M, X \cup (R \cap Y), H \cup (R \cap I), P)
             G == {q \in Nat \X (K \cap BA) : Holds(q[2], Later(D, q[1]))}
  <1>1. <<0, o>> \in G
    <2>1. Later(D, 0) = D
      BY LaterOnes
    <2>2. Holds(o, D)
      OBVIOUS
    <2> HIDE DEF Holds
    <2> QED
      BY <2>1, <2>2
  <1>2. ASSUME NEW n \in 0 .. MaxMpdu - 1, NEW p, <<n, p>> \in G
        PROVE  <<n + 1, Turn(method, D, p, n)>> \in G
    <2>1. n \in Nat /\ n + 1 \in Nat /\ p \in K \cap BA
      BY <1>2, ConstantTypes
    <2> HIDE DEF Holds
    <2>2. Holds(p, Later(D, n))
      BY <1>2
    <2>3. CASE n \in D
      <3>1. Later(D, n) = Later(D, n + 1) \cup {n} /\ n \notin Later(D, n + 1)
            /\ Later(D, n + 1) \in SUBSET D
        BY <2>3, LaterOnes
      <3> HIDE DEF G
      <3>2. Do(method, p, n) \in K /\ Holds(Do(method, p, n), Later(D, n + 1))
        BY <2>1, <2>2, <2>3, <3>1 DEF Holds
      <3>3. Do(method, p, n) \in BA
        BY <3>2 DEF Holds, Sound
      <3>4. Turn(method, D, p, n) = Do(method, p, n)
        BY <2>3 DEF Turn
      <3> QED
        BY <2>1, <3>2, <3>3, <3>4 DEF G
    <2>4. CASE n \notin D
      <3>1. Later(D, n) = Later(D, n + 1)
        BY <2>1, <2>4, LaterOnes
      <3>2. Turn(method, D, p, n) = p
        BY <2>4 DEF Turn
      <3> QED
        BY <2>1, <2>2, <3>1, <3>2
    <2> QED
      BY <2>3, <2>4
  <1> HIDE DEF G
  <1>3. <<MaxMpdu, ForEach(method, o, D)>> \in G
    BY <1>1, <1>2, ForEachKeeps
  <1>4. Later(D, MaxMpdu) = {}
    BY LaterOnes
  <1> QED
    BY <1>3, <1>4 DEF G

\* What giving up MPDUs may leave of o: the same retries, and none more in flight.
LeftOf(o) == {p \in BA : p.retry = o.retry /\ p.inFlight \subseteq o.inFlight}

\* A set of MPDUs given up, one by one.
LEMMA AllGivenUpSound ==
  ASSUME NEW P, NEW o, NEW S \in Nat, NEW N, NEW M, NEW X, NEW H, NEW D, NEW method \in Discards,
         Sound(o, S, N, M, X \cup D, H \cup D, P)
  PROVE  /\ \E T \in Nat : Sound(ForEach(method, o, D), T, N, M, X, H, P)
         /\ ForEach(method, o, D) \in LeftOf(o)
  <1>1. D \subseteq Mpdus
    <2>1. M <= MaxMpdu /\ M \in Nat
      BY SoundNumbers
    <2>2. \A m \in D : m \in 0 .. M - 1
      BY DEF Sound
    <2> QED
      BY <2>1, <2>2, ConstantTypes DEF Mpdus
  <1>2. o \in LeftOf(o) \cap BA
    BY SoundNumbers DEF LeftOf
  <1>3. D \cap D = D
    OBVIOUS
  <1>4. ASSUME NEW n \in D, NEW R \in SUBSET D, NEW p \in LeftOf(o) \cap BA, NEW Z \in Nat,
               Sound(p, Z, N, M, X \cup ((R \cup {n}) \cap D), H \cup ((R \cup {n}) \cap D), P)
        PROVE  /\ Do(method, p, n) \in LeftOf(o)
               /\ \E T \in Nat : Sound(Do(method, p, n), T, N, M, X \cup (R \cap D), H \cup (R \cap D), P)
    <2> DEFINE Y == X \cup (R \cap D)
               I == H \cup ((R \cup {n}) \cap D)
    <2>1. X \cup ((R \cup {n}) \cap D) = Y \cup {n} /\ n \in I /\ H \cup (R \cap D) \subseteq I
      OBVIOUS
    <2>2. Sound(p, Z, N, M, Y \cup {n}, I, P)
      BY <1>4, <2>1
    <2> HIDE DEF Y, I
    <2>3. \E T \in Nat : Sound(Do(method, p, n), T, N, M, Y, I, P)
      BY <2>1, <2>2, GiveUpSound
    <2>4. \E T \in Nat : Sound(Do(method, p, n), T, N, M, Y, H \cup (R \cap D), P)
      BY <2>1, <2>3, SoundWeakens
    <2>5. Do(method, p, n) \in BA
      BY <2>3, SoundNumbers
    <2>6. Do(method, p, n).retry = p.retry /\ Do(method, p, n).inFlight \subseteq p.inFlight
      <3>1. ASSUME NEW q \in BA PROVE Discard(q, n).retry = q.retry /\ Discard(q, n).inFlight \subseteq q.inFlight
        BY DEF Discard, BA
      <3>2. CASE method = "Discard"
        BY <3>1, <3>2 DEF Do
      <3>3. CASE method = "DequeueAndDiscard"
        <4> DEFINE q == [p EXCEPT !.queued = @ \ {n}]
        <4>1. q \in BA /\ q.retry = p.retry /\ q.inFlight = p.inFlight
          BY DEF BA
        <4>2. Do(method, p, n) = Discard(q, n)
          BY <3>3 DEF Do, DequeueAndDiscard
        <4> HIDE DEF q
        <4> QED
          BY <3>1, <4>1, <4>2
      <3>4. CASE method = "DiscardAndDequeue"
        <4> DEFINE d == Discard(p, n)
        <4>1. Do(method, p, n) = [d EXCEPT !.queued = @ \ {n}]
          BY <3>4 DEF Do, DiscardAndDequeue
        <4>2. {"retry", "inFlight"} \subseteq DOMAIN d
          BY DEF Discard, BA
        <4>3. d.retry = p.retry /\ d.inFlight \subseteq p.inFlight
          BY <3>1
        <4> HIDE DEF d
        <4>4. [d EXCEPT !.queued = @ \ {n}].retry = d.retry /\ [d EXCEPT !.queued = @ \ {n}].inFlight = d.inFlight
          BY <4>2
        <4> QED
          BY <4>1, <4>3, <4>4
      <3> QED
        BY <3>2, <3>3, <3>4 DEF Discards
    <2> QED
      BY <2>4, <2>5, <2>6 DEF Y, LeftOf
  <1>5. /\ ForEach(method, o, D) \in LeftOf(o) \cap BA
        /\ \E T \in Nat : Sound(ForEach(method, o, D), T, N, M, X, H, P)
    BY <1>1, <1>2, <1>3, <1>4, ForEachSound
  <1> QED
    BY <1>5

\* An acknowledged MPDU: if the window reaches beyond it, so have all transmissions.
LEMMA AcknowledgeSound ==
  ASSUME NEW P, NEW o, NEW S, NEW M, NEW X, NEW H, NEW m \in P.got, m \notin H,
         Sound(o, S, M, M, X, H \cup {m}, P)
  PROVE  \E T \in Nat : Sound(Acknowledge(o, m), T, M, M, X, H, P)
  <1> DEFINE w == o.txWindow
             A == Acked(w, S)
             v == AfterAcked(w, SeqOfMpdu(m))
             p == Acknowledge(o, m)
  <1>1. /\ m \in Nat /\ m < M /\ M <= m + WinSize
        /\ IsOld(SeqOfMpdu(m), w.winStart) <=> m < S
    BY SoundPlace
  <1>2. /\ S \in Nat /\ M \in Nat /\ S <= M /\ M <= S + WinSize
        /\ o \in BA /\ w \in Windows /\ w.winStart = SeqOfMpdu(S)
    BY SoundNumbers
  <1>3. \E T \in S .. M :
            /\ v \in Windows /\ v.winStart = SeqOfMpdu(T)
            /\ T \notin Acked(v, T)
            /\ Acked(v, T) \subseteq A \cup {m} /\ (A \cup {m}) \cap (T .. M - 1) \subseteq Acked(v, T)
            /\ Acked(v, T) \subseteq T .. M - 1
            /\ S .. T - 1 \subseteq A \cup {m}
    <2>1. A \subseteq S .. M - 1 /\ S \notin A
      BY DEF Sound
    <2>2. CASE m < S
      <3>1. v = w
        BY <1>1, <2>2 DEF AfterAcked
      <3>2. S \in S .. M /\ m \notin S .. M - 1 /\ S .. S - 1 = {}
        BY <1>1, <1>2, <2>2
      <3> HIDE DEF v, A
      <3>3. Acked(v, S) = A
        BY <3>1 DEF A
      <3> QED
        BY <1>2, <2>1, <3>1, <3>2, <3>3
    <2>3. CASE m >= S
      <3>1. m < S + WinSize
        BY <1>1, <1>2, ConstantTypes
      <3>2. PICK T \in Nat : SlidTo(v, A \cup {m}, S, T)
        BY <1>1, <1>2, <2>3, <3>1, AckedSlides
      <3> HIDE DEF v, A
      <3>3. /\ S <= T /\ v \in Windows /\ v.winStart = SeqOfMpdu(T)
            /\ Acked(v, T) = {a \in A \cup {m} : a >= T}
            /\ T \notin A \cup {m} /\ S .. T - 1 \subseteq A \cup {m}
        BY <3>2 DEF SlidTo
      <3>4. A \cup {m} \subseteq S .. M - 1
        BY <1>1, <1>2, <2>1, <2>3
      <3>5. T <= M
        <4>1. CASE T = S
          BY <1>2, <4>1
        <4>2. CASE T # S
          <5>1. T - 1 \in S .. T - 1
            BY <1>2, <3>3, <4>2
          <5>2. T - 1 \in S .. M - 1
            BY <3>3, <3>4, <5>1
          <5> QED
            BY <1>2, <5>2
        <4> QED
          BY <4>1, <4>2
      <3> QED
        BY <1>2, <3>3, <3>4, <3>5
    <2> QED
      BY <1>1, <1>2, <2>2, <2>3
  <1>4. PICK T \in S .. M :
            /\ v \in Windows /\ v.winStart = SeqOfMpdu(T)
            /\ T \notin Acked(v, T)
            /\ Acked(v, T) \subseteq A \cup {m} /\ (A \cup {m}) \cap (T .. M - 1) \subseteq Acked(v, T)
            /\ Acked(v, T) \subseteq T .. M - 1
            /\ S .. T - 1 \subseteq A \cup {m}
    BY <1>3
  <1> HIDE DEF v
  <1>5. /\ p.txWindow = v /\ p.inFlight = o.inFlight \ {m} /\ p.queued = o.queued \ {m}
        /\ p.retry = o.retry /\ p.bar = o.bar /\ p \in BA
    BY <1>2, <1>4 DEF Acknowledge, v, BA
  <1> HIDE DEF p
  <1>6. T \in Nat /\ T >= S /\ T <= M /\ M <= T + WinSize /\ M \in 0 .. MaxMpdu /\ T \in 0 .. M
    BY <1>2, <1>4, SoundNumbers, ConstantTypes
  <1>7. A \cap (o.queued \cup o.inFlight \cup (H \cup {m})) = {}
    BY DEF Sound
  <1>8. Acked(v, T) \subseteq (T .. M - 1) \ (p.queued \cup p.inFlight \cup H)
    BY <1>4, <1>5, <1>7
  <1>9. p.inFlight \subseteq T .. M - 1
    <2>1. ASSUME NEW n \in p.inFlight
          PROVE  n >= T /\ n \in T .. M - 1
      <3>1. n \in S .. M - 1 /\ n # m /\ n \notin A
        BY <1>5, <1>7 DEF Sound
      <3>2. n \notin S .. T - 1
        BY <1>4, <3>1
      <3> QED
        BY <1>2, <1>6, <3>1, <3>2
    <2> QED
      BY <2>1
  <1>10. p.retry \subseteq 0 .. M - 1
    BY <1>5 DEF Sound
  <1>11. p.queued \subseteq (M .. M - 1) \cup p.retry \cup p.inFlight
    BY <1>5 DEF Sound
  <1>12. ASSUME NEW n \in p.queued \cup H
         PROVE  /\ n \in 0 .. M - 1 /\ M <= n + WinSize
                /\ n >= T /\ n < M => n \in p.retry \cup p.inFlight
    <2>1. n \in o.queued \cup (H \cup {m}) /\ n # m
      BY <1>5
    <2>2. /\ n \in 0 .. M - 1 /\ M <= n + WinSize
          /\ n >= S /\ n < M => n \in o.retry \cup o.inFlight
      BY <2>1 DEF Sound
    <2> QED
      BY <1>2, <1>5, <1>6, <2>1, <2>2
  <1>13. ASSUME NEW n \in T .. M - 1
         PROVE  n \in p.queued \cup X \cup Acked(v, T)
    <2>1. n \in S .. M - 1
      BY <1>2, <1>6
    <2>2. n \in o.queued \cup X \cup A
      BY <2>1 DEF Sound
    <2> QED
      BY <1>4, <1>5, <2>2
  <1>14. /\ P.from \in 0 .. T /\ P.sent \in 0 .. M /\ Acked(v, T) \subseteq P.got
         /\ p.bar = "none" => 0 .. T - 1 \subseteq P.got
    <2>1. /\ P.from \in 0 .. S /\ P.sent \in 0 .. M /\ A \subseteq P.got
          /\ p.bar = "none" => 0 .. S - 1 \subseteq P.got
      BY <1>5 DEF Sound
    <2>2. \A n \in 0 .. T - 1 : n \in 0 .. S - 1 \/ n \in S .. T - 1
      BY <1>2, <1>6
    <2> QED
      BY <1>2, <1>4, <1>6, <2>1, <2>2
  <1>15. Sound(p, T, M, M, X, H, P)
    BY <1>4, <1>5, <1>6, <1>8, <1>9, <1>10, <1>11, <1>12, <1>13, <1>14 DEF Sound
  <1> QED
    BY <1>6, <1>15 DEF p

LEMMA AllAcknowledgedSound ==
  ASSUME NEW P, NEW o, NEW S \in Nat, NEW M, NEW X, NEW D, D \subseteq P.got,
         Sound(o, S, M, M, X, D, P)
  PROVE  \E T \in Nat : Sound(ForEach("Acknowledge", o, D), T, M, M, X, {}, P)
  <1>1. D \subseteq Mpdus
    <2>1. M <= MaxMpdu /\ M \in Nat
      BY SoundNumbers
    <2>2. \A m \in D : m \in 0 .. M - 1
      BY DEF Sound
    <2> QED
      BY <2>1, <2>2, ConstantTypes DEF Mpdus
  <1>2. o \in BA \cap BA
    BY SoundNumbers
  <1>3. \A R : X \cup (R \cap {}) = X /\ {} \cup (R \cap D) = R \cap D
    OBVIOUS
  <1>4. ASSUME NEW n \in D, NEW R \in SUBSET D, NEW p \in BA \cap BA, NEW Z \in Nat, n \notin R,
               Sound(p, Z, M, M, X \cup ((R \cup {n}) \cap {}), {} \cup ((R \cup {n}) \cap D), P)
        PROVE  /\ Do("Acknowledge", p, n) \in BA
               /\ \E T \in Nat : Sound(Do("Acknowledge", p, n), T, M, M,
                                       X \cup (R \cap {}), {} \cup (R \cap D), P)
    <2>1. {} \cup ((R \cup {n}) \cap D) = R \cup {n} /\ {} \cup (R \cap D) = R
      OBVIOUS
    <2>2. Sound(p, Z, M, M, X, R \cup {n}, P)
      BY <1>3, <1>4, <2>1
    <2>3. \E T \in Nat : Sound(Acknowledge(p, n), T, M, M, X, R, P)
      BY <1>4, <2>2, AcknowledgeSound
    <2>4. Acknowledge(p, n) \in BA
      BY <2>3, SoundNumbers
    <2>5. Do("Acknowledge", p, n) = Acknowledge(p, n)
      BY DEF Do
    <2> QED
      BY <1>3, <2>1, <2>3, <2>4, <2>5
  <1>5. Sound(o, S, M, M, X \cup (D \cap {}), {} \cup (D \cap D), P)
    <2>1. X \cup (D \cap {}) = X /\ {} \cup (D \cap D) = D
      OBVIOUS
    <2> QED
      BY <2>1
  <1> QED
    BY <1>1, <1>2, <1>4, <1>5, ForEachSound

\* HandleInFlightMpdu, when nothing more is to be reported.
LEMMA HandleSound ==
  ASSUME NEW P, NEW o, NEW S, NEW N, NEW M, NEW X, NEW m, NEW outcome, Sound(o, S, N, M, X, {}, P)
  PROVE  \E T \in Nat : Sound(HandleInFlight(o, m, outcome), T, N, M, X, {}, P)
  <1>1. S \in Nat /\ N \in Nat /\ M \in Nat /\ S <= N /\ N <= M /\ o \in BA
    BY SoundNumbers
  <1>2. CASE m \notin o.inFlight
    BY <1>1, <1>2 DEF HandleInFlight
  <1>3. CASE m \in o.inFlight \ o.queued
    <2> DEFINE p == [o EXCEPT !.inFlight = @ \ {m}]
    <2>1. HandleInFlight(o, m, outcome) = p
      BY <1>3 DEF HandleInFlight
    <2>2. /\ p.txWindow = o.txWindow /\ p.inFlight = o.inFlight \ {m}
          /\ p.queued = o.queued /\ p.retry = o.retry /\ p.bar = o.bar /\ p \in BA
      BY <1>1 DEF BA
    <2> HIDE DEF p
    <2>3. Sound(p, S, N, M, X, {}, P)
      BY <1>3, <2>2 DEF Sound
    <2> QED
      BY <1>1, <2>1, <2>3
  <1>4. CASE m \in o.inFlight \cap o.queued
    <2>1. m \in S .. N - 1
      BY <1>4 DEF Sound
    <2>2. ~IsOldIn(o.txWindow, m)
      <3>1. ~(m < S)
        BY <1>1, <2>1
      <3>2. m \in o.queued \cup o.inFlight \cup {}
        BY <1>4
      <3> QED
        BY <3>1, <3>2, SoundPlace
    <2>3. CASE m < expiredBelow
      <3>1. HandleInFlight(o, m, outcome) = Do("DequeueAndDiscard", o, m)
        BY <1>4, <2>2, <2>3 DEF HandleInFlight, Do
      <3>2. {m} \subseteq o.queued \cup o.inFlight /\ {} \cup {m} = {m} /\ m \in {m}
        BY <1>4
      <3>3. Sound(o, S, N, M, X, {} \cup {m}, P)
        BY <3>2, SoundHolds
      <3>4. X \subseteq X \cup {m}
        OBVIOUS
      <3>5. Sound(o, S, N, M, X \cup {m}, {m}, P)
        BY <3>2, <3>3, <3>4, SoundWeakens
      <3>6. "DequeueAndDiscard" \in Discards
        BY DEF Discards
      <3>7. \E T \in Nat : Sound(Do("DequeueAndDiscard", o, m), T, N, M, X, {m}, P)
        BY <3>2, <3>5, <3>6, GiveUpSound
      <3> QED
        BY <3>1, <3>7, SoundWeakens
    <2>4. CASE ~(m < expiredBelow) /\ outcome = "STAY_INFLIGHT"
      <3>1. HandleInFlight(o, m, outcome) = o
        BY <1>4, <2>2, <2>4 DEF HandleInFlight
      <3> QED
        BY <1>1, <3>1
    <2>5. CASE ~(m < expiredBelow) /\ outcome # "STAY_INFLIGHT"
      <3> DEFINE p == [o EXCEPT !.retry = @ \cup {m}, !.inFlight = @ \ {m}]
      <3>1. HandleInFlight(o, m, outcome) = p
        BY <1>4, <2>2, <2>5 DEF HandleInFlight
      <3>2. m \in Mpdus /\ m \in 0 .. N - 1
        BY <1>1, <1>4, <2>1 DEF BA
      <3>3. /\ p.txWindow = o.txWindow /\ p.inFlight = o.inFlight \ {m}
            /\ p.queued = o.queued /\ p.retry = o.retry \cup {m} /\ p.bar = o.bar /\ p \in BA
        BY <1>1, <3>2 DEF BA
      <3> HIDE DEF p
      <3>4. Sound(p, S, N, M, X, {}, P)
        BY <3>2, <3>3 DEF Sound
      <3> QED
        BY <1>1, <3>1, <3>4
    <2> QED
      BY <2>3, <2>4, <2>5
  <1> QED
    BY <1>2, <1>3, <1>4

LEMMA AllHandledSound ==
  ASSUME NEW P, NEW o, NEW S \in Nat, NEW N, NEW M, NEW X, NEW D, D \subseteq Mpdus,
         NEW method \in {"ToRetransmit", "HandleIfFirst"}, Sound(o, S, N, M, X, {}, P)
  PROVE  \E T \in Nat : Sound(ForEach(method, o, D), T, N, M, X, {}, P)
  <1>1. o \in BA \cap BA
    BY SoundNumbers
  <1>2. \A R : X \cup (R \cap {}) = X /\ {} \cup (R \cap {}) = {}
    OBVIOUS
  <1>3. ASSUME NEW n \in D, NEW R \in SUBSET D, NEW p \in BA \cap BA, NEW Z \in Nat,
               Sound(p, Z, N, M, X \cup ((R \cup {n}) \cap {}), {} \cup ((R \cup {n}) \cap {}), P)
        PROVE  /\ Do(method, p, n) \in BA
               /\ \E T \in Nat : Sound(Do(method, p, n), T, N, M,
                                       X \cup (R \cap {}), {} \cup (R \cap {}), P)
    <2>1. Sound(p, Z, N, M, X, {}, P)
      BY <1>2, <1>3
    <2>2. \E outcome : \/ Do(method, p, n) = HandleInFlight(p, n, outcome)
                       \/ Do(method, p, n) = p
      BY DEF Do, ToRetransmit, HandleIfFirst
    <2>3. \E T \in Nat : Sound(Do(method, p, n), T, N, M, X, {}, P)
      BY <2>1, <2>2, HandleSound
    <2>4. Do(method, p, n) \in BA
      BY <2>3, SoundNumbers
    <2> QED
      BY <1>2, <2>3, <2>4
  <1>4. Sound(o, S, N, M, X \cup (D \cap {}), {} \cup (D \cap {}), P)
    BY <1>2
  <1> QED
    BY <1>1, <1>3, <1>4, ForEachSound

-----------------------------------------------------------------------------
(***************************************************************************)
(* What leaves the queues or enters them                                   *)
(***************************************************************************)
\* A scheduled BlockAckReq says nothing of the MPDUs.
LEMMA BarSound ==
  ASSUME NEW P, NEW o, NEW S, NEW N, NEW M, NEW X, NEW H, NEW b \in Bars \ {"none"}, Sound(o, S, N, M, X, H, P)
  PROVE  Sound([o EXCEPT !.bar = b], S, N, M, X, H, P)
  <1> DEFINE p == [o EXCEPT !.bar = b]
  <1>1. /\ p.txWindow = o.txWindow /\ p.inFlight = o.inFlight /\ p.queued = o.queued
        /\ p.retry = o.retry /\ p.bar = b /\ p \in BA
    BY SoundNumbers DEF BA
  <1> HIDE DEF p
  <1>2. Sound(p, S, N, M, X, H, P)
    BY <1>1 DEF Sound
  <1> QED
    BY <1>2 DEF p

\* Sequence numbers that were never on the air are given back.
LEMMA ReleaseSound ==
  ASSUME NEW P, NEW o, NEW S, NEW N, NEW M, NEW X, NEW H, Sound(o, S, N, M, X, H, P)
  PROVE  Sound([o EXCEPT !.queued = @ \ (N .. M - 1)], S, N, N, X \ (N .. M - 1), {}, P)
  <1> DEFINE p == [o EXCEPT !.queued = @ \ (N .. M - 1)]
  <1>1. /\ p.txWindow = o.txWindow /\ p.inFlight = o.inFlight /\ p.queued = o.queued \ (N .. M - 1)
        /\ p.retry = o.retry /\ p.bar = o.bar /\ p \in BA
    BY SoundNumbers DEF BA
  <1> HIDE DEF p
  <1>2. S \in Nat /\ N \in Nat /\ M \in Nat /\ S <= N /\ N <= M /\ M <= S + WinSize /\ M <= MaxMpdu
    BY SoundNumbers
  <1>3. N \in 0 .. MaxMpdu /\ N \in 0 .. N /\ S \in 0 .. N /\ N <= S + WinSize
    BY <1>2, ConstantTypes
  <1>4. ASSUME NEW m \in p.queued \cup {}
        PROVE  /\ m \in 0 .. N - 1 /\ N <= m + WinSize
               /\ m >= S /\ m < N => m \in p.retry \cup p.inFlight
    BY <1>1, <1>2, ConstantTypes DEF Sound
  <1>5. S .. N - 1 \subseteq p.queued \cup (X \ (N .. M - 1)) \cup Acked(p.txWindow, S)
    BY <1>1, <1>2 DEF Sound
  <1>6. p.queued \subseteq (N .. N - 1) \cup p.retry \cup p.inFlight
    BY <1>1 DEF Sound
  <1>7. /\ p.txWindow.winStart = SeqOfMpdu(S) /\ S \notin Acked(p.txWindow, S)
        /\ Acked(p.txWindow, S) \subseteq (S .. N - 1) \ (p.queued \cup p.inFlight \cup {})
        /\ p.inFlight \subseteq S .. N - 1 /\ p.retry \subseteq 0 .. N - 1
    BY <1>1 DEF Sound
  <1> QED
    BY <1>1, <1>3, <1>4, <1>5, <1>6, <1>7 DEF Sound, p

\* WipeAllExpiredMpdus
LEMMA WipeSound ==
  ASSUME NEW P, NEW o, NEW S \in Nat, NEW N, NEW M, NEW X, NEW H, Sound(o, S, N, M, X, H, P)
  PROVE  /\ \E T \in Nat : Sound(Wipe(o), T, N, M, X, H, P)
         /\ Wipe(o).retry = o.retry /\ Wipe(o).inFlight \subseteq o.inFlight
  <1> DEFINE D == {m \in o.queued : m < expiredBelow}
             p == [o EXCEPT !.queued = @ \ D]
  <1>1. D \subseteq o.queued \cup o.inFlight
    OBVIOUS
  <1>2. Wipe(o) = ForEach("Discard", p, D)
    BY DEF Wipe
  <1>3. p.retry = o.retry /\ p.inFlight = o.inFlight
    BY SoundNumbers DEF BA
  <1>4. "Discard" \in Discards
    BY DEF Discards
  <1> HIDE DEF D
  <1>5. Sound(o, S, N, M, X, H \cup D, P)
    BY <1>1, SoundHolds
  <1>6. Sound(p, S, N, M, X \cup D, H \cup D, P)
    BY <1>5, DequeueSound
  <1> HIDE DEF p
  <1>7. /\ \E T \in Nat : Sound(ForEach("Discard", p, D), T, N, M, X, H, P)
        /\ ForEach("Discard", p, D) \in LeftOf(p)
    BY <1>4, <1>6, AllGivenUpSound
  <1> QED
    BY <1>2, <1>3, <1>7 DEF LeftOf

\* PeekNextMpdu, between exchanges: what is left lies within the window.
LEMMA DropOldSound ==
  ASSUME NEW P, NEW o, NEW S \in Nat, NEW N, NEW X, Sound(o, S, N, N, X, {}, P)
  PROVE  /\ Sound(DropOld(o), S, N, N, X, {}, P)
         /\ \A m \in DropOld(o).queued : m >= S
         /\ DropOld(o).txWindow = o.txWindow /\ DropOld(o).inFlight = o.inFlight
         /\ DropOld(o).retry = o.retry
  <1> DEFINE p == DropOld(o)
  <1>1. S \in Nat /\ N \in Nat /\ S <= N /\ o \in BA
    BY SoundNumbers
  <1>2. \A m \in o.queued : m \in Nat /\ m \in o.retry \cup o.inFlight /\ (IsOldIn(o.txWindow, m) <=> m < S)
    <2> TAKE m \in o.queued
    <2>1. m \in o.queued \cup o.inFlight \cup {}
      OBVIOUS
    <2>2. m \in Nat /\ m < N /\ (IsOldIn(o.txWindow, m) <=> m < S)
      BY <2>1, SoundPlace
    <2>3. m \in (N .. N - 1) \cup o.retry \cup o.inFlight
      BY DEF Sound
    <2> QED
      BY <1>1, <2>2, <2>3
  <1>3. /\ p.txWindow = o.txWindow /\ p.inFlight = o.inFlight /\ p.retry = o.retry
        /\ p.queued = {m \in o.queued : m \in o.retry \cup o.inFlight => ~IsOldIn(o.txWindow, m)}
        /\ p.bar = o.bar /\ p \in BA
    BY <1>1 DEF DropOld, BA
  <1>4. p.queued = {m \in o.queued : m >= S}
    BY <1>1, <1>2, <1>3
  <1> HIDE DEF p
  <1>5. S .. N - 1 \subseteq p.queued \cup X \cup Acked(p.txWindow, S)
    BY <1>1, <1>3, <1>4 DEF Sound
  <1>6. Sound(p, S, N, N, X, {}, P)
    BY <1>3, <1>4, <1>5 DEF Sound
  <1> QED
    BY <1>3, <1>4, <1>6 DEF p

-----------------------------------------------------------------------------
(***************************************************************************)
(* Transmissions                                                           *)
(***************************************************************************)
LEMMA StoreAll ==
  ASSUME NEW P, NEW o, NEW S, NEW N, NEW M, NEW X, NEW D, Sound(o, S, N, M, X, D, P)
  PROVE  ForEach("Store", o, D) = [o EXCEPT !.inFlight = @ \cup {m \in D : m >= S}]
  <1> DEFINE Stored(n) == {m \in D : m >= S /\ m < n}
             After(n) == [o EXCEPT !.inFlight = @ \cup Stored(n)]
             G == {<<n, After(n)>> : n \in Nat}
  <1>1. S \in Nat /\ M \in Nat /\ M <= MaxMpdu /\ M <= S + WinSize /\ o \in BA
    BY SoundNumbers
  <1>2. \A n \in D : /\ n \in Nat /\ n < M
                     /\ IsOldIn(o.txWindow, n) <=> n < S
                     /\ n >= S => Distance(SeqOfMpdu(n), o.txWindow.winStart) < WinSize
    BY SoundPlace DEF IsInWindow
  <1>3. <<0, o>> \in G
    <2>1. Stored(0) = {}
      BY <1>2
    <2>2. After(0) = o
      <3> HIDE DEF Stored
      <3> QED
        BY <1>1, <2>1 DEF BA
    <2> QED
      BY <2>2
  <1>4. ASSUME NEW n \in 0 .. MaxMpdu - 1, NEW p, <<n, p>> \in G
        PROVE  <<n + 1, Turn("Store", D, p, n)>> \in G
    <2>1. n \in Nat /\ n + 1 \in Nat
      BY ConstantTypes
    <2>2. p = After(n)
      <3> HIDE DEF After
      <3> QED
        BY <1>4, <2>1
    <2>3. p \in [txWindow: Windows, inFlight: SUBSET (Mpdus \cup D), queued: SUBSET Mpdus,
                 retry: SUBSET Mpdus, bar: Bars]
          /\ p.txWindow = o.txWindow
      BY <1>1, <2>2 DEF BA
    <2>4. Turn("Store", D, p, n) = After(n + 1)
      <3>1. CASE n \in D /\ n >= S
        <4>1. AfterTransmitted(p.txWindow, SeqOfMpdu(n)) = p.txWindow
          <5>1. Distance(SeqOfMpdu(n), p.txWindow.winStart) \notin WinSize .. SeqHalf - 1
            BY <1>2, <2>3, <3>1, ConstantTypes
          <5> QED
            BY <5>1 DEF AfterTransmitted
        <4>2. Turn("Store", D, p, n) =
                [p EXCEPT !.txWindow = p.txWindow, !.inFlight = @ \cup {n}]
          BY <1>1, <1>2, <2>3, <3>1, <4>1 DEF Turn, Do, Store
        <4>3. Stored(n + 1) = Stored(n) \cup {n}
          <5>1. \A m \in D : m < n + 1 <=> m < n \/ m = n
            BY <1>2, <2>1
          <5> QED
            BY <3>1, <5>1
        <4> HIDE DEF Stored
        <4> QED
          BY <1>1, <2>2, <2>3, <4>2, <4>3 DEF BA
      <3>2. CASE ~(n \in D /\ n >= S)
        <4>1. Turn("Store", D, p, n) = p
          BY <1>1, <1>2, <2>1, <2>3, <3>2 DEF Turn, Do, Store
        <4>2. Stored(n + 1) = Stored(n)
          BY <1>1, <1>2, <2>1, <3>2
        <4> HIDE DEF Stored
        <4> QED
          BY <2>2, <4>1, <4>2
      <3> QED
        BY <3>1, <3>2
    <2> HIDE DEF After
    <2> QED
      BY <2>1, <2>4
  <1> HIDE DEF G
  <1>5. <<MaxMpdu, ForEach("Store", o, D)>> \in G
    BY <1>3, <1>4, ForEachKeeps
  <1>6. ForEach("Store", o, D) = After(MaxMpdu)
    <2> HIDE DEF After
    <2> QED
      BY <1>5 DEF G
  <1>7. Stored(MaxMpdu) = {m \in D : m >= S}
    BY <1>1, <1>2, ConstantTypes
  <1> HIDE DEF Stored
  <1> QED
    BY <1>6, <1>7

\* MPDUs that leave for the air, the new ones among them.
LEMMA StoreSound ==
  ASSUME NEW P, NEW o, NEW S, NEW N, NEW M, NEW X, NEW D, Sound(o, S, N, M, X, D, P),
         N .. M - 1 \subseteq D, N .. M - 1 \subseteq o.queued \cup X
  PROVE  Sound(ForEach("Store", o, D), S, M, M, X, D, P)
  <1> DEFINE p == ForEach("Store", o, D)
             E == {m \in D : m >= S}
  <1>1. /\ S \in Nat /\ N \in Nat /\ M \in Nat /\ S <= N /\ N <= M /\ M <= MaxMpdu
        /\ M <= S + WinSize /\ o \in BA
    BY SoundNumbers
  <1>2. \A m \in D : m \in Mpdus /\ m < M
    BY <1>1, ConstantTypes DEF Sound, Mpdus
  <1>3. /\ p.txWindow = o.txWindow /\ p.inFlight = o.inFlight \cup E /\ p.queued = o.queued
        /\ p.retry = o.retry /\ p.bar = o.bar /\ p \in BA
    <2>1. E \subseteq Mpdus
      BY <1>2
    <2> HIDE DEF E
    <2>2. p = [o EXCEPT !.inFlight = @ \cup E]
      BY StoreAll DEF E
    <2> QED
      BY <1>1, <2>1, <2>2 DEF BA
  <1> HIDE DEF p
  <1>4. \A m \in D : m \in Nat /\ (m >= S => m \in p.inFlight)
    BY <1>2, <1>3, ConstantTypes DEF Mpdus
  <1>5. M \in 0 .. MaxMpdu /\ M \in 0 .. M /\ S \in 0 .. M
    BY <1>1, ConstantTypes
  <1>6. Acked(p.txWindow, S) \subseteq (S .. M - 1) \ (p.queued \cup p.inFlight \cup D)
    BY <1>1, <1>3 DEF Sound
  <1>7. p.inFlight \subseteq S .. M - 1 /\ p.retry \subseteq 0 .. M - 1
    BY <1>1, <1>2, <1>3, <1>4 DEF Sound
  <1>8. \A m \in N .. M - 1 : m \in p.inFlight
    BY <1>1, <1>4
  <1>9. p.queued \subseteq (M .. M - 1) \cup p.retry \cup p.inFlight
    BY <1>3, <1>8 DEF Sound
  <1>10. ASSUME NEW m \in p.queued \cup D
         PROVE  /\ m \in 0 .. M - 1 /\ M <= m + WinSize
                /\ m >= S /\ m < M => m \in p.retry \cup p.inFlight
    <2>1. /\ m \in 0 .. M - 1 /\ M <= m + WinSize
          /\ m >= S /\ m < N => m \in o.retry \cup o.inFlight
      BY <1>3 DEF Sound
    <2> QED
      BY <1>1, <1>3, <1>8, <2>1
  <1>11. S .. M - 1 \subseteq p.queued \cup X \cup Acked(p.txWindow, S)
    <2>1. \A m \in S .. M - 1 : m \in S .. N - 1 \/ m \in N .. M - 1
      BY <1>1
    <2> QED
      BY <1>3, <2>1 DEF Sound
  <1>12. p.txWindow.winStart = SeqOfMpdu(S) /\ S \notin Acked(p.txWindow, S)
    BY <1>3 DEF Sound
  <1> QED
    BY <1>1, <1>3, <1>5, <1>6, <1>7, <1>9, <1>10, <1>11, <1>12 DEF Sound, p

LEMMA MinOf ==
  ASSUME NEW A, A # {}, A \subseteq Nat
  PROVE  Min(A) \in A /\ \A x \in A : Min(A) <= x
  <1> DEFINE Less == {ss \in Nat \X Nat : ss[1] < ss[2]}
  <1>1. IsWellFoundedOn(Less, Nat)
    BY NatLessThanWellFounded DEF OpToRel
  <1>2. PICK k \in A : \A x \in A : ~(<<x, k>> \in Less)
    <2> HIDE DEF Less
    <2> QED
      BY <1>1, WFMin
  <1>3. ASSUME NEW x \in A
        PROVE  k <= x
    <2>1. ~(<<x, k>> \in Nat \X Nat /\ x < k)
      BY <1>2
    <2> QED
      BY <2>1
  <1> QED
    BY <1>3 DEF Min

LEMMA MaxOf ==
  ASSUME NEW A, NEW b \in Int, A # {}, \A x \in A : x \in Int /\ x <= b
  PROVE  Max(A) \in A /\ \A x \in A : x <= Max(A)
  <1> DEFINE B == {b - x : x \in A}
  <1>1. B # {} /\ B \subseteq Nat
    OBVIOUS
  <1>2. PICK k \in B : \A y \in B : k <= y
    <2> HIDE DEF B
    <2> QED
      BY <1>1, MinOf
  <1>3. PICK x \in A : k = b - x
    OBVIOUS
  <1>4. \A y \in A : y <= x
    <2> TAKE y \in A
    <2>1. b - y \in B
      OBVIOUS
    <2> HIDE DEF B
    <2>2. b - x <= b - y
      BY <1>2, <1>3, <2>1
    <2> QED
      BY <2>2
  <1> QED
    BY <1>4 DEF Max

\* What PeekNextMpdu may find between exchanges: retries, and new MPDUs.
LEMMA AvailableMeans ==
  ASSUME NEW P, NEW o, NEW S, NEW X, Sound(o, S, nextMpdu, nextMpdu, X, {}, P),
         NEW m \in Available(o)
  PROVE  /\ m \in Mpdus /\ S <= m /\ m < S + WinSize
         /\ m < nextMpdu => m \in o.queued \cap o.retry
         /\ m >= nextMpdu => nextMpdu .. m \subseteq Available(o)
  <1>1. /\ S \in Nat /\ nextMpdu \in Nat /\ S <= nextMpdu /\ nextMpdu <= S + WinSize
        /\ nextMpdu <= MaxMpdu /\ o \in BA /\ o.txWindow.winStart = SeqOfMpdu(S)
    BY SoundNumbers
  <1>2. CASE m \in o.queued \ o.inFlight /\ IsInWindow(o.txWindow, m)
    <2>1. m \in Mpdus /\ m \in Nat
      BY <1>1, <1>2, ConstantTypes DEF BA, Mpdus
    <2>2. m \in o.queued \cup o.inFlight \cup {}
      BY <1>2
    <2>3. m < nextMpdu /\ S <= m
      BY <1>2, <2>2, SoundPlace
    <2>4. m \in (nextMpdu .. nextMpdu - 1) \cup o.retry \cup o.inFlight
      BY <1>2 DEF Sound
    <2>5. m \in o.queued \cap o.retry
      BY <1>1, <1>2, <2>1, <2>4
    <2>6. m < S + WinSize /\ ~(m >= nextMpdu)
      BY <1>1, <2>1, <2>3, ConstantTypes
    <2> QED
      BY <2>1, <2>3, <2>5, <2>6
  <1>3. CASE /\ m \in nextMpdu .. MaxMpdu - 1
             /\ \A n \in nextMpdu .. m : IsInWindow(o.txWindow, n)
    <2>1. m \in Mpdus /\ m \in Nat /\ S <= m /\ nextMpdu <= m /\ m < MaxMpdu
      BY <1>1, <1>3, ConstantTypes DEF Mpdus
    <2>2. m < S + WinSize
      <3> SUFFICES ASSUME m >= S + WinSize
                   PROVE  FALSE
        BY <1>1, <2>1, ConstantTypes
      <3> DEFINE n == S + WinSize
      <3>1. n \in Nat /\ n \in nextMpdu .. m /\ S <= n /\ n < S + SeqSpace /\ n - S = WinSize
        BY <1>1, <2>1, ConstantTypes
      <3> HIDE DEF n
      <3>2. Distance(SeqOfMpdu(n), SeqOfMpdu(S)) = WinSize
        BY <1>1, <3>1, DistanceAhead
      <3>3. Distance(SeqOfMpdu(n), SeqOfMpdu(S)) < WinSize
        BY <1>1, <1>3, <3>1 DEF IsInWindow
      <3> QED
        BY <3>2, <3>3, ConstantTypes
    <2>3. ASSUME NEW k \in nextMpdu .. m
          PROVE  k \in Available(o)
      <3>1. k \in nextMpdu .. MaxMpdu - 1
        BY <1>1, <2>1, ConstantTypes
      <3>2. \A n \in nextMpdu .. k : n \in nextMpdu .. m
        BY <1>1, <2>1
      <3> QED
        BY <1>3, <3>1, <3>2 DEF Available
    <2> QED
      BY <1>1, <2>1, <2>2, <2>3
  <1> QED
    BY <1>2, <1>3 DEF Available

\* The MPDUs of a PSDU are within the window, and those of them that are new take
\* the next numbers.
LEMMA PsduMeans ==
  ASSUME NEW P, NEW o, NEW S, NEW X, Sound(o, S, nextMpdu, nextMpdu, X, {}, P),
         NEW psdu \in Psdus(Available(o)),
         NEW M, M = Max(psdu \cup {nextMpdu - 1}) + 1
  PROVE  /\ M \in nextMpdu .. MaxMpdu /\ M <= S + WinSize
         /\ psdu # {} /\ psdu \subseteq Mpdus /\ psdu \subseteq S .. M - 1
         /\ nextMpdu .. M - 1 \subseteq psdu
         /\ \A m \in psdu : m < nextMpdu => m \in o.queued \cap o.retry
  <1> DEFINE A == psdu \cup {nextMpdu - 1}
  <1>1. /\ S \in Nat /\ nextMpdu \in Nat /\ S <= nextMpdu /\ nextMpdu <= S + WinSize
        /\ nextMpdu <= MaxMpdu
    BY SoundNumbers
  <1>2. /\ psdu \subseteq Available(o) /\ psdu # {}
        /\ \A m \in psdu, n \in Available(o) \ psdu : m < n
    <2>1. Cardinality(psdu) \in 1 .. MaxAmpdu
      BY DEF Psdus
    <2>2. psdu # {}
      BY <2>1, FS_EmptySet
    <2> QED
      BY <2>2 DEF Psdus
  <1>3. \A m \in psdu : /\ m \in Mpdus /\ S <= m /\ m < S + WinSize /\ m \in Nat /\ m < MaxMpdu
                        /\ m < nextMpdu => m \in o.queued \cap o.retry
                        /\ m >= nextMpdu => nextMpdu .. m \subseteq Available(o)
    BY <1>2, AvailableMeans, ConstantTypes DEF Mpdus
  <1>4. \A x \in A : x \in Int /\ x <= MaxMpdu
    BY <1>1, <1>3, ConstantTypes
  <1>5. M - 1 \in A /\ M \in Int /\ \A x \in A : x <= M - 1
    <2>1. MaxMpdu \in Int /\ A # {}
      BY ConstantTypes
    <2> HIDE DEF A
    <2>2. Max(A) \in A /\ \A x \in A : x <= Max(A)
      BY <1>4, <2>1, MaxOf
    <2>3. M = Max(A) + 1 /\ Max(A) \in Int
      BY <1>4, <2>2 DEF A
    <2>4. M - 1 = Max(A) /\ M \in Int
      BY <2>3
    <2> QED
      BY <2>2, <2>4
  <1>6. M \in Int /\ nextMpdu <= M
    <2>1. nextMpdu - 1 <= M - 1
      BY <1>5
    <2> QED
      BY <1>1, <1>5, <2>1
  <1>7. M = nextMpdu \/ M - 1 \in psdu
    BY <1>1, <1>5, <1>6
  <1>8. M <= MaxMpdu /\ M <= S + WinSize
    BY <1>1, <1>3, <1>6, <1>7, ConstantTypes
  <1>9. psdu \subseteq S .. M - 1
    <2>1. \A m \in psdu : m <= M - 1
      BY <1>5
    <2> QED
      BY <1>1, <1>3, <1>6, <2>1
  <1>10. ASSUME NEW n \in nextMpdu .. M - 1
         PROVE  n \in psdu
    <2>1. M - 1 \in psdu /\ M - 1 >= nextMpdu /\ n <= M - 1
      BY <1>1, <1>6, <1>7
    <2>2. n \in nextMpdu .. (M - 1)
      BY <1>10
    <2>3. n \in Available(o)
      BY <1>3, <2>1, <2>2
    <2>4. ~(M - 1 < n)
      BY <1>6, <2>1
    <2> QED
      BY <1>2, <2>1, <2>3, <2>4
  <1> QED
    BY <1>1, <1>2, <1>3, <1>6, <1>8, <1>9, <1>10

-----------------------------------------------------------------------------
(***************************************************************************)
(* The steps                                                               *)
(***************************************************************************)
\* Unless a CTS is awaited all numbers have been on the air.
LEMMA AllOnAir ==
  ASSUME NEW P, IInv(P), exchange.step # "cts"
  PROVE  \E S \in Nat : Sound(ba, S, nextMpdu, nextMpdu, overtaken, exchange.mpdus, P)
  BY DEF IInv, SoundFrom, Unsent

LEMMA IdleSound ==
  ASSUME NEW P, IInv(P), exchange.step = "idle"
  PROVE  \E S \in Nat : Sound(ba, S, nextMpdu, nextMpdu, overtaken, {}, P)
  BY AllOnAir DEF IInv

LEMMA Restored ==
  ASSUME NEW P, exchange' \in Exchanges, exchange'.step # "cts",
         exchange'.step = "idle" => exchange'.mpdus = {},
         \E S \in Nat : Sound(ba', S, nextMpdu', nextMpdu', overtaken', exchange'.mpdus, P)
  PROVE  IInv(P)'
  BY DEF IInv, SoundFrom, Unsent

LEMMA EndsIdle ==
  ASSUME NEW P, exchange' = Idle, \E S \in Nat : Sound(ba', S, nextMpdu', nextMpdu', overtaken', {}, P)
  PROVE  IInv(P)'
  <1>1. exchange' \in Exchanges /\ exchange'.step = "idle" /\ exchange'.mpdus = {}
    BY DEF Idle, Exchanges
  <1> QED
    BY <1>1, Restored

\* SendPsdu or SendMpdu, of new MPDUs and retries.
LEMMA TransmitKeeps ==
  ASSUME NEW P, NEW o, NEW S \in Nat, NEW N, NEW D, NEW inTxop,
         NEW method \in {"none", "later", "ack", "blockack", "bar"},
         Sound(o, S, N, nextMpdu', overtaken', D, P), D \subseteq Mpdus,
         N .. nextMpdu' - 1 \subseteq D, N .. nextMpdu' - 1 \subseteq o.queued \cup overtaken',
         Transmit(o, D, method, inTxop)
  PROVE  IInv(P)'
  <1> DEFINE scheduled == IF method = "later" THEN [o EXCEPT !.bar = "always"] ELSE o
  <1>1. /\ ba' = ForEach("Store", scheduled, D)
        /\ IF method \in {"none", "later"} THEN EndExchange(TxopLimited)
           ELSE /\ exchange' = [step |-> "response", method |-> method, mpdus |-> D]
                /\ txop' = inTxop
    BY DEF Transmit
  <1>2. Sound(scheduled, S, N, nextMpdu', overtaken', D, P)
    BY BarSound DEF Bars
  <1>3. scheduled.queued = o.queued
    BY SoundNumbers DEF BA
  <1> HIDE DEF scheduled
  <1>4. Sound(ba', S, nextMpdu', nextMpdu', overtaken', D, P)
    BY <1>1, <1>2, <1>3, StoreSound
  <1>5. CASE method \in {"none", "later"}
    <2>1. exchange' = Idle
      BY <1>1, <1>5 DEF EndExchange
    <2>2. Sound(ba', S, nextMpdu', nextMpdu', overtaken', {}, P)
      BY <1>4, SoundWeakens
    <2> QED
      BY <2>1, <2>2, EndsIdle
  <1>6. CASE method \notin {"none", "later"}
    <2>1. exchange' = [step |-> "response", method |-> method, mpdus |-> D]
      BY <1>1, <1>6
    <2>2. exchange' \in Exchanges /\ exchange'.step = "response" /\ exchange'.mpdus = D
      BY <2>1 DEF Exchanges
    <2> QED
      BY <1>4, <2>2, Restored
  <1> QED
    BY <1>5, <1>6

LEMMA InitSound == \A P : Init /\ P.from = 0 /\ P.sent = 0 => IInv(P)
  <1> SUFFICES ASSUME NEW P, Init, P.from = 0, P.sent = 0
               PROVE  IInv(P)
    OBVIOUS
  <1>1. /\ ba = [txWindow |-> InitWindow(StartingSeq),
                 inFlight |-> {}, queued |-> {}, retry |-> {}, bar |-> "none"]
        /\ nextMpdu = 0 /\ exchange = Idle /\ overtaken = {}
    BY DEF Init
  <1> DEFINE w == InitWindow(StartingSeq)
  <1>2. w \in Windows /\ w.winStart = StartingSeq /\ Marked(w) = {}
    BY BlockAckManagerAssumption, InitWindowEmpty DEF InitWindow
  <1>3. SeqOfMpdu(0) = StartingSeq
    BY BlockAckManagerAssumption, ConstantTypes DEF SeqOfMpdu, SeqNos
  <1> HIDE DEF w
  <1>4. Acked(w, 0) = {}
    BY <1>2 DEF Acked
  <1>5. /\ ba.txWindow = w /\ ba.inFlight = {} /\ ba.queued = {} /\ ba.retry = {} /\ ba \in BA
    BY <1>1, <1>2 DEF BA, Bars, w
  <1>6. Sound(ba, 0, 0, 0, {}, {}, P)
    BY <1>2, <1>3, <1>4, <1>5, ConstantTypes DEF Sound
  <1>7. exchange \in Exchanges /\ exchange.step = "idle" /\ exchange.mpdus = {}
    BY <1>1 DEF Idle, Exchanges
  <1> QED
    BY <1>1, <1>6, <1>7 DEF IInv, SoundFrom, Unsent

\* No BlockAckReq is scheduled any more: its recipient will know that all before
\* the start of the window are given up.
LEMMA SendBarSound ==
  ASSUME NEW P, IInv(P), SendBar
  PROVE  \E U \in Nat :
            /\ ba'.txWindow.winStart = SeqOfMpdu(U)
            /\ Sound(ba', U, nextMpdu, nextMpdu, overtaken, {},
                     [from |-> U, sent |-> nextMpdu, got |-> P.got \cup (0 .. U - 1)])
            /\ P.from <= U
  <1>1. exchange.step = "idle" /\ ba' = [Wipe(ba) EXCEPT !.bar = "none"]
    BY DEF SendBar, CanSendBar
  <1>2. PICK S \in Nat : Sound(ba, S, nextMpdu, nextMpdu, overtaken, {}, P)
    BY <1>1, IdleSound
  <1>3. PICK U \in Nat : Sound(Wipe(ba), U, nextMpdu, nextMpdu, overtaken, {}, P)
    BY <1>2, WipeSound
  <1> DEFINE o == Wipe(ba)
             Q == [from |-> U, sent |-> nextMpdu, got |-> P.got \cup (0 .. U - 1)]
  <1>4. U <= nextMpdu /\ nextMpdu \in Nat /\ o \in BA /\ P.from <= U
        /\ o.txWindow.winStart = SeqOfMpdu(U)
    BY <1>3, SoundNumbers DEF Sound
  <1> HIDE DEF o
  <1>5. /\ ba'.txWindow = o.txWindow /\ ba'.inFlight = o.inFlight /\ ba'.queued = o.queued
        /\ ba'.retry = o.retry /\ ba' \in BA
    BY <1>1, <1>4 DEF BA, Bars, o
  <1>6. /\ Q.from \in 0 .. U /\ Q.sent \in 0 .. nextMpdu
        /\ P.got \subseteq Q.got /\ 0 .. U - 1 \subseteq Q.got
    BY <1>4
  <1> HIDE DEF Q
  <1>7. Sound(o, U, nextMpdu, nextMpdu, overtaken, {}, P)
    BY <1>3 DEF o
  <1>8. Sound(ba', U, nextMpdu, nextMpdu, overtaken, {}, Q)
    BY <1>5, <1>6, <1>7 DEF Sound
  <1> QED
    BY <1>4, <1>5, <1>8 DEF Q

LEMMA SendBarKeeps == IInv(Free) /\ SendBar => IInv(Free)'
  <1> SUFFICES ASSUME IInv(Free), SendBar
               PROVE  IInv(Free)'
    OBVIOUS
  <1>1. /\ exchange' = [step |-> "response", method |-> "bar", mpdus |-> {}]
        /\ nextMpdu' = nextMpdu /\ overtaken' = overtaken
    BY DEF SendBar
  <1>2. PICK U \in Nat : Sound(ba', U, nextMpdu, nextMpdu, overtaken, {},
                   [from |-> U, sent |-> nextMpdu, got |-> Free.got \cup (0 .. U - 1)])
    BY SendBarSound
  <1>3. nextMpdu \in Nat
    BY <1>2, SoundNumbers
  <1>4. Sound(ba', U, nextMpdu, nextMpdu, overtaken, {}, Free)
    BY <1>2, <1>3, SoundForgets DEF Free
  <1>5. exchange' \in Exchanges /\ exchange'.step = "response" /\ exchange'.mpdus = {}
    BY <1>1 DEF Exchanges
  <1> QED
    BY <1>1, <1>4, <1>5, Restored

LEMMA ReceiveAckKeeps == 
  \A P : IInv(P) /\ ReceiveAck /\ exchange.mpdus \subseteq P.got => IInv(P)'
  <1> SUFFICES ASSUME NEW P, IInv(P), ReceiveAck, exchange.mpdus \subseteq P.got
               PROVE  IInv(P)'
    OBVIOUS
  <1>1. /\ exchange.step # "cts" /\ ba' = ForEach("Acknowledge", ba, exchange.mpdus)
        /\ exchange' = Idle /\ nextMpdu' = nextMpdu /\ overtaken' = overtaken
    BY DEF ReceiveAck, EndExchange
  <1>2. PICK S \in Nat : Sound(ba, S, nextMpdu, nextMpdu, overtaken, exchange.mpdus, P)
    BY <1>1, AllOnAir
  <1>3. \E T \in Nat : Sound(ba', T, nextMpdu, nextMpdu, overtaken, {}, P)
    BY <1>1, <1>2, AllAcknowledgedSound
  <1> QED
    BY <1>1, <1>3, EndsIdle

LEMMA ReceiveBlockAckKeeps == 
  \A P, received : IInv(P) /\ ReceiveBlockAck(received) /\ ba.inFlight \cap received \subseteq P.got
                     => IInv(P)'
  <1> SUFFICES ASSUME NEW P, NEW received, IInv(P), ReceiveBlockAck(received),
                      ba.inFlight \cap received \subseteq P.got
               PROVE  IInv(P)'
    OBVIOUS
  <1> DEFINE D == ba.inFlight \cap received
             o == ForEach("Acknowledge", ba, D)
  <1>1. /\ exchange.step # "cts" /\ ba' = ForEach("ToRetransmit", o, o.inFlight)
        /\ exchange' = Idle /\ nextMpdu' = nextMpdu /\ overtaken' = overtaken
    BY DEF ReceiveBlockAck, EndExchange, NotifyGotBlockAck, NotifyMissedBlockAck
  <1>2. PICK S \in Nat : Sound(ba, S, nextMpdu, nextMpdu, overtaken, exchange.mpdus, P)
    BY <1>1, AllOnAir
  <1>3. Sound(ba, S, nextMpdu, nextMpdu, overtaken, {}, P)
    BY <1>2, SoundWeakens
  <1>4. D \subseteq ba.queued \cup ba.inFlight /\ {} \cup D = D /\ D \subseteq P.got
    OBVIOUS
  <1> HIDE DEF D
  <1>5. Sound(ba, S, nextMpdu, nextMpdu, overtaken, {} \cup D, P)
    BY <1>3, <1>4, SoundHolds
  <1>6. PICK T \in Nat : Sound(o, T, nextMpdu, nextMpdu, overtaken, {}, P)
    BY <1>4, <1>5, AllAcknowledgedSound
  <1> HIDE DEF o
  <1>7. o.inFlight \subseteq Mpdus
    BY <1>6, SoundNumbers DEF BA
  <1>8. \E U \in Nat : Sound(ForEach("ToRetransmit", o, o.inFlight), U, nextMpdu, nextMpdu, overtaken, {}, P)
    BY <1>6, <1>7, AllHandledSound
  <1> QED
    BY <1>1, <1>8, EndsIdle

\* Past the retry limit the MPDUs of the exchange are given up.
LEMMA GivesUpExchange ==
  ASSUME NEW P, IInv(P), exchange.step # "cts", NEW method \in Discards
  PROVE  \E T \in Nat : Sound(ForEach(method, ba, exchange.mpdus), T,
                              nextMpdu, nextMpdu, overtaken, {}, P)
  <1> DEFINE D == exchange.mpdus
  <1>1. PICK S \in Nat : Sound(ba, S, nextMpdu, nextMpdu, overtaken, D, P)
    BY AllOnAir
  <1>2. overtaken \subseteq overtaken \cup D /\ {} \cup D = D
    OBVIOUS
  <1> HIDE DEF D
  <1>3. Sound(ba, S, nextMpdu, nextMpdu, overtaken \cup D, {} \cup D, P)
    BY <1>1, <1>2, SoundWeakens
  <1>4. \E T \in Nat : Sound(ForEach(method, ba, D), T, nextMpdu, nextMpdu, overtaken, {}, P)
    BY <1>3, AllGivenUpSound
  <1> QED
    BY <1>4 DEF D

LEMMA AckTimeoutKeeps == \A P : IInv(P) /\ AckTimeout => IInv(P)'
  <1> SUFFICES ASSUME NEW P, IInv(P), AckTimeout
               PROVE  IInv(P)'
    OBVIOUS
  <1> DEFINE D == exchange.mpdus
             retried == [ba EXCEPT !.retry = @ \cup D]
  <1>1. /\ exchange.step # "cts" /\ exchange' = Idle
        /\ ba' \in {ForEach("DiscardAndDequeue", ba, D), ForEach("ToRetransmit", retried, D)}
        /\ nextMpdu' = nextMpdu /\ overtaken' = overtaken
    BY DEF AckTimeout, EndExchange
  <1>2. CASE ba' = ForEach("DiscardAndDequeue", ba, D)
    <2>1. "DiscardAndDequeue" \in Discards
      BY DEF Discards
    <2>2. \E T \in Nat : Sound(ba', T, nextMpdu, nextMpdu, overtaken, {}, P)
      BY <1>1, <1>2, <2>1, GivesUpExchange
    <2> QED
      BY <1>1, <2>2, EndsIdle
  <1>3. CASE ba' = ForEach("ToRetransmit", retried, D)
    <2>1. PICK S \in Nat : Sound(ba, S, nextMpdu, nextMpdu, overtaken, D, P)
      BY <1>1, AllOnAir
    <2>2. D \subseteq Mpdus /\ D \subseteq 0 .. nextMpdu - 1
      BY <2>1 DEF IInv, Exchanges, Sound
    <2> HIDE DEF D
    <2>3. /\ retried.txWindow = ba.txWindow /\ retried.inFlight = ba.inFlight
          /\ retried.queued = ba.queued /\ retried.retry = ba.retry \cup D
          /\ retried.bar = ba.bar /\ retried \in BA
      BY <2>1, <2>2, SoundNumbers DEF BA
    <2> HIDE DEF retried
    <2>4. Sound(retried, S, nextMpdu, nextMpdu, overtaken, {}, P)
      BY <2>1, <2>2, <2>3 DEF Sound
    <2>5. \E T \in Nat : Sound(ba', T, nextMpdu, nextMpdu, overtaken, {}, P)
      BY <1>3, <2>2, <2>4, AllHandledSound
    <2> QED
      BY <1>1, <2>5, EndsIdle
  <1> QED
    BY <1>1, <1>2, <1>3

LEMMA BlockAckTimeoutKeeps == \A P : IInv(P) /\ BlockAckTimeout => IInv(P)'
  <1> SUFFICES ASSUME NEW P, IInv(P), BlockAckTimeout
               PROVE  IInv(P)'
    OBVIOUS
  <1> DEFINE dropped == DropToFirstAlive(ba)
             bar == IF dropped.inFlight # {} THEN "always" ELSE "ifData"
  <1>1. /\ exchange.step # "cts" /\ exchange' = Idle
        /\ \/ ba' = [dropped EXCEPT !.bar = bar]
           \/ ba' = ForEach("DiscardAndDequeue", ba, exchange.mpdus)
           \/ ba' = NotifyMissedBlockAck(ba)
        /\ nextMpdu' = nextMpdu /\ overtaken' = overtaken
    BY DEF BlockAckTimeout, EndExchange
  <1>2. PICK S \in Nat : Sound(ba, S, nextMpdu, nextMpdu, overtaken, exchange.mpdus, P)
    BY <1>1, AllOnAir
  <1>3. Sound(ba, S, nextMpdu, nextMpdu, overtaken, {}, P) /\ ba.inFlight \subseteq Mpdus
    BY <1>2, SoundWeakens, SoundNumbers DEF BA
  <1>4. CASE ba' = [dropped EXCEPT !.bar = bar]
    <2>1. dropped = ForEach("HandleIfFirst", ba, ba.inFlight) /\ bar \in Bars \ {"none"}
      BY DEF DropToFirstAlive, Bars
    <2> HIDE DEF dropped, bar
    <2>2. \E T \in Nat : Sound(dropped, T, nextMpdu, nextMpdu, overtaken, {}, P)
      BY <1>3, <2>1, AllHandledSound
    <2>3. \E T \in Nat : Sound(ba', T, nextMpdu, nextMpdu, overtaken, {}, P)
      BY <1>4, <2>1, <2>2, BarSound
    <2> QED
      BY <1>1, <2>3, EndsIdle
  <1>5. CASE ba' = ForEach("DiscardAndDequeue", ba, exchange.mpdus)
    <2>1. "DiscardAndDequeue" \in Discards
      BY DEF Discards
    <2>2. \E T \in Nat : Sound(ba', T, nextMpdu, nextMpdu, overtaken, {}, P)
      BY <1>1, <1>5, <2>1, GivesUpExchange
    <2> QED
      BY <1>1, <2>2, EndsIdle
  <1>6. CASE ba' = NotifyMissedBlockAck(ba)
    <2>1. ba' = ForEach("ToRetransmit", ba, ba.inFlight)
      BY <1>6 DEF NotifyMissedBlockAck
    <2>2. \E T \in Nat : Sound(ba', T, nextMpdu, nextMpdu, overtaken, {}, P)
      BY <1>3, <2>1, AllHandledSound
    <2> QED
      BY <1>1, <2>2, EndsIdle
  <1> QED
    BY <1>1, <1>4, <1>5, <1>6

LEMMA DiscardOnCollisionKeeps == \A P : IInv(P) /\ DiscardOnCollision => IInv(P)'
  <1> SUFFICES ASSUME NEW P, IInv(P), DiscardOnCollision
               PROVE  IInv(P)'
    OBVIOUS
  <1> DEFINE o == DropOld(ba)
             m == Min(Available(o) \cap o.queued)
  <1>1. /\ exchange.step = "idle" /\ Available(o) \cap o.queued # {}
        /\ ba' = DequeueAndDiscard(o, m)
        /\ nextMpdu' = nextMpdu /\ overtaken' = overtaken /\ exchange' = exchange
    BY DEF DiscardOnCollision
  <1>2. PICK S \in Nat : Sound(ba, S, nextMpdu, nextMpdu, overtaken, {}, P)
    BY <1>1, IdleSound
  <1>3. Sound(o, S, nextMpdu, nextMpdu, overtaken, {}, P)
    BY <1>2, DropOldSound
  <1> HIDE DEF o
  <1>4. o.queued \subseteq Nat
    BY <1>3, SoundNumbers, ConstantTypes DEF BA, Mpdus
  <1>5. m \in o.queued
    BY <1>1, <1>4, MinOf
  <1> HIDE DEF m
  <1>6. {m} \subseteq o.queued \cup o.inFlight /\ {} \cup {m} = {m} /\ m \in {m}
        /\ overtaken \subseteq overtaken \cup {m} /\ "DequeueAndDiscard" \in Discards
    BY <1>5 DEF Discards
  <1>7. Sound(o, S, nextMpdu, nextMpdu, overtaken, {} \cup {m}, P)
    BY <1>3, <1>6, SoundHolds
  <1>8. Sound(o, S, nextMpdu, nextMpdu, overtaken \cup {m}, {m}, P)
    BY <1>6, <1>7, SoundWeakens
  <1>9. PICK T \in Nat : Sound(Do("DequeueAndDiscard", o, m), T, nextMpdu, nextMpdu, overtaken, {m}, P)
    BY <1>6, <1>8, GiveUpSound
  <1>10. Sound(ba', T, nextMpdu, nextMpdu, overtaken, {}, P)
    <2>1. ba' = Do("DequeueAndDiscard", o, m)
      BY <1>1 DEF Do
    <2> QED
      BY <1>9, <2>1, SoundWeakens
  <1>11. exchange' \in Exchanges /\ exchange'.step = "idle" /\ exchange'.mpdus = {}
    BY <1>1 DEF IInv
  <1> QED
    BY <1>1, <1>10, <1>11, Restored

\* Expired MPDUs leave at any time; after an RTS new ones among them may be overtaken.
LEMMA WipeExpiredKeeps == \A P : IInv(P) /\ WipeExpired => IInv(P)'
  <1> SUFFICES ASSUME NEW P, IInv(P), WipeExpired
               PROVE  IInv(P)'
    OBVIOUS
  <1>1. /\ ba' = Wipe(ba) /\ nextMpdu' = nextMpdu /\ exchange' = exchange
        /\ overtaken' = IF exchange.step = "cts"
                        THEN overtaken \cup ((New(ba) \cap ba.queued) \ ba'.queued)
                        ELSE overtaken
    BY DEF WipeExpired
  <1>2. PICK S \in Nat : SoundFrom(S, P)
    BY DEF IInv
  <1>3. Sound(ba, S, Unsent, nextMpdu, overtaken, exchange.mpdus, P)
    BY <1>2 DEF SoundFrom
  <1>4. /\ \E T \in Nat : Sound(Wipe(ba), T, Unsent, nextMpdu, overtaken, exchange.mpdus, P)
        /\ Wipe(ba).retry = ba.retry
    BY <1>3, WipeSound
  <1>5. New(ba)' = New(ba) /\ Unsent' = Unsent
    BY <1>1, <1>4 DEF New, Unsent, AfterRelease
  <1>6. overtaken \subseteq overtaken'
    BY <1>1
  <1>7. \E T \in Nat : Sound(ba', T, Unsent', nextMpdu', overtaken', exchange'.mpdus, P)
    BY <1>1, <1>4, <1>5, <1>6, SoundWeakens
  <1>8. ASSUME exchange.step = "cts"
        PROVE  New(ba)' = Unsent' .. nextMpdu' - 1 /\ New(ba)' \subseteq ba'.queued \cup overtaken'
    BY <1>1, <1>2, <1>5, <1>8 DEF SoundFrom
  <1>9. exchange' \in Exchanges /\ (exchange'.step = "idle" => exchange'.mpdus = {})
    BY <1>1 DEF IInv
  <1> QED
    BY <1>1, <1>7, <1>8, <1>9 DEF IInv, SoundFrom

\* While a CTS is awaited, the new MPDUs of the exchange are those not yet on the air.
LEMMA AwaitingCts ==
  ASSUME NEW P, IInv(P), exchange.step = "cts"
  PROVE  /\ \E S \in Nat : Sound(ba, S, Unsent, nextMpdu, overtaken, exchange.mpdus, P)
         /\ New(ba) = Unsent .. nextMpdu - 1 /\ New(ba) \subseteq ba.queued \cup overtaken
         /\ AfterRelease(New(ba)) = Unsent
  BY DEF IInv, SoundFrom, Unsent

LEMMA CtsTimeoutKeeps == \A P : IInv(P) /\ CtsTimeout => IInv(P)'
  <1> SUFFICES ASSUME NEW P, IInv(P), CtsTimeout
               PROVE  IInv(P)'
    OBVIOUS
  <1> DEFINE new == New(ba)
             N == Unsent
             D == exchange.mpdus
  <1>1. PICK o \in {ba, ForEach("DequeueAndDiscard", ba, D)} :
            /\ ba' = [o EXCEPT !.queued = @ \ new]
            /\ exchange.step = "cts" /\ exchange' = Idle
            /\ nextMpdu' = AfterRelease(new) /\ overtaken' = overtaken \ new
    BY DEF CtsTimeout, EndExchange
  <1>2. new = N .. nextMpdu - 1 /\ nextMpdu' = N
    BY <1>1, AwaitingCts
  <1>3. PICK S \in Nat : Sound(ba, S, N, nextMpdu, overtaken, D, P)
    BY <1>1, AwaitingCts
  <1> HIDE DEF new, N, D
  <1>4. \E H : \E T \in Nat : Sound(o, T, N, nextMpdu, overtaken, H, P)
    <2>1. CASE o = ba
      BY <1>3, <2>1
    <2>2. CASE o = ForEach("DequeueAndDiscard", ba, D)
      <3>1. /\ overtaken \subseteq overtaken \cup D /\ {} \cup D = D
            /\ "DequeueAndDiscard" \in Discards
        BY DEF Discards
      <3>2. Sound(ba, S, N, nextMpdu, overtaken \cup D, {} \cup D, P)
        BY <1>3, <3>1, SoundWeakens
      <3>3. \E T \in Nat : Sound(ForEach("DequeueAndDiscard", ba, D), T, N, nextMpdu, overtaken, {}, P)
        BY <3>1, <3>2, AllGivenUpSound
      <3> QED
        BY <2>2, <3>3
    <2> QED
      BY <1>1, <2>1, <2>2
  <1>5. PICK T \in Nat : Sound(ba', T, N, N, overtaken', {}, P)
    BY <1>1, <1>2, <1>4, ReleaseSound
  <1> QED
    BY <1>1, <1>2, <1>5, EndsIdle

LEMMA ReceiveCtsKeeps == \A P : IInv(P) /\ ReceiveCts => IInv(P)'
  <1> SUFFICES ASSUME NEW P, IInv(P), ReceiveCts
               PROVE  IInv(P)'
    OBVIOUS
  <1>1. /\ exchange.step = "cts" /\ Transmit(ba, exchange.mpdus, exchange.method, txop)
        /\ nextMpdu' = nextMpdu /\ overtaken' = overtaken
    BY DEF ReceiveCts
  <1>2. /\ exchange.mpdus \subseteq Mpdus
        /\ exchange.method \in {"none", "later", "ack", "blockack", "bar"}
    BY DEF IInv, Exchanges
  <1>3. PICK S \in Nat : Sound(ba, S, Unsent, nextMpdu', overtaken', exchange.mpdus, P)
    BY <1>1, AwaitingCts
  <1>4. /\ Unsent .. nextMpdu' - 1 \subseteq exchange.mpdus
        /\ Unsent .. nextMpdu' - 1 \subseteq ba.queued \cup overtaken'
    <2>1. New(ba) = Unsent .. nextMpdu' - 1 /\ New(ba) \subseteq ba.queued \cup overtaken'
      BY <1>1, AwaitingCts
    <2> QED
      BY <2>1 DEF New
  <1> QED
    BY <1>1, <1>2, <1>3, <1>4, TransmitKeeps

\* The MPDUs of a PSDU, new and retries, when they have their numbers.
LEMMA TakenSound ==
  ASSUME NEW P, NEW o, NEW S \in Nat, NEW X, Sound(o, S, nextMpdu, nextMpdu, X, {}, P),
         \A m \in o.queued : m >= S,
         NEW psdu \in Psdus(Available(o)),
         NEW M, M = Max(psdu \cup {nextMpdu - 1}) + 1
  PROVE  Sound([o EXCEPT !.queued = @ \cup psdu], S, nextMpdu, M, X, psdu, P)
  <1> DEFINE p == [o EXCEPT !.queued = @ \cup psdu]
  <1>1. /\ nextMpdu \in Nat /\ S <= nextMpdu /\ nextMpdu <= MaxMpdu /\ o \in BA
    BY SoundNumbers
  <1>2. /\ M \in nextMpdu .. MaxMpdu /\ M <= S + WinSize
        /\ psdu \subseteq Mpdus /\ psdu \subseteq S .. M - 1
        /\ \A m \in psdu : m < nextMpdu => m \in o.queued \cap o.retry
    BY PsduMeans
  <1>3. /\ p.txWindow = o.txWindow /\ p.inFlight = o.inFlight
        /\ p.queued = o.queued \cup psdu /\ p.retry = o.retry /\ p.bar = o.bar /\ p \in BA
    BY <1>1, <1>2 DEF BA
  <1> HIDE DEF p
  <1>4. M \in 0 .. MaxMpdu /\ nextMpdu \in 0 .. M /\ S \in 0 .. nextMpdu /\ M \in Nat
    BY <1>1, <1>2, ConstantTypes
  <1>5. Acked(p.txWindow, S) \subseteq
            (S .. nextMpdu - 1) \ (p.queued \cup p.inFlight \cup psdu)
    BY <1>1, <1>2, <1>3 DEF Sound
  <1>6. p.queued \subseteq (nextMpdu .. M - 1) \cup p.retry \cup p.inFlight
    <2>1. ASSUME NEW m \in psdu
          PROVE  m \in (nextMpdu .. M - 1) \cup p.retry
      <3>1. CASE m < nextMpdu
        BY <1>2, <1>3, <3>1
      <3>2. CASE ~(m < nextMpdu)
        <4>1. m \in S .. M - 1
          BY <1>2
        <4>2. m \in nextMpdu .. M - 1
          BY <1>1, <1>4, <3>2, <4>1
        <4> QED
          BY <4>2
      <3> QED
        BY <3>1, <3>2
    <2>2. ASSUME NEW m \in o.queued
          PROVE  m \in p.retry \cup p.inFlight
      <3>1. m \in (nextMpdu .. nextMpdu - 1) \cup o.retry \cup o.inFlight
        BY DEF Sound
      <3> QED
        BY <1>1, <1>3, <3>1
    <2> QED
      BY <1>3, <2>1, <2>2
  <1>7. ASSUME NEW m \in p.queued \cup psdu
        PROVE  /\ m \in 0 .. M - 1 /\ M <= m + WinSize
               /\ m >= S /\ m < nextMpdu => m \in p.retry \cup p.inFlight
    <2>1. m \in S .. M - 1
      <3>1. CASE m \in psdu
        BY <1>2, <3>1
      <3>2. CASE m \in o.queued
        <4>1. m \in 0 .. nextMpdu - 1 /\ m >= S
          BY <3>2 DEF Sound
        <4> QED
          BY <1>1, <1>4, <4>1
      <3> QED
        BY <1>3, <3>1, <3>2
    <2>2. m \in 0 .. M - 1 /\ M <= m + WinSize
      BY <1>2, <1>4, <2>1, ConstantTypes
    <2>3. m < nextMpdu => m \in p.retry \cup p.inFlight
      BY <1>1, <1>3, <1>4, <1>6, <2>2
    <2> QED
      BY <2>2, <2>3
  <1>8. S .. nextMpdu - 1 \subseteq p.queued \cup X \cup Acked(p.txWindow, S)
    BY <1>3 DEF Sound
  <1>9. /\ p.txWindow.winStart = SeqOfMpdu(S) /\ S \notin Acked(p.txWindow, S)
        /\ p.inFlight \subseteq S .. nextMpdu - 1 /\ p.retry \subseteq 0 .. nextMpdu - 1
    BY <1>3 DEF Sound
  <1> QED
    BY <1>2, <1>3, <1>4, <1>5, <1>6, <1>7, <1>8, <1>9 DEF Sound, p

\* A PSDU is sent, or announced with an RTS, when o is what is left of the queues.
Sends(P, o, S, psdu, inTxop, method) ==
  /\ Sound(o, S, nextMpdu, nextMpdu', overtaken', psdu, P)
  /\ o.inFlight \subseteq ba.inFlight
  /\ o.bar = "none" \/ inTxop
  /\ psdu \subseteq S .. nextMpdu' - 1 /\ psdu \subseteq o.queued
  /\ nextMpdu .. nextMpdu' - 1 \subseteq psdu
  /\ \A m \in psdu : m < nextMpdu => m \in o.retry
  /\ method = "ack" => \E m \in Mpdus : psdu = {m}
  /\ \/ Transmit(o, psdu, method, inTxop)
     \/ /\ ba' = o /\ txop' = inTxop
        /\ exchange' = [step |-> "cts", method |-> method, mpdus |-> psdu]

LEMMA SendDataMeans ==
  ASSUME NEW P, IInv(P), SendData
  PROVE  \E o \in BA, S \in Nat, psdu \in SUBSET Mpdus, inTxop \in TxopStates, method \in {"none", "later", "ack", "blockack"} :
            Sends(P, o, S, psdu, inTxop, method)
  <1> DEFINE o == DropOld(Wipe(ba))
             taken(psdu) == [o EXCEPT !.queued = @ \cup psdu]
  <1>1. PICK psdu \in Psdus(Available(o)), inTxop \in TxopStates :
          \E others \in OthersQueued(o, psdu), rts \in RtsCts, rtsFirst \in RtsCts :
            LET initial == TxopLimited /\ ~inTxop
                method  == AckMethod(o, psdu, others, initial /\ ~rtsFirst, initial /\ ~rts)
            IN  /\ o.bar = "none" \/ inTxop
                /\ IF Cardinality(psdu) = 1 THEN rtsFirst = rts ELSE rtsFirst => rts
                /\ nextMpdu' = Max(psdu \cup {nextMpdu - 1}) + 1
                /\ IF rts
                   THEN /\ ba' = taken(psdu)
                        /\ exchange' = [step |-> "cts", method |-> method, mpdus |-> psdu]
                        /\ txop' = inTxop
                   ELSE Transmit(taken(psdu), psdu, method, inTxop)
    BY Zenon DEF SendData
  <1>2. exchange.step = "idle" /\ overtaken' = overtaken
    BY DEF SendData, CanSendData
  <1>0. PICK others \in OthersQueued(o, psdu), rts \in RtsCts, rtsFirst \in RtsCts :
            LET initial == TxopLimited /\ ~inTxop
                method  == AckMethod(o, psdu, others, initial /\ ~rtsFirst, initial /\ ~rts)
            IN  /\ o.bar = "none" \/ inTxop
                /\ nextMpdu' = Max(psdu \cup {nextMpdu - 1}) + 1
                /\ IF rts
                   THEN /\ ba' = taken(psdu)
                        /\ exchange' = [step |-> "cts", method |-> method, mpdus |-> psdu]
                        /\ txop' = inTxop
                   ELSE Transmit(taken(psdu), psdu, method, inTxop)
    BY <1>1
  <1> DEFINE initial == TxopLimited /\ ~inTxop
             method == AckMethod(o, psdu, others, initial /\ ~rtsFirst, initial /\ ~rts)
             p == taken(psdu)
  <1>3. /\ method \in {"none", "later", "ack", "blockack"}
        /\ method = "ack" => Cardinality(psdu) = 1
    BY DEF AckMethod
  <1>4. PICK S \in Nat : /\ Sound(o, S, nextMpdu, nextMpdu, overtaken, {}, P)
                         /\ \A m \in o.queued : m >= S
                         /\ o.inFlight \subseteq ba.inFlight
    <2>1. PICK S \in Nat : Sound(ba, S, nextMpdu, nextMpdu, overtaken, {}, P)
      BY <1>2, IdleSound
    <2>2. PICK T \in Nat : Sound(Wipe(ba), T, nextMpdu, nextMpdu, overtaken, {}, P)
      BY <2>1, WipeSound
    <2>3. Wipe(ba).inFlight \subseteq ba.inFlight
      BY <2>1, WipeSound
    <2> QED
      BY <2>2, <2>3, DropOldSound
  <1> HIDE DEF o, method
  <1>5. /\ nextMpdu' \in nextMpdu .. MaxMpdu /\ psdu \subseteq Mpdus /\ psdu \subseteq S .. nextMpdu' - 1
        /\ nextMpdu .. nextMpdu' - 1 \subseteq psdu
        /\ \A m \in psdu : m < nextMpdu => m \in o.queued \cap o.retry
    BY <1>0, <1>4, PsduMeans
  <1>6. Sound(p, S, nextMpdu, nextMpdu', overtaken', psdu, P)
    BY <1>0, <1>2, <1>4, TakenSound
  <1>7. /\ p \in BA /\ p.queued = o.queued \cup psdu /\ p.retry = o.retry
        /\ p.inFlight = o.inFlight /\ p.bar = o.bar
    BY <1>4, <1>6, SoundNumbers DEF BA
  <1> HIDE DEF p
  <1>8. method = "ack" => \E m \in Mpdus : psdu = {m}
    <2>1. IsFiniteSet(psdu)
      <3>1. IsFiniteSet(Mpdus)
        BY ConstantTypes, FS_Interval DEF Mpdus
      <3> QED
        BY <1>5, <3>1, FS_Subset
    <2> QED
      BY <1>3, <1>5, <2>1, FS_Singleton
  <1>9. \/ Transmit(p, psdu, method, inTxop)
        \/ /\ ba' = p /\ txop' = inTxop
           /\ exchange' = [step |-> "cts", method |-> method, mpdus |-> psdu]
    BY <1>0 DEF p, method
  <1>10. o.bar = "none" \/ inTxop
    BY <1>0
  <1> HIDE DEF initial, taken
  <1>11. Sends(P, p, S, psdu, inTxop, method)
    BY <1>4, <1>5, <1>6, <1>7, <1>8, <1>9, <1>10 DEF Sends
  <1> QED
    BY <1>3, <1>5, <1>7, <1>11

LEMMA SendDataKeeps == \A P : IInv(P) /\ SendData => IInv(P)'
  <1> SUFFICES ASSUME NEW P, IInv(P), SendData
               PROVE  IInv(P)'
    OBVIOUS
  <1>0. PICK o \in BA, S \in Nat, psdu \in SUBSET Mpdus, inTxop \in TxopStates,
             method \in {"none", "later", "ack", "blockack"} : Sends(P, o, S, psdu, inTxop, method)
    BY SendDataMeans
  <1>1. /\ Sound(o, S, nextMpdu, nextMpdu', overtaken', psdu, P)
        /\ psdu \subseteq S .. nextMpdu' - 1 /\ psdu \subseteq o.queued
        /\ nextMpdu .. nextMpdu' - 1 \subseteq psdu
        /\ \A m \in psdu : m < nextMpdu => m \in o.retry
        /\ \/ Transmit(o, psdu, method, inTxop)
           \/ /\ ba' = o /\ txop' = inTxop
              /\ exchange' = [step |-> "cts", method |-> method, mpdus |-> psdu]
    BY <1>0 DEF Sends
  <1>2. /\ nextMpdu \in Nat /\ nextMpdu' \in Nat /\ nextMpdu <= nextMpdu'
        /\ o.retry \subseteq 0 .. nextMpdu - 1
    BY <1>1, SoundNumbers DEF Sound
  <1>3. nextMpdu .. nextMpdu' - 1 \subseteq o.queued \cup overtaken'
    BY <1>1
  <1>4. CASE Transmit(o, psdu, method, inTxop)
    BY <1>1, <1>3, <1>4, TransmitKeeps
  <1>5. CASE ba' = o /\ exchange' = [step |-> "cts", method |-> method, mpdus |-> psdu]
    <2>2. exchange' \in Exchanges /\ exchange'.step = "cts" /\ exchange'.mpdus = psdu
      BY <1>0, <1>5 DEF Exchanges
    <2>3. New(ba)' = psdu \ o.retry
      BY <1>5, <2>2 DEF New
    <2>4. psdu \ o.retry = nextMpdu .. nextMpdu' - 1
      <3>1. ASSUME NEW m \in psdu, m \notin o.retry
            PROVE  m \in nextMpdu .. nextMpdu' - 1
        <4>1. m \in S .. nextMpdu' - 1 /\ ~(m < nextMpdu)
          BY <1>1, <3>1
        <4>2. S \in Nat
          BY <1>1
        <4>3. \A M \in Nat, n \in Nat : m \in S .. M - 1 /\ ~(m < n) => m \in n .. M - 1
          BY <4>2
        <4> QED
          BY <1>2, <4>1, <4>3
      <3>2. ASSUME NEW m \in nextMpdu .. nextMpdu' - 1
            PROVE  m \in psdu /\ m \notin o.retry
        <4>1. m \in psdu
          BY <1>1
        <4>2. m \notin 0 .. nextMpdu - 1
          BY <1>2
        <4> QED
          BY <1>2, <4>1, <4>2
      <3> QED
        BY <3>1, <3>2
    <2>5. ASSUME NEW M \in Nat, NEW n \in Nat, n <= M
          PROVE  Min((n .. M - 1) \cup {M}) = n
      <3> DEFINE A == (n .. M - 1) \cup {M}
      <3>1. A # {} /\ A \subseteq Nat /\ n \in A /\ \A x \in A : x >= n
        BY <2>5
      <3> HIDE DEF A
      <3>2. Min(A) \in A /\ Min(A) <= n
        BY <3>1, MinOf
      <3> QED
        BY <3>1, <3>2 DEF A
    <2>6. Unsent' = nextMpdu
      <3>1. Unsent' = Min((nextMpdu .. nextMpdu' - 1) \cup {nextMpdu'})
        BY <2>2, <2>3, <2>4 DEF Unsent, AfterRelease
      <3> QED
        BY <1>2, <2>5, <3>1
    <2>7. /\ Sound(ba', S, Unsent', nextMpdu', overtaken', exchange'.mpdus, P)
          /\ New(ba)' = Unsent' .. nextMpdu' - 1
          /\ New(ba)' \subseteq ba'.queued \cup overtaken'
      BY <1>1, <1>3, <1>5, <2>2, <2>3, <2>4, <2>6
    <2> QED
      BY <2>2, <2>7 DEF IInv, SoundFrom
  <1> QED
    BY <1>1, <1>4, <1>5

-----------------------------------------------------------------------------
(***************************************************************************)
(* The theorems                                                            *)
(***************************************************************************)
\* The invariant behind the theorems below: the window starts at some MPDU, all
\* numbers up to a bound have been on the air, and every MPDU from the start of
\* the window up to that bound is queued, acknowledged or was overtaken.
THEOREM OriginatorIsSound == Spec => []IInv(Free)
  <1>1. IInv(Free) /\ [Next]_vars => IInv(Free)'
    <2> SUFFICES ASSUME IInv(Free), [Next]_vars
                 PROVE  IInv(Free)'
      OBVIOUS
    <2>1. CASE SendBar
      BY <2>1, SendBarKeeps
    <2>2. CASE SendData
      BY <2>2, SendDataKeeps
    <2>3. CASE CtsTimeout
      BY <2>3, CtsTimeoutKeeps
    <2>4. CASE AckTimeout
      BY <2>4, AckTimeoutKeeps
    <2>5. CASE BlockAckTimeout
      BY <2>5, BlockAckTimeoutKeeps
    <2>6. CASE DiscardOnCollision
      BY <2>6, DiscardOnCollisionKeeps
    <2>7. CASE WipeExpired
      BY <2>7, WipeExpiredKeeps
    <2>8. CASE Expire
      BY <2>8 DEF Expire, IInv, SoundFrom, Unsent, New, AfterRelease
    <2>9. CASE ReceiveCts
      BY <2>9, ReceiveCtsKeeps
    <2>10. CASE ReceiveAck
      <3>1. exchange.mpdus \subseteq Free.got
        BY ConstantTypes DEF IInv, Exchanges, Mpdus, Free
      <3> QED
        BY <2>10, <3>1, ReceiveAckKeeps
    <2>11. ASSUME NEW received \in SUBSET ba.inFlight, ReceiveBlockAck(received)
           PROVE  IInv(Free)'
      <3>1. ba.inFlight \subseteq Free.got
        BY SoundNumbers, ConstantTypes DEF IInv, SoundFrom, BA, Mpdus, Free
      <3> QED
        BY <2>11, <3>1, ReceiveBlockAckKeeps
    <2>12. CASE UNCHANGED vars
      BY <2>12 DEF vars, IInv, SoundFrom, Unsent, New, AfterRelease
    <2> QED
      BY <2>1, <2>2, <2>3, <2>4, <2>5, <2>6, <2>7, <2>8, <2>9, <2>10, <2>11, <2>12
      DEF Next, Originate, Respond
  <1>2. Init => IInv(Free)
    BY InitSound DEF Free
  <1> QED
    BY <1>1, <1>2, PTL DEF Spec

\* An acknowledgment is always about an MPDU within the transmit window: what is in
\* flight lies within it and has not been acknowledged before (the assertion of
\* OriginatorBlockAckAgreement::NotifyAckedMpdu).
THEOREM InFlightStaysWithinWindow == Spec => []InFlightWithinWindow
  <1>1. IInv(Free) => InFlightWithinWindow
    <2> SUFFICES ASSUME IInv(Free), NEW m \in ba.inFlight
                 PROVE  IsInWindow(ba.txWindow, m) /\ ~IsAcked(ba.txWindow, m)
      BY DEF InFlightWithinWindow
    <2>1. PICK S \in Nat : Sound(ba, S, Unsent, nextMpdu, overtaken, exchange.mpdus, Free)
      BY DEF IInv, SoundFrom
    <2> HIDE DEF IInv
    <2>2. /\ m \in S .. Unsent - 1 /\ m \notin Acked(ba.txWindow, S)
      BY <2>1 DEF Sound
    <2>3. m \in ba.queued \cup ba.inFlight \cup exchange.mpdus
      OBVIOUS
    <2>4. m \in Nat /\ m < nextMpdu /\ (IsInWindow(ba.txWindow, m) <=> S <= m)
      BY <2>1, <2>3, SoundPlace
    <2>5. /\ nextMpdu \in Nat /\ nextMpdu <= S + WinSize
          /\ ba.txWindow.winStart = SeqOfMpdu(S)
      BY <2>1, SoundNumbers
    <2>6. S \in Nat /\ S <= m
      BY <2>1, <2>2, <2>4
    <2>7. m < S + WinSize
      BY <2>4, <2>5, <2>6, ConstantTypes
    <2>8. ~IsAcked(ba.txWindow, m)
      BY <2>2, <2>4, <2>5, <2>6, <2>7, AckedInWindow
    <2> QED
      BY <2>4, <2>6, <2>8
  <1> QED
    BY OriginatorIsSound, <1>1, PTL

\* ReleaseSequenceNumber never gives back the number of an MPDU that has been on the
\* air: neither a retry's nor that of one in flight will be another MPDU's.
THEOREM NumbersStand == Spec => []NumbersNotReused
  <1>1. IInv(Free) => NumbersNotReused
    <2> SUFFICES ASSUME IInv(Free), NEW m \in ba.retry \cup ba.inFlight
                 PROVE  m < nextMpdu
      BY DEF NumbersNotReused
    <2>1. PICK S \in Nat : Sound(ba, S, Unsent, nextMpdu, overtaken, exchange.mpdus, Free)
      BY DEF IInv, SoundFrom
    <2>2. /\ Unsent \in Nat /\ nextMpdu \in Nat /\ Unsent <= nextMpdu
      BY <2>1, SoundNumbers
    <2>3. m \in 0 .. Unsent - 1 \/ m \in S .. Unsent - 1
      BY <2>1 DEF Sound
    <2>4. S \in Nat
      BY <2>1
    <2> QED
      BY <2>2, <2>3, <2>4
  <1> QED
    BY OriginatorIsSound, <1>1, PTL

\* NotifyDiscardedMpdu leaves no MPDU behind that would hold up the window: between
\* exchanges only one that expired after the RTS of its first exchange does.
THEOREM NoneElseHoldsUp == Spec => []OnlyOvertakenHoldUp
  <1>1. IInv(Free) => OnlyOvertakenHoldUp
    <2> SUFFICES ASSUME IInv(Free), exchange.step = "idle", NEW m \in HoldUp
                 PROVE  m \in overtaken
      BY DEF OnlyOvertakenHoldUp
    <2>1. PICK S \in Nat : Sound(ba, S, nextMpdu, nextMpdu, overtaken, {}, Free)
      BY IdleSound
    <2>2. /\ nextMpdu \in Nat /\ S <= nextMpdu /\ nextMpdu <= S + WinSize
          /\ ba.txWindow.winStart = SeqOfMpdu(S) /\ WinSize \in Nat
      BY <2>1, SoundNumbers, ConstantTypes
    <2>3. /\ m \in Nat /\ m \in nextMpdu - WinSize .. nextMpdu - 1
          /\ IsInWindow(ba.txWindow, m) /\ ~IsAcked(ba.txWindow, m)
          /\ m \notin ba.queued \cup ba.inFlight
      BY ConstantTypes DEF HoldUp, Mpdus
    <2>4. S \in Nat /\ m < S + WinSize /\ S <= m + SeqHalf
      BY <2>1, <2>2, <2>3, ConstantTypes
    <2>5. S <= m
      BY <2>2, <2>3, <2>4, PositionInWindow
    <2>6. m \notin Acked(ba.txWindow, S)
      BY <2>2, <2>3, <2>4, <2>5, AckedInWindow
    <2>7. m \in S .. nextMpdu - 1
      BY <2>2, <2>3, <2>4, <2>5
    <2>8. m \in ba.queued \cup overtaken \cup Acked(ba.txWindow, S)
      BY <2>1, <2>7 DEF Sound
    <2> QED
      BY <2>3, <2>6, <2>8
  <1> QED
    BY OriginatorIsSound, <1>1, PTL


-----------------------------------------------------------------------------
(***************************************************************************)
(* The recipient's operators                                               *)
(***************************************************************************)
LEMMA RecipientNumbers ==
  /\ \A seq, start : Recipient!Distance(seq, start) = Distance(seq, start)
  /\ \A seq, start : Recipient!IsOld(seq, start) <=> IsOld(seq, start)
  /\ \A seq, n : Recipient!Plus(seq, n) = Plus(seq, n)
  /\ Recipient!SeqNos = SeqNos /\ Recipient!SeqHalf = SeqHalf /\ Recipient!Offsets = Offsets
  <1>1. \A seq, start : Recipient!Distance(seq, start) = Distance(seq, start)
    BY DEF Recipient!Distance, Distance
  <1>2. Recipient!SeqHalf = SeqHalf
    BY DEF Recipient!SeqHalf, SeqHalf
  <1>3. \A seq, start : Recipient!IsOld(seq, start) <=> IsOld(seq, start)
    BY <1>1, <1>2, Zenon DEF Recipient!IsOld, IsOld
  <1>4. \A seq, n : Recipient!Plus(seq, n) = Plus(seq, n)
    BY DEF Recipient!Plus, Plus
  <1>5. Recipient!SeqNos = SeqNos /\ Recipient!Offsets = Offsets
    BY DEF Recipient!SeqNos, SeqNos, Recipient!Offsets, Offsets
  <1> QED
    BY <1>1, <1>2, <1>3, <1>4, <1>5

LEMMA RecipientAhead ==
  \A start : \A m \in Mpdus : Recipient!Ahead(m, start) = Distance(SeqOfMpdu(m), start)
  BY RecipientNumbers DEF Recipient!Ahead

LEMMA RecipientWindows ==
  /\ \A s : Recipient!InitWindow(s) = InitWindow(s)
  /\ \A w, d : Recipient!Mark(w, d) = Mark(w, d)
  /\ \A w, n : Recipient!Advance(w, n) = Advance(w, n)
  /\ \A w : Recipient!Marked(w) = Marked(w)
  /\ \A A : Recipient!FirstGap(A) = FirstGap(A)
  <1>1. \A w, d : Recipient!Cell(w, d) = Cell(w, d)
    BY DEF Recipient!Cell, Cell
  <1>2. \A s : Recipient!InitWindow(s) = InitWindow(s)
    BY RecipientNumbers DEF Recipient!InitWindow, InitWindow
  <1>3. \A w, d : Recipient!Mark(w, d) = Mark(w, d)
    BY <1>1 DEF Recipient!Mark, Mark
  <1>4. \A w, d : Recipient!At(w, d) = At(w, d)
    BY <1>1 DEF Recipient!At, At
  <1>5. \A w : Recipient!Marked(w) = Marked(w)
    BY <1>4, RecipientNumbers DEF Recipient!Marked, Marked
  <1>6. \A w, n : Recipient!Clear(w, n) = Clear(w, n)
    BY <1>1, RecipientNumbers DEF Recipient!Clear, Clear
  <1>7. \A w, n : Recipient!Advance(w, n) = Advance(w, n)
    BY <1>2, <1>6, RecipientNumbers DEF Recipient!Advance, Advance
  <1>8. \A A : Recipient!FirstGap(A) = FirstGap(A)
    BY RecipientNumbers DEF Recipient!FirstGap, FirstGap
  <1> QED
    BY <1>2, <1>3, <1>5, <1>7, <1>8

LEMMA RecipientOrdered ==
  \A M, start : Recipient!InOrder(M, start) = Ordered(M, [m \in M |-> Recipient!Ahead(m, start)])
  <1>0. \A M : Recipient!Cardinality(M) = Cardinality(M)
    BY DEF Recipient!Cardinality, Cardinality
  <1>1. \A M, key, i : Recipient!Nth(M, key, i) = Nth(M, key, i)
    BY <1>0 DEF Recipient!Nth, Nth
  <1>2. \A M, key : Recipient!Ordered(M, key) = Ordered(M, key)
    BY <1>0, <1>1 DEF Recipient!Ordered, Ordered
  <1> QED
    BY <1>2 DEF Recipient!InOrder

LEMMA InOrderMpdus ==
  ASSUME NEW K \in Nat, NEW M, M \subseteq Mpdus, \A m \in M : K <= m /\ m < K + SeqSpace
  PROVE  LET s == Recipient!InOrder(M, SeqOfMpdu(K))
         IN  /\ s \in Seq(M) /\ DOMAIN s = 1 .. Cardinality(M) /\ Cardinality(M) \in Nat
             /\ \A m \in M : \E i \in DOMAIN s : s[i] = m
             /\ \A i, j \in DOMAIN s : i < j => s[i] < s[j]
  <1> DEFINE key == [m \in M |-> Recipient!Ahead(m, SeqOfMpdu(K))]
             s == Ordered(M, key)
  <1>1. IsFiniteSet(M)
    <2>1. IsFiniteSet(Mpdus)
      BY ConstantTypes, FS_Interval DEF Mpdus
    <2> QED
      BY <2>1, FS_Subset
  <1>2. \A m \in M : m \in Nat /\ key[m] = m - K
    <2> TAKE m \in M
    <2>1. m \in Nat /\ Distance(SeqOfMpdu(m), SeqOfMpdu(K)) = m - K
      BY DistanceAhead, ConstantTypes DEF Mpdus
    <2> QED
      BY <2>1, RecipientAhead
  <1> HIDE DEF key
  <1>3. Keyed(M, key)
    BY <1>1, <1>2 DEF Keyed
  <1>4. /\ s \in Seq(M) /\ DOMAIN s = 1 .. Cardinality(M)
        /\ \A m \in M : \E i \in DOMAIN s : s[i] = m
        /\ \A i, j \in DOMAIN s : i < j => key[s[i]] < key[s[j]]
    BY <1>3, OrderedMeans
  <1>5. Cardinality(M) \in Nat
    BY <1>1, FS_CardinalityType
  <1>6. Recipient!InOrder(M, SeqOfMpdu(K)) = s
    BY RecipientOrdered DEF key
  <1> HIDE DEF s
  <1>7. \A i, j \in DOMAIN s : i < j => s[i] < s[j]
    <2> SUFFICES ASSUME NEW i \in DOMAIN s, NEW j \in DOMAIN s, i < j
                 PROVE  s[i] < s[j]
      OBVIOUS
    <2>1. s[i] \in M /\ s[j] \in M
      BY <1>4, <1>5
    <2> QED
      BY <1>2, <1>4, <2>1
  <1> QED
    BY <1>4, <1>5, <1>6, <1>7

\* The recipient waits for MPDU B and lets all before K pass: it hands up what it
\* has of these, and what follows K without a gap.
LEMMA ReleaseMeans ==
  ASSUME NEW B \in Nat, winStartB = SeqOfMpdu(B), NEW K \in Nat, B <= K, K <= B + SeqHalf,
         NEW buffer, buffer \subseteq Mpdus, \A m \in buffer : B <= m /\ m < K + WinSize,
         Recipient!Release(buffer, SeqOfMpdu(K))
  PROVE  \E C \in K .. K + WinSize :
            /\ winStartB' = SeqOfMpdu(C)
            /\ K .. C - 1 \subseteq buffer /\ C \notin buffer
            /\ bufferedMpdus' = {m \in buffer : m > C}
            /\ \E c \in Nat : forwardedUp' \in Seq(buffer) /\ DOMAIN forwardedUp' = 1 .. c
            /\ \A i \in DOMAIN forwardedUp' : forwardedUp'[i] \in buffer /\ forwardedUp'[i] < C
            /\ \A m \in buffer : m < C => \E i \in DOMAIN forwardedUp' : forwardedUp'[i] = m
            /\ \A i, j \in DOMAIN forwardedUp' : i < j => forwardedUp'[i] < forwardedUp'[j]
  <1> DEFINE start == SeqOfMpdu(K)
             early == {m \in buffer : Recipient!Ahead(m, winStartB) < Recipient!Distance(start, winStartB)}
             rest  == buffer \ early
             held  == {Recipient!Ahead(m, start) : m \in rest} \cap Recipient!Offsets
             run   == Recipient!FirstGap(held)
             next  == {m \in rest : Recipient!Ahead(m, start) < run}
             first == Recipient!InOrder(early, winStartB)
             second == Recipient!InOrder(next, start)
             C == K + run
  <1>1. /\ forwardedUp' = first \o second
        /\ bufferedMpdus' = rest \ next
        /\ winStartB' = Recipient!Plus(start, run)
    BY DEF Recipient!Release
  <1>2. \A m \in buffer : m \in Nat /\ B <= m /\ m < K + WinSize
    BY ConstantTypes DEF Mpdus
  <1>3. early = {m \in buffer : m < K}
    <2>1. Recipient!Distance(start, winStartB) = K - B
      BY DistanceAhead, RecipientNumbers, ConstantTypes
    <2>2. \A m \in buffer : Recipient!Ahead(m, winStartB) = m - B
      <3> TAKE m \in buffer
      <3>1. m < B + SeqSpace
        BY <1>2, ConstantTypes
      <3>2. Distance(SeqOfMpdu(m), SeqOfMpdu(B)) = m - B
        BY <1>2, <3>1, DistanceAhead
      <3> QED
        BY <3>2, RecipientAhead
    <2>3. \A m \in buffer : m - B < K - B <=> m < K
      BY <1>2
    <2> QED
      BY <2>1, <2>2, <2>3
  <1>4. rest = {m \in buffer : m >= K}
    BY <1>2, <1>3
  <1> HIDE DEF early, rest
  <1>5. \A m \in rest : m \in buffer /\ m \in Nat /\ m >= K /\ Recipient!Ahead(m, start) = m - K
    <2> TAKE m \in rest
    <2>1. m \in buffer /\ m \in Nat /\ K <= m /\ m < K + SeqSpace
      BY <1>2, <1>4, ConstantTypes
    <2>2. Distance(SeqOfMpdu(m), SeqOfMpdu(K)) = m - K
      BY <2>1, DistanceAhead
    <2> QED
      BY <2>1, <2>2, RecipientAhead
  <1>6. held = {d \in Offsets : K + d \in buffer}
    <2>1. \A d \in Offsets : d \in Nat
      BY ConstantTypes DEF Offsets
    <2>2. ASSUME NEW d \in Offsets
          PROVE  (\E m \in rest : Recipient!Ahead(m, start) = d) <=> K + d \in buffer
      <3>1. ASSUME NEW m \in rest, Recipient!Ahead(m, start) = d PROVE K + d \in buffer
        <4>1. m - K = d /\ m \in buffer /\ m \in Nat
          BY <1>5, <3>1
        <4>2. K + d = m
          BY <4>1
        <4> QED
          BY <4>1, <4>2
      <3>2. ASSUME K + d \in buffer PROVE \E m \in rest : Recipient!Ahead(m, start) = d
        <4>1. K + d >= K /\ (K + d) - K = d
          BY <2>1
        <4>2. K + d \in rest
          BY <1>4, <3>2, <4>1
        <4> QED
          BY <1>5, <4>1, <4>2
      <3> QED
        BY <3>1, <3>2
    <2> QED
      BY <2>2, RecipientNumbers
  <1>7. /\ run \in 0 .. WinSize /\ run \notin held
        /\ \A e \in Offsets : e < run => e \in held
    <2>1. held \in SUBSET Offsets
      BY <1>6
    <2> HIDE DEF held
    <2>2. run = FirstGap(held)
      BY RecipientWindows
    <2> QED
      BY <2>1, <2>2, FirstGapExists
  <1> HIDE DEF held, run
  <1>8. C \in K .. K + WinSize /\ C \in Nat /\ run \in 0 .. SeqSpace
    BY <1>7, ConstantTypes
  <1>9. winStartB' = SeqOfMpdu(C)
    BY <1>1, <1>8, SeqOfMpduMoves, RecipientNumbers
  <1>10. C \notin buffer
    <2>1. CASE run = WinSize
      BY <1>2, <2>1
    <2>2. CASE run # WinSize
      <3>1. run \in Offsets
        BY <1>7, <2>2, ConstantTypes DEF Offsets
      <3> QED
        BY <1>6, <1>7, <3>1
    <2> QED
      BY <2>1, <2>2
  <1>11. ASSUME NEW n \in K .. C - 1 PROVE n \in buffer
    <2>1. n - K \in Offsets /\ n - K < run /\ K + (n - K) = n
      BY <1>7, ConstantTypes DEF Offsets
    <2> QED
      BY <1>6, <1>7, <2>1
  <1>12. next = {m \in buffer : m >= K /\ m < C}
    <2>1. \A m \in rest : m - K < run <=> m < C
      BY <1>5, <1>7
    <2> QED
      BY <1>4, <1>5, <2>1
  <1> HIDE DEF next, C
  <1>13. bufferedMpdus' = {m \in buffer : m > C}
    <2>1. \A m \in buffer : (m >= K /\ ~(m >= K /\ m < C)) <=> m > C
      BY <1>2, <1>8, <1>10
    <2> QED
      BY <1>1, <1>4, <1>12, <2>1
  <1>14. /\ first \in Seq(early) /\ DOMAIN first = 1 .. Cardinality(early) /\ Cardinality(early) \in Nat
         /\ \A m \in early : \E i \in DOMAIN first : first[i] = m
         /\ \A i, j \in DOMAIN first : i < j => first[i] < first[j]
    <2>1. early \subseteq Mpdus /\ \A m \in early : B <= m /\ m < B + SeqSpace
      BY <1>2, <1>3, ConstantTypes
    <2> QED
      BY <2>1, InOrderMpdus
  <1>15. /\ second \in Seq(next) /\ DOMAIN second = 1 .. Cardinality(next) /\ Cardinality(next) \in Nat
         /\ \A m \in next : \E i \in DOMAIN second : second[i] = m
         /\ \A i, j \in DOMAIN second : i < j => second[i] < second[j]
    <2>1. next \subseteq Mpdus /\ \A m \in next : K <= m /\ m < K + SeqSpace
      BY <1>2, <1>12, ConstantTypes
    <2> QED
      BY <2>1, InOrderMpdus
  <1> DEFINE a == Cardinality(early)
             b == Cardinality(next)
             s == first \o second
  <1> HIDE DEF first, second, a, b
  <1>16. /\ a \in Nat /\ b \in Nat
         /\ s \in Seq(buffer) /\ DOMAIN s = 1 .. a + b
         /\ \A i \in 1 .. a : s[i] = first[i]
         /\ \A i \in a + 1 .. a + b : s[i] = second[i - a] /\ i - a \in 1 .. b
         /\ \A i \in 1 .. b : a + i \in a + 1 .. a + b /\ s[a + i] = second[i]
    <2>1. early \subseteq buffer /\ next \subseteq buffer
      BY <1>3, <1>12
    <2>2. first \in Seq(buffer) /\ second \in Seq(buffer) /\ Len(first) = a /\ Len(second) = b
          /\ a \in Nat /\ b \in Nat
      BY <1>14, <1>15, <2>1 DEF a, b
    <2>3. \A i \in a + 1 .. a + b : i - a \in 1 .. b
      BY <2>2
    <2>4. \A i \in 1 .. b : a + i \in a + 1 .. a + b /\ (a + i) - a = i
      BY <2>2
    <2> QED
      BY <2>2, <2>3, <2>4
  <1>17. \A i \in 1 .. a : first[i] \in early
    BY <1>14 DEF a
  <1>18. \A i \in 1 .. b : second[i] \in next
    BY <1>15 DEF b
  <1> HIDE DEF s
  <1>19. \A i \in 1 .. a + b : i \in 1 .. a \/ i \in a + 1 .. a + b
    BY <1>16
  <1>20. \A i \in DOMAIN s : s[i] \in buffer /\ s[i] < C
    <2> TAKE i \in DOMAIN s
    <2>1. CASE i \in 1 .. a
      <3>1. s[i] \in early
        BY <1>16, <1>17, <2>1
      <3> QED
        BY <1>2, <1>3, <1>8, <3>1
    <2>2. CASE i \in a + 1 .. a + b
      <3>1. s[i] \in next
        BY <1>16, <1>18, <2>2
      <3> QED
        BY <1>12, <3>1
    <2> QED
      BY <1>16, <1>19, <2>1, <2>2
  <1>21. ASSUME NEW m \in buffer, m < C
         PROVE  \E i \in DOMAIN s : s[i] = m
    <2>1. CASE m < K
      <3>1. PICK i \in 1 .. a : first[i] = m
        BY <1>3, <1>14, <2>1 DEF a
      <3>2. i \in 1 .. a + b
        BY <1>16
      <3> QED
        BY <1>16, <3>1, <3>2
    <2>2. CASE m >= K
      <3>1. PICK i \in 1 .. b : second[i] = m
        BY <1>12, <1>15, <1>21, <2>2 DEF b
      <3>2. a + i \in 1 .. a + b
        BY <1>16
      <3> QED
        BY <1>16, <3>1, <3>2
    <2> QED
      BY <1>2, <2>1, <2>2
  <1>22. ASSUME NEW i \in DOMAIN s, NEW j \in DOMAIN s, i < j
         PROVE  s[i] < s[j]
    <2>0. i \in 1 .. a + b /\ j \in 1 .. a + b
      BY <1>16
    <2>1. CASE i \in 1 .. a /\ j \in 1 .. a
      BY <1>14, <1>16, <1>22, <2>1 DEF a
    <2>2. CASE i \in 1 .. a /\ j \in a + 1 .. a + b
      <3>1. s[i] \in early /\ s[j] \in next
        BY <1>16, <1>17, <1>18, <2>2
      <3> QED
        BY <1>2, <1>3, <1>12, <3>1
    <2>3. CASE i \in a + 1 .. a + b /\ j \in a + 1 .. a + b
      <3>1. i - a \in 1 .. b /\ j - a \in 1 .. b /\ i - a < j - a
        BY <1>16, <1>22, <2>0, <2>3
      <3> QED
        BY <1>15, <1>16, <2>3, <3>1 DEF b
    <2>4. CASE i \in a + 1 .. a + b /\ j \in 1 .. a
      BY <1>16, <1>22, <2>0, <2>4
    <2> QED
      BY <1>19, <2>0, <2>1, <2>2, <2>3, <2>4
  <1>23. forwardedUp' = s
    BY <1>1 DEF s
  <1>24. a + b \in Nat
    BY <1>16
  <1> QED
    BY <1>8, <1>9, <1>10, <1>11, <1>13, <1>16, <1>20, <1>21, <1>22, <1>23, <1>24

-----------------------------------------------------------------------------
(***************************************************************************)
(* The recipient's scoreboard                                              *)
(***************************************************************************)
LEMMA AckedAdvanced ==
  ASSUME NEW w \in Windows, NEW R \in Nat, w.winStart = SeqOfMpdu(R),
         NEW k \in 0 .. SeqSpace
  PROVE  /\ Advance(w, k) \in Windows /\ Advance(w, k).winStart = SeqOfMpdu(R + k)
         /\ Acked(Advance(w, k), R + k) \subseteq Acked(w, R)
  <1> DEFINE v == Advance(w, k)
             Q == R + k
  <1>1. k \in Nat /\ Q \in Nat
    BY ConstantTypes
  <1>2. v \in Windows /\ v.winStart = Plus(SeqOfMpdu(R), k) /\ Marked(v) = Drop(Marked(w), k)
    BY <1>1, AdvanceWindow
  <1>3. v.winStart = SeqOfMpdu(Q)
    BY <1>2, SeqOfMpduMoves
  <1> HIDE DEF v
  <1>4. ASSUME NEW a \in Acked(v, Q)
        PROVE  a \in Acked(w, R)
    <2>1. a \in Int
      BY <1>1, AckedRange, ConstantTypes
    <2>2. a - Q \in Marked(v)
      BY <1>1, <2>1, AckedMeans
    <2>3. (a - Q) + k \in Marked(w)
      BY <1>2, <2>2 DEF Drop
    <2>4. (a - Q) + k = a - R
      BY <1>1, <2>1
    <2> QED
      BY <2>1, <2>3, <2>4, AckedMeans
  <1> QED
    BY <1>2, <1>3, <1>4 DEF v

LEMMA AckedMarked ==
  ASSUME NEW w \in Windows, NEW R \in Nat, w.winStart = SeqOfMpdu(R),
         NEW m \in Nat, R <= m, m < R + WinSize
  PROVE  /\ Mark(w, m - R) \in Windows /\ Mark(w, m - R).winStart = SeqOfMpdu(R)
         /\ Acked(Mark(w, m - R), R) = Acked(w, R) \cup {m}
  <1> DEFINE d == m - R
             v == Mark(w, d)
  <1>1. d \in Offsets /\ R + d = m
    BY ConstantTypes DEF Offsets
  <1>2. v \in Windows /\ v.winStart = w.winStart /\ Marked(v) = Marked(w) \cup {d}
    BY <1>1, MarkWindow
  <1> HIDE DEF d, v
  <1>3. Acked(v, R) = Acked(w, R) \cup {m}
    BY <1>1, <1>2 DEF Acked
  <1> QED
    BY <1>2, <1>3 DEF v, d

LEMMA ScoreboardHears ==
  ASSUME scoreboard \in Windows, NEW R \in Nat, scoreboard.winStart = SeqOfMpdu(R),
         NEW m \in Nat, m < R + SeqHalf, R <= m + SeqHalf
  PROVE  LET v == Recipient!ScoreboardAfterMpdu(SeqOfMpdu(m))
             Q == IF m < R + WinSize THEN R ELSE m - WinSize + 1
         IN  /\ v \in Windows /\ v.winStart = SeqOfMpdu(Q)
             /\ Acked(v, Q) \subseteq Acked(scoreboard, R) \cup {m}
  <1> DEFINE distance == Distance(SeqOfMpdu(m), SeqOfMpdu(R))
             v == Recipient!ScoreboardAfterMpdu(SeqOfMpdu(m))
  <1>1. v = CASE distance < WinSize -> Mark(scoreboard, distance)
              [] distance \in WinSize .. SeqHalf - 1 ->
                    Mark(Advance(scoreboard, distance - WinSize + 1), WinSize - 1)
              [] OTHER -> scoreboard
    BY RecipientNumbers, RecipientWindows, Zenon DEF Recipient!ScoreboardAfterMpdu
  <1> HIDE DEF v
  <1>2. CASE m < R
    <2>1. distance = SeqSpace - (R - m)
      BY <1>2, DistanceBehind
    <2>2. ~(distance < WinSize) /\ distance \notin WinSize .. SeqHalf - 1
      BY <1>2, <2>1, ConstantTypes
    <2> HIDE DEF distance
    <2>3. v = scoreboard
      BY <1>1, <2>2
    <2> QED
      BY <1>2, <2>3, ConstantTypes DEF v
  <1>3. CASE R <= m /\ m < R + WinSize
    <2>1. distance = m - R
      BY <1>3, DistanceAhead, ConstantTypes
    <2>2. distance < WinSize /\ distance \notin WinSize .. SeqHalf - 1
      BY <1>3, <2>1, ConstantTypes
    <2> HIDE DEF distance
    <2>3. v = Mark(scoreboard, distance)
      BY <1>1, <2>2
    <2> QED
      BY <1>3, <2>1, <2>3, AckedMarked DEF v
  <1>4. CASE R + WinSize <= m
    <2> DEFINE k == m - R - WinSize + 1
               w == Advance(scoreboard, k)
               Q == R + k
    <2>1. distance = m - R
      BY <1>4, DistanceAhead, ConstantTypes
    <2>2. ~(distance < WinSize) /\ distance \in WinSize .. SeqHalf - 1
          /\ distance - WinSize + 1 = k
      BY <1>4, <2>1, ConstantTypes
    <2> HIDE DEF distance
    <2>3. v = Mark(Advance(scoreboard, k), WinSize - 1)
      BY <1>1, <2>2
    <2>4. /\ k \in 0 .. SeqSpace /\ Q \in Nat /\ Q = m - WinSize + 1 /\ m - Q = WinSize - 1
          /\ Q <= m /\ m < Q + WinSize /\ ~(m < R + WinSize)
      BY <1>4, ConstantTypes
    <2> HIDE DEF k
    <2>5. w \in Windows /\ w.winStart = SeqOfMpdu(Q) /\ Acked(w, Q) \subseteq Acked(scoreboard, R)
      BY <2>4, AckedAdvanced
    <2> HIDE DEF w, Q
    <2>6. /\ Mark(w, m - Q) \in Windows /\ Mark(w, m - Q).winStart = SeqOfMpdu(Q)
          /\ Acked(Mark(w, m - Q), Q) = Acked(w, Q) \cup {m}
      BY <2>4, <2>5, AckedMarked
    <2>7. v = Mark(w, m - Q)
      BY <2>3, <2>4 DEF w
    <2> QED
      BY <2>4, <2>5, <2>6, <2>7 DEF v
  <1> QED
    BY <1>2, <1>3, <1>4, ConstantTypes

LEMMA ScoreboardHearsBar ==
  ASSUME scoreboard \in Windows, NEW R \in Nat, scoreboard.winStart = SeqOfMpdu(R),
         NEW U \in Nat, U < R + SeqHalf, R <= U + SeqHalf
  PROVE  LET v == Recipient!ScoreboardAfterBar(SeqOfMpdu(U))
             Q == IF U > R THEN U ELSE R
         IN  /\ v \in Windows /\ v.winStart = SeqOfMpdu(Q)
             /\ Acked(v, Q) \subseteq Acked(scoreboard, R)
  <1> DEFINE distance == Distance(SeqOfMpdu(U), SeqOfMpdu(R))
             v == Recipient!ScoreboardAfterBar(SeqOfMpdu(U))
  <1>1. v = CASE distance \in 1 .. WinSize - 1 -> Advance(scoreboard, distance)
              [] distance \in WinSize .. SeqHalf - 1 -> InitWindow(SeqOfMpdu(U))
              [] OTHER -> scoreboard
    BY RecipientNumbers, RecipientWindows, Zenon DEF Recipient!ScoreboardAfterBar
  <1> HIDE DEF v
  <1>2. CASE U <= R
    <2>1. distance \notin 1 .. WinSize - 1 /\ distance \notin WinSize .. SeqHalf - 1
      <3>1. CASE U < R
        <4>1. distance = SeqSpace - (R - U)
          BY <3>1, DistanceBehind
        <4> QED
          BY <3>1, <4>1, ConstantTypes
      <3>2. CASE U = R
        <4>1. distance = 0
          BY <3>2, DistanceAhead, ConstantTypes
        <4> QED
          BY <4>1, ConstantTypes
      <3> QED
        BY <1>2, <3>1, <3>2
    <2> HIDE DEF distance
    <2>2. v = scoreboard
      BY <1>1, <2>1
    <2> QED
      BY <1>2, <2>2 DEF v
  <1>3. CASE U > R
    <2>1. distance = U - R
      BY <1>3, DistanceAhead, ConstantTypes
    <2>2. CASE U < R + WinSize
      <3>1. /\ distance \in 1 .. WinSize - 1 /\ distance \notin WinSize .. SeqHalf - 1
            /\ distance \in 0 .. SeqSpace /\ R + distance = U
        BY <1>3, <2>1, <2>2, ConstantTypes
      <3> HIDE DEF distance
      <3>2. v = Advance(scoreboard, distance)
        BY <1>1, <3>1
      <3> QED
        BY <1>3, <3>1, <3>2, AckedAdvanced DEF v
    <2>3. CASE U >= R + WinSize
      <3>1. distance \in WinSize .. SeqHalf - 1 /\ distance \notin 1 .. WinSize - 1
        BY <1>3, <2>1, <2>3, ConstantTypes
      <3> HIDE DEF distance
      <3>2. v = InitWindow(SeqOfMpdu(U))
        BY <1>1, <3>1
      <3>3. v \in Windows /\ Marked(v) = {} /\ v.winStart = SeqOfMpdu(U)
        BY <3>2, SeqOfMpduType, InitWindowEmpty DEF InitWindow
      <3>4. Acked(v, U) = {}
        BY <3>3 DEF Acked
      <3> QED
        BY <1>3, <3>3, <3>4 DEF v
    <2> QED
      BY <2>2, <2>3, ConstantTypes
  <1> QED
    BY <1>2, <1>3

-----------------------------------------------------------------------------
(***************************************************************************)
(* What the recipient does with a frame                                    *)
(***************************************************************************)
\* What has gone up, all of it before MPDU B.
Up(B) ==
  /\ delivered \in Seq(Mpdus) /\ Promise!Increasing(delivered)
  /\ \A m \in ToSet(delivered) : m < B

\* What the recipient has or has let pass when it waits for MPDU B.
Got(B) == (0 .. B - 1) \cup bufferedMpdus

\* The recipient waits for MPDU B, and its scoreboard starts at MPDU R.
RecipientAt(B, R) ==
  /\ B \in Nat /\ R \in Nat /\ R <= B /\ B <= R + WinSize
  /\ winStartB = SeqOfMpdu(B)
  /\ scoreboard \in Windows /\ scoreboard.winStart = SeqOfMpdu(R)
  /\ bufferedMpdus \subseteq Mpdus /\ \A m \in bufferedMpdus : B < m /\ m < R + WinSize
  /\ Acked(scoreboard, R) \subseteq Got(B)

LEMMA Appended ==
  ASSUME NEW D, NEW s \in Seq(D), NEW t, t \in Seq(D),
         \A i, j \in DOMAIN s : i < j => s[i] < s[j],
         \A i, j \in DOMAIN t : i < j => t[i] < t[j],
         \A i \in DOMAIN s, j \in DOMAIN t : s[i] < t[j]
  PROVE  /\ s \o t \in Seq(D) /\ Len(s) <= Len(s \o t) /\ s = SubSeq(s \o t, 1, Len(s))
         /\ \A i, j \in DOMAIN (s \o t) : i < j => (s \o t)[i] < (s \o t)[j]
         /\ ToSet(s \o t) = ToSet(s) \cup ToSet(t)
  <1> DEFINE a == Len(s)
             b == Len(t)
             u == s \o t
  <1>1. /\ a \in Nat /\ b \in Nat /\ DOMAIN s = 1 .. a /\ DOMAIN t = 1 .. b
        /\ u \in Seq(D) /\ DOMAIN u = 1 .. a + b /\ Len(u) = a + b
        /\ \A i \in 1 .. a : u[i] = s[i]
        /\ \A i \in a + 1 .. a + b : u[i] = t[i - a]
    OBVIOUS
  <1>2. a <= Len(u) /\ s = SubSeq(u, 1, a)
    <2>1. SubSeq(u, 1, a) \in Seq(D) /\ Len(SubSeq(u, 1, a)) = a
          /\ \A i \in 1 .. a : SubSeq(u, 1, a)[i] = u[i]
      BY <1>1
    <2> QED
      BY <1>1, <2>1
  <1> HIDE DEF u, a, b
  <1>3. ASSUME NEW i \in DOMAIN u, NEW j \in DOMAIN u, i < j
        PROVE  u[i] < u[j]
    <2>1. CASE j \in 1 .. a
      <3>1. i \in 1 .. a
        BY <1>1, <1>3, <2>1
      <3> QED
        BY <1>1, <1>3, <2>1, <3>1
    <2>2. CASE i \in 1 .. a /\ j \in a + 1 .. a + b
      <3>1. j - a \in 1 .. b
        BY <1>1, <2>2
      <3> QED
        BY <1>1, <2>2, <3>1
    <2>3. CASE i \in a + 1 .. a + b /\ j \in a + 1 .. a + b
      <3>1. i - a \in 1 .. b /\ j - a \in 1 .. b /\ i - a < j - a
        BY <1>1, <1>3, <2>3
      <3> QED
        BY <1>1, <2>3, <3>1
    <2> QED
      BY <1>1, <1>3, <2>1, <2>2, <2>3
  <1>4. ToSet(u) = ToSet(s) \cup ToSet(t)
    <2>1. \A i \in 1 .. b : a + i \in a + 1 .. a + b /\ (a + i) - a = i /\ a + i \in 1 .. a + b
      BY <1>1
    <2>2. \A i \in 1 .. b : u[a + i] = t[i]
      BY <1>1, <2>1
    <2>3. \A i \in 1 .. a : i \in 1 .. a + b
      BY <1>1
    <2>4. \A i \in 1 .. a + b : i \in 1 .. a \/ (i \in a + 1 .. a + b /\ i - a \in 1 .. b)
      BY <1>1
    <2>5. ToSet(s) \cup ToSet(t) \subseteq ToSet(u)
      <3>1. \A i \in DOMAIN s : s[i] \in ToSet(u)
        BY <1>1, <2>3 DEF ToSet
      <3>2. \A i \in DOMAIN t : t[i] \in ToSet(u)
        BY <1>1, <2>1, <2>2 DEF ToSet
      <3> QED
        BY <3>1, <3>2 DEF ToSet
    <2>6. ToSet(u) \subseteq ToSet(s) \cup ToSet(t)
      BY <1>1, <2>4 DEF ToSet
    <2> QED
      BY <2>5, <2>6
  <1> QED
    BY <1>1, <1>2, <1>3, <1>4 DEF u, a

\* What Release hands up extends what has gone up before, in order.
LEMMA ReleasesUp ==
  ASSUME NEW B \in Nat, winStartB = SeqOfMpdu(B), Up(B), NEW K \in Nat, B <= K, K <= B + SeqHalf,
         NEW buffer, buffer \subseteq Mpdus, \A m \in buffer : B <= m /\ m < K + WinSize,
         Recipient!Release(buffer, SeqOfMpdu(K)), delivered' = delivered \o forwardedUp'
  PROVE  \E C \in K .. K + WinSize :
            /\ winStartB' = SeqOfMpdu(C)
            /\ K .. C - 1 \subseteq buffer /\ C \notin buffer
            /\ bufferedMpdus' = {m \in buffer : m > C}
            /\ Promise!Deliver /\ Up(C)'
            /\ ToSet(delivered') = ToSet(delivered) \cup {m \in buffer : m < C}
  <1>1. PICK C \in K .. K + WinSize :
            /\ winStartB' = SeqOfMpdu(C)
            /\ K .. C - 1 \subseteq buffer /\ C \notin buffer
            /\ bufferedMpdus' = {m \in buffer : m > C}
            /\ \E c \in Nat : forwardedUp' \in Seq(buffer) /\ DOMAIN forwardedUp' = 1 .. c
            /\ \A i \in DOMAIN forwardedUp' : forwardedUp'[i] \in buffer /\ forwardedUp'[i] < C
            /\ \A m \in buffer : m < C => \E i \in DOMAIN forwardedUp' : forwardedUp'[i] = m
            /\ \A i, j \in DOMAIN forwardedUp' : i < j => forwardedUp'[i] < forwardedUp'[j]
    BY ReleaseMeans
  <1>2. /\ delivered \in Seq(Mpdus)
        /\ \A i, j \in DOMAIN delivered : i < j => delivered[i] < delivered[j]
        /\ \A i \in DOMAIN delivered : delivered[i] < B /\ delivered[i] \in Nat
    <2>1. \A i \in DOMAIN delivered : delivered[i] \in Mpdus
      BY DEF Up
    <2> QED
      BY <2>1, ConstantTypes DEF Up, Promise!Increasing, ToSet, Mpdus
  <1>3. forwardedUp' \in Seq(Mpdus)
    BY <1>1
  <1>4. \A i \in DOMAIN delivered, j \in DOMAIN forwardedUp' : delivered[i] < forwardedUp'[j]
    <2> SUFFICES ASSUME NEW i \in DOMAIN delivered, NEW j \in DOMAIN forwardedUp'
                 PROVE  delivered[i] < forwardedUp'[j]
      OBVIOUS
    <2>1. forwardedUp'[j] \in buffer
      BY <1>1
    <2>2. \A m \in buffer : m \in Nat /\ B <= m
      BY ConstantTypes DEF Mpdus
    <2> QED
      BY <1>2, <2>1, <2>2
  <1>5. /\ delivered' \in Seq(Mpdus) /\ Len(delivered) <= Len(delivered')
        /\ delivered = SubSeq(delivered', 1, Len(delivered))
        /\ \A i, j \in DOMAIN delivered' : i < j => delivered'[i] < delivered'[j]
        /\ ToSet(delivered') = ToSet(delivered) \cup ToSet(forwardedUp')
    BY <1>1, <1>2, <1>3, <1>4, Appended
  <1>6. ToSet(forwardedUp') = {m \in buffer : m < C}
    BY <1>1 DEF ToSet
  <1>7. \A m \in ToSet(delivered') : m < C
    <2>1. \A m \in ToSet(delivered) : m < B /\ m \in Nat
      BY <1>2 DEF ToSet
    <2> QED
      BY <1>1, <1>5, <1>6, <2>1
  <1>8. Promise!Increasing(delivered')
    BY <1>5 DEF Promise!Increasing
  <1> QED
    BY <1>1, <1>5, <1>6, <1>7, <1>8 DEF Up, Promise!Deliver

\* What a frame does to the recipient that waits for MPDU B and from then on for
\* MPDU C: what it has stays or goes up, the MPDUs H it hears are not lost, and it
\* lets an MPDU pass only if told that those before U are given up.
Hears(B, C, U, H) ==
  /\ status' = "active" /\ B <= C
  /\ (\E Q \in Nat : RecipientAt(C, Q))' /\ Up(C)' /\ Promise!Deliver
  /\ bufferedMpdus' \subseteq bufferedMpdus \cup H
  /\ ToSet(delivered) \cup bufferedMpdus \subseteq ToSet(delivered') \cup bufferedMpdus'
  /\ \A m \in H : m >= B => m \in ToSet(delivered') \cup bufferedMpdus'
  /\ C > B => C <= U \/ \E n \in bufferedMpdus \cup H : C <= n + 1
  /\ \A n \in B .. C - 1 : n \in ToSet(delivered') \/ n < U

LEMMA ReleaseHears ==
  ASSUME NEW B, NEW R, RecipientAt(B, R), Up(B), NEW K \in Nat, B <= K, K <= B + SeqHalf,
         NEW H, H \subseteq Mpdus, \A m \in H : B <= m,
         NEW Q \in Nat, Q <= K, K <= Q + WinSize, NEW U \in Nat, K = B \/ K <= U,
         \A m \in bufferedMpdus \cup H : m < K + WinSize /\ m < Q + WinSize,
         Recipient!Release(bufferedMpdus \cup H, SeqOfMpdu(K)),
         delivered' = delivered \o forwardedUp', status' = "active",
         scoreboard' \in Windows, scoreboard'.winStart = SeqOfMpdu(Q),
         Acked(scoreboard', Q) \subseteq Acked(scoreboard, R) \cup H
  PROVE  \E C \in Nat : K <= C /\ Hears(B, C, U, H)
  <1> DEFINE buffer == bufferedMpdus \cup H
  <1>1. /\ B \in Nat /\ R \in Nat /\ winStartB = SeqOfMpdu(B)
        /\ bufferedMpdus \subseteq Mpdus /\ \A m \in bufferedMpdus : B < m
        /\ Acked(scoreboard, R) \subseteq Got(B)
    BY DEF RecipientAt
  <1>2. buffer \subseteq Mpdus /\ \A m \in buffer : m \in Nat /\ B <= m /\ m < K + WinSize
    BY <1>1, ConstantTypes DEF Mpdus
  <1>3. PICK C \in K .. K + WinSize :
            /\ winStartB' = SeqOfMpdu(C)
            /\ K .. C - 1 \subseteq buffer /\ C \notin buffer
            /\ bufferedMpdus' = {m \in buffer : m > C}
            /\ Promise!Deliver /\ Up(C)'
            /\ ToSet(delivered') = ToSet(delivered) \cup {m \in buffer : m < C}
    BY <1>1, <1>2, ReleasesUp
  <1>4. C \in Nat /\ K <= C /\ B <= C
    BY <1>1, <1>3, ConstantTypes
  <1>5. C = K \/ (C - 1 \in buffer /\ C = (C - 1) + 1)
    BY <1>3, <1>4
  <1>6. \A m \in buffer : m < C \/ m > C
    BY <1>2, <1>3, <1>4
  <1>7. C <= Q + WinSize
    BY <1>4, <1>5, ConstantTypes
  <1>8. \A m \in bufferedMpdus' : m \in Mpdus /\ C < m /\ m < Q + WinSize
    BY <1>2, <1>3
  <1>9. ASSUME NEW a \in Acked(scoreboard', Q)
        PROVE  a \in (0 .. C - 1) \cup bufferedMpdus'
    <2>1. a \in (0 .. B - 1) \cup buffer
      BY <1>1 DEF Got
    <2>2. CASE a \in 0 .. B - 1
      BY <1>1, <1>4, <2>2
    <2>3. CASE a \in buffer
      <3>1. a \in Nat /\ (a < C \/ a \in bufferedMpdus')
        BY <1>2, <1>3, <1>6, <2>3
      <3> QED
        BY <1>4, <3>1
    <2> QED
      BY <2>1, <2>2, <2>3
  <1>10. RecipientAt(C, Q)'
    BY <1>3, <1>4, <1>7, <1>8, <1>9 DEF RecipientAt, Got
  <1>11. \A m \in buffer : m \in ToSet(delivered') \cup bufferedMpdus'
    BY <1>3, <1>6
  <1>12. C > B => C <= U \/ \E n \in buffer : C <= n + 1
    BY <1>1, <1>4, <1>5
  <1>13. ASSUME NEW n \in B .. C - 1
         PROVE  n \in ToSet(delivered') \/ n < U
    <2>1. n \in Nat /\ B <= n /\ n < C
      BY <1>1, <1>4
    <2>2. CASE n < K
      BY <1>1, <2>1, <2>2
    <2>3. CASE n >= K
      <3>1. n \in K .. C - 1
        BY <1>4, <2>1, <2>3
      <3> QED
        BY <1>3, <2>1, <3>1
    <2> QED
      BY <2>1, <2>2, <2>3
  <1>14. bufferedMpdus' \subseteq buffer
    BY <1>3
  <1> QED
    BY <1>3, <1>4, <1>10, <1>11, <1>12, <1>13, <1>14 DEF Hears

LEMMA KeepHears ==
  ASSUME NEW B, NEW R, RecipientAt(B, R), Up(B),
         NEW H, H \subseteq 0 .. B - 1, NEW Q \in Nat, R <= Q, Q <= B, NEW U \in Nat,
         Recipient!Keep, delivered' = delivered \o forwardedUp', status' = "active",
         scoreboard' \in Windows, scoreboard'.winStart = SeqOfMpdu(Q),
         Acked(scoreboard', Q) \subseteq Acked(scoreboard, R) \cup H
  PROVE  Hears(B, B, U, H)
  <1>1. /\ B \in Nat /\ R \in Nat /\ winStartB = SeqOfMpdu(B) /\ B <= R + WinSize
        /\ bufferedMpdus \subseteq Mpdus /\ \A m \in bufferedMpdus : B < m /\ m < R + WinSize
        /\ Acked(scoreboard, R) \subseteq Got(B)
    BY DEF RecipientAt
  <1>2. winStartB' = winStartB /\ bufferedMpdus' = bufferedMpdus /\ delivered' = delivered
    BY DEF Recipient!Keep, Up
  <1>3. Up(B)'
    BY <1>2 DEF Up, Promise!Increasing
  <1>4. Promise!Deliver
    <2>1. SubSeq(delivered, 1, Len(delivered)) = delivered /\ Len(delivered) \in Nat
      BY DEF Up
    <2> QED
      BY <1>2, <2>1 DEF Up, Promise!Deliver, Promise!Increasing
  <1>5. \A m \in bufferedMpdus : m \in Nat /\ m < Q + WinSize
    BY <1>1, ConstantTypes DEF Mpdus
  <1>6. RecipientAt(B, Q)'
    <2>1. B <= Q + WinSize
      BY <1>1, ConstantTypes
    <2> QED
      BY <1>1, <1>2, <1>5, <2>1 DEF RecipientAt, Got
  <1>7. \A m \in H : ~(m >= B)
    BY <1>1
  <1>8. ~(B > B) /\ B <= B /\ B .. B - 1 = {}
    BY <1>1
  <1> QED
    BY <1>2, <1>3, <1>4, <1>6, <1>7, <1>8 DEF Hears

\* The start computed in a uint16_t, if it is a sequence number at all, is that
\* of the window that ends at the MPDU.
LEMMA NewStartMeans ==
  ASSUME NEW K \in Nat, NEW m \in Nat, m = K + (WinSize - 1),
         (SeqOfMpdu(m) - WinSize + 1) % U16 \in SeqNos
  PROVE  (SeqOfMpdu(m) - WinSize + 1) % U16 = SeqOfMpdu(K)
  <1> DEFINE x == SeqOfMpdu(m) - WinSize + 1
             k == SeqOfMpdu(K)
  <1>1. U16 \in Nat /\ SeqSpace <= U16 /\ U16 % SeqSpace = 0
    BY LinkAssumption DEF Recipient!RecipientAssumption
  <1>2. k \in 0 .. SeqSpace - 1 /\ WinSize - 1 \in 0 .. SeqSpace
    BY SeqOfMpduType, ConstantTypes DEF SeqNos
  <1>3. SeqOfMpdu(m) = IF k + (WinSize - 1) < SeqSpace THEN k + (WinSize - 1)
                       ELSE k + (WinSize - 1) - SeqSpace
    BY <1>2, SeqOfMpduMoves
  <1> HIDE DEF k
  <1>4. CASE k + (WinSize - 1) < SeqSpace
    <2>1. x = k /\ x \in Nat /\ x < U16
      BY <1>1, <1>2, <1>3, <1>4, ConstantTypes
    <2> HIDE DEF x
    <2>2. x % U16 = x
      BY <1>1, <2>1, SMTT(30)
    <2> QED
      BY <2>1, <2>2 DEF x, k
  <1>5. CASE ~(k + (WinSize - 1) < SeqSpace)
    <2>1. x = k - SeqSpace /\ x \in Int /\ x < 0 /\ -U16 <= x
      BY <1>1, <1>2, <1>3, <1>5, ConstantTypes
    <2> HIDE DEF x
    <2>2. x % U16 = x + U16
      BY <1>1, <2>1, SMTT(30)
    <2>3. x + U16 < SeqSpace
      BY <2>2, ConstantTypes DEF SeqNos, x
    <2>4. U16 < 2 * SeqSpace
      BY <1>1, <1>2, <2>1, <2>3, ConstantTypes
    <2>5. U16 % SeqSpace = U16 - SeqSpace
      BY <1>1, <2>4, ConstantTypes, SMTT(30)
    <2>6. U16 = SeqSpace
      BY <1>1, <2>5, ConstantTypes
    <2> QED
      BY <1>2, <2>1, <2>2, <2>6, ConstantTypes DEF x, k
  <1> QED
    BY <1>4, <1>5

LEMMA InsertMeans ==
  ASSUME NEW B, NEW R, RecipientAt(B, R), NEW m \in Mpdus, B <= m, m < B + SeqHalf
  PROVE  Recipient!Insert(m) = bufferedMpdus \cup {m}
  <1>1. B \in Nat /\ m \in Nat /\ R <= B /\ R \in Nat
        /\ \A n \in bufferedMpdus : n \in Nat /\ B <= n /\ n < B + SeqSpace /\ n \in Mpdus
    BY ConstantTypes DEF RecipientAt, Mpdus
  <1>2. ASSUME NEW n \in bufferedMpdus, SeqOfMpdu(n) = SeqOfMpdu(m)
        PROVE  n = m
    <2>1. Distance(SeqOfMpdu(n), SeqOfMpdu(B)) = n - B
      BY <1>1, DistanceAhead
    <2>2. Distance(SeqOfMpdu(m), SeqOfMpdu(B)) = m - B
      BY <1>1, DistanceAhead, ConstantTypes
    <2> QED
      BY <1>1, <1>2, <2>1, <2>2
  <1>3. (\E b \in bufferedMpdus : SeqOfMpdu(b) = SeqOfMpdu(m)) => m \in bufferedMpdus
    BY <1>2
  <1>4. Recipient!Insert(m) = IF \E b \in bufferedMpdus : SeqOfMpdu(b) = SeqOfMpdu(m)
                              THEN bufferedMpdus ELSE bufferedMpdus \cup {m}
    BY <1>1 DEF Recipient!Insert
  <1> QED
    BY <1>3, <1>4

LEMMA HearSound ==
  ASSUME NEW B, NEW R, RecipientAt(B, R), Up(B),
         NEW m \in Mpdus, m < R + SeqHalf, B <= m + SeqHalf,
         Recipient!NotifyReceivedMpdu(m), delivered' = delivered \o forwardedUp'
  PROVE  \/ /\ status' = "aborted" /\ B + WinSize <= m
            /\ UNCHANGED <<scoreboard, winStartB, bufferedMpdus, delivered>>
         \/ \E C \in Nat, U \in Nat : Hears(B, C, U, {m}) /\ (U = 0 \/ U + WinSize <= m + 1)
  <1> SUFFICES ASSUME status' # "aborted"
               PROVE  \E C \in Nat, U \in Nat :
                         Hears(B, C, U, {m}) /\ (U = 0 \/ U + WinSize <= m + 1)
    <2>1. ASSUME status' = "aborted"
          PROVE  /\ B + WinSize <= m
                 /\ UNCHANGED <<scoreboard, winStartB, bufferedMpdus, delivered>>
      <3>1. /\ Recipient!Ahead(m, winStartB) \in WinSize .. Recipient!SeqHalf - 1
            /\ UNCHANGED scoreboard /\ Recipient!Keep
        BY <2>1 DEF Recipient!NotifyReceivedMpdu, Recipient!ReceiveWithinWindow,
                    Recipient!ReceiveOld, Recipient!ReceiveBeyondWindow, Recipient!Keep
      <3>2. Distance(SeqOfMpdu(m), SeqOfMpdu(B)) \in WinSize .. SeqHalf - 1
        BY <3>1, RecipientAhead, RecipientNumbers DEF RecipientAt
      <3>3. B \in Nat /\ R \in Nat /\ R <= B /\ m \in Nat
        BY ConstantTypes DEF RecipientAt, Mpdus
      <3>4. ~(m < B)
        <4>1. m < B => Distance(SeqOfMpdu(m), SeqOfMpdu(B)) = SeqSpace - (B - m)
          BY <3>3, DistanceBehind
        <4> QED
          BY <3>2, <3>3, <4>1, ConstantTypes
      <3>5. Distance(SeqOfMpdu(m), SeqOfMpdu(B)) = m - B
        BY <3>3, <3>4, DistanceAhead, ConstantTypes
      <3>6. B + WinSize <= m
        BY <3>2, <3>3, <3>5, ConstantTypes
      <3> QED
        BY <3>1, <3>6 DEF Recipient!Keep, Up
    <2> QED
      BY <2>1
  <1>1. /\ B \in Nat /\ R \in Nat /\ R <= B /\ B <= R + WinSize /\ winStartB = SeqOfMpdu(B)
        /\ scoreboard \in Windows /\ scoreboard.winStart = SeqOfMpdu(R)
        /\ bufferedMpdus \subseteq Mpdus /\ \A n \in bufferedMpdus : n \in Nat /\ B < n /\ n < R + WinSize
        /\ m \in Nat
    BY ConstantTypes DEF RecipientAt, Mpdus
  <1> DEFINE v == Recipient!ScoreboardAfterMpdu(SeqOfMpdu(m))
             Q == IF m < R + WinSize THEN R ELSE m - WinSize + 1
             d == Distance(SeqOfMpdu(m), SeqOfMpdu(B))
  <1>2. /\ v \in Windows /\ v.winStart = SeqOfMpdu(Q) /\ Acked(v, Q) \subseteq Acked(scoreboard, R) \cup {m}
    BY <1>1, ScoreboardHears, ConstantTypes
  <1>3. Recipient!Ahead(m, winStartB) = d /\ (Recipient!IsOld(SeqOfMpdu(m), winStartB) <=> d >= SeqHalf)
    BY <1>1, RecipientAhead, RecipientNumbers DEF IsOld
  <1>4. Q \in Nat /\ R <= Q
    BY <1>1, ConstantTypes
  <1> HIDE DEF v, Q, d
  <1>5. \/ d < WinSize /\ scoreboard' = v /\ status' = "active"
           /\ Recipient!Release(Recipient!Insert(m), winStartB)
        \/ d \in WinSize .. SeqHalf - 1 /\ scoreboard' = v /\ status' = "active"
           /\ (SeqOfMpdu(m) - WinSize + 1) % U16 \in SeqNos
           /\ Recipient!Release(Recipient!Insert(m), (SeqOfMpdu(m) - WinSize + 1) % U16)
        \/ d >= SeqHalf /\ scoreboard' = v /\ status' = "active" /\ Recipient!Keep
    <2>1. /\ Recipient!ReceiveWithinWindow(m) =>
                d < WinSize /\ scoreboard' = v /\ Recipient!Release(Recipient!Insert(m), winStartB)
                /\ status' = status
      BY <1>3 DEF Recipient!ReceiveWithinWindow, v
    <2>2. Recipient!ReceiveOld(m) => d >= SeqHalf /\ scoreboard' = v /\ Recipient!Keep /\ status' = status
      BY <1>3 DEF Recipient!ReceiveOld, v
    <2>3. Recipient!ReceiveBeyondWindow(m) =>
           d \in WinSize .. SeqHalf - 1 /\ scoreboard' = v /\ status' = status
           /\ (SeqOfMpdu(m) - WinSize + 1) % U16 \in SeqNos
           /\ Recipient!Release(Recipient!Insert(m), (SeqOfMpdu(m) - WinSize + 1) % U16)
      BY <1>3, RecipientNumbers DEF Recipient!ReceiveBeyondWindow, v
    <2>4. status = "active" /\
          (Recipient!ReceiveWithinWindow(m) \/ Recipient!ReceiveBeyondWindow(m) \/ Recipient!ReceiveOld(m))
      BY DEF Recipient!NotifyReceivedMpdu
    <2> QED
      BY <2>1, <2>2, <2>3, <2>4
  <1>6. CASE m < B
    <2>1. d = SeqSpace - (B - m)
      BY <1>1, <1>6, DistanceBehind DEF d
    <2>2. d >= SeqHalf /\ ~(d < WinSize) /\ d \notin WinSize .. SeqHalf - 1
      BY <1>1, <1>6, <2>1, ConstantTypes
    <2>3. Recipient!Keep /\ status' = "active" /\ scoreboard' = v
      BY <1>5, <2>2
    <2>4. Q = R
      BY <1>1, <1>6, ConstantTypes DEF Q
    <2>5. {m} \subseteq 0 .. B - 1
      BY <1>1, <1>6
    <2>6. Hears(B, B, 0, {m})
      BY <1>1, <1>2, <1>4, <2>3, <2>4, <2>5, KeepHears
    <2> QED
      BY <1>1, <2>6
  <1>7. CASE B <= m
    <2>1. m < B + SeqHalf
      BY <1>1, ConstantTypes
    <2>2. d = m - B
      BY <1>1, <1>7, <2>1, DistanceAhead, ConstantTypes DEF d
    <2>3. Recipient!Insert(m) = bufferedMpdus \cup {m}
      BY <1>7, <2>1, InsertMeans
    <2>4. CASE m < B + WinSize
      <3>1. d < WinSize /\ d \notin WinSize .. SeqHalf - 1 /\ ~(d >= SeqHalf)
        BY <1>1, <1>7, <2>2, <2>4, ConstantTypes
      <3>2. Recipient!Release(bufferedMpdus \cup {m}, SeqOfMpdu(B)) /\ status' = "active" /\ scoreboard' = v
        BY <1>1, <1>5, <2>3, <3>1
      <3>3. /\ Q <= B /\ B <= Q + WinSize /\ B <= B /\ B <= B + SeqHalf
            /\ \A n \in bufferedMpdus \cup {m} : n < B + WinSize /\ n < Q + WinSize
        BY <1>1, <1>4, <2>4, ConstantTypes DEF Q
      <3>4. \E C \in Nat : B <= C /\ Hears(B, C, 0, {m})
        BY <1>1, <1>2, <1>4, <1>7, <3>2, <3>3, ReleaseHears
      <3> QED
        BY <3>4
    <2>5. CASE m >= B + WinSize
      <3> DEFINE K == m - WinSize + 1
      <3>1. /\ K \in Nat /\ B <= K /\ K <= m /\ K <= B + SeqHalf /\ Q = K /\ m = K + (WinSize - 1)
            /\ K <= Q /\ K <= Q + WinSize /\ K + WinSize <= m + 1
            /\ \A n \in bufferedMpdus \cup {m} : n < K + WinSize /\ n < Q + WinSize
        BY <1>1, <2>1, <2>5, ConstantTypes DEF Q
      <3> HIDE DEF K
      <3>2. ~(d < WinSize) /\ ~(d >= SeqHalf)
        BY <1>1, <2>1, <2>2, <2>5, ConstantTypes
      <3>3. /\ status' = "active" /\ scoreboard' = v
            /\ Recipient!Release(bufferedMpdus \cup {m}, SeqOfMpdu(K))
        BY <1>5, <2>3, <3>1, <3>2, NewStartMeans
      <3>4. \E C \in Nat : K <= C /\ Hears(B, C, K, {m})
        BY <1>1, <1>2, <1>4, <1>7, <3>1, <3>3, ReleaseHears
      <3> QED
        BY <3>1, <3>4
    <2>6. m < B + WinSize \/ m >= B + WinSize
      BY <1>1, ConstantTypes
    <2> QED
      BY <2>4, <2>5, <2>6
  <1>8. m < B \/ B <= m
    BY <1>1
  <1> QED
    BY <1>6, <1>7, <1>8

LEMMA HearBarSound ==
  ASSUME NEW B, NEW R, RecipientAt(B, R), Up(B), NEW U \in Nat, U < R + SeqHalf, B <= U + SeqHalf,
         Recipient!NotifyReceivedBar(SeqOfMpdu(U)), delivered' = delivered \o forwardedUp'
  PROVE  \E C \in Nat : U <= C /\ Hears(B, C, U, {})
  <1>1. /\ B \in Nat /\ R \in Nat /\ R <= B /\ B <= R + WinSize /\ winStartB = SeqOfMpdu(B)
        /\ scoreboard \in Windows /\ scoreboard.winStart = SeqOfMpdu(R)
        /\ \A n \in bufferedMpdus : n \in Nat /\ n < R + WinSize
    BY ConstantTypes DEF RecipientAt, Mpdus
  <1> DEFINE v == Recipient!ScoreboardAfterBar(SeqOfMpdu(U))
             Q == IF U > R THEN U ELSE R
             d == Distance(SeqOfMpdu(U), SeqOfMpdu(B))
  <1>2. v \in Windows /\ v.winStart = SeqOfMpdu(Q) /\ Acked(v, Q) \subseteq Acked(scoreboard, R) \cup {}
    BY <1>1, ScoreboardHearsBar, ConstantTypes
  <1>3. Q \in Nat /\ R <= Q
    BY <1>1
  <1>4. /\ status' = "active" /\ scoreboard' = v
        /\ IF d \in 1 .. SeqHalf - 1 THEN Recipient!Release(bufferedMpdus, SeqOfMpdu(U)) ELSE Recipient!Keep
    BY <1>1, RecipientNumbers DEF Recipient!NotifyReceivedBar, v, d
  <1> HIDE DEF v, d
  <1>5. CASE U <= B
    <2>1. ASSUME U < B PROVE d \notin 1 .. SeqHalf - 1
      <3>1. d = SeqSpace - (B - U)
        BY <1>1, <2>1, DistanceBehind DEF d
      <3>2. d \notin 1 .. SeqHalf - 1
        BY <1>1, <2>1, <3>1, ConstantTypes
      <3> QED
        BY <3>2
    <2>2. ASSUME U = B PROVE d \notin 1 .. SeqHalf - 1
      <3>1. d = 0
        BY <1>1, <2>2, DistanceAhead, ConstantTypes DEF d
      <3> QED
        BY <3>1
    <2>3. Recipient!Keep
      BY <1>1, <1>4, <1>5, <2>1, <2>2
    <2>4. Q <= B /\ {} \subseteq 0 .. B - 1
      BY <1>1, <1>5
    <2>5. Hears(B, B, U, {})
      BY <1>2, <1>3, <1>4, <2>3, <2>4, KeepHears
    <2> QED
      BY <1>1, <1>5, <2>5
  <1>6. CASE U > B
    <2>1. d = U - B
      BY <1>1, <1>6, DistanceAhead, ConstantTypes DEF d
    <2>2. d \in 1 .. SeqHalf - 1
      BY <1>1, <1>6, <2>1, ConstantTypes
    <2>3. Recipient!Release(bufferedMpdus \cup {}, SeqOfMpdu(U))
      BY <1>4, <2>2
    <2>4. /\ B <= U /\ U <= B + SeqHalf /\ Q <= U /\ U <= Q + WinSize /\ U <= U
          /\ \A n \in bufferedMpdus \cup {} : n < U + WinSize /\ n < Q + WinSize
          /\ \A n \in {} : B <= n
      BY <1>1, <1>6, ConstantTypes DEF Q
    <2> HIDE DEF Q
    <2>5. \E C \in Nat : U <= C /\ Hears(B, C, U, {})
      BY <1>2, <1>3, <1>4, <2>3, <2>4, ReleaseHears
    <2> QED
      BY <2>5
  <1> QED
    BY <1>1, <1>5, <1>6

-----------------------------------------------------------------------------
(***************************************************************************)
(* The inductive invariant                                                 *)
(***************************************************************************)
\* What the originator knows of a recipient that waits for MPDU B, or will wait
\* for MPDU T when it gets the BlockAckReq that has been sent.
Told(T, B) == [from |-> T, sent |-> B, got |-> Got(B) \cup (0 .. T - 1)]

\* What is on the air.
Air(B, T) ==
  /\ \A m \in airMpdus : m \in Mpdus /\ m < Unsent /\ nextMpdu <= m + WinSize
  /\ exchange.method = "ack" /\ exchange.step # "idle" => \E m \in Mpdus : exchange.mpdus = {m}
  /\ exchange.method = "ack" /\ exchange.step = "response" =>
        /\ airMpdus \subseteq exchange.mpdus
        /\ heard /\ status = "active" => exchange.mpdus \subseteq ToSet(delivered) \cup bufferedMpdus
  /\ exchange.step = "cts" => AirIsFree
  /\ exchange.method = "bar" =>
        exchange.step = "response" /\ exchange.mpdus = {} /\ airMpdus = {}
  /\ airBars \subseteq {SeqOfMpdu(T)}
  /\ T > 0 \/ airBars # {} =>
        /\ exchange.step = "response" /\ exchange.method = "bar" /\ ~heard
        /\ nextMpdu <= T + WinSize
  /\ setup \in Setups
  /\ ~TxopLimited => txop = FALSE /\ nextMpdu <= B + WinSize

\* The recipient waits for MPDU B, its scoreboard starts at MPDU R and the
\* originator's window at MPDU S: all before B that is still to be acknowledged
\* has gone up.
Link(B, R, S, T) ==
  /\ RecipientAt(B, R) /\ Up(B)
  /\ \A m \in bufferedMpdus : m < Unsent
  /\ acked \subseteq ToSet(delivered) \cup bufferedMpdus
  /\ \A m \in (S .. B - 1) \cup {n \in exchange.mpdus : n < B} : m \in ToSet(delivered)
  /\ exchange \in Exchanges /\ (exchange.step = "idle" => exchange.mpdus = {})
  /\ SoundFrom(S, Told(T, B))
  /\ Air(B, T)

LinkIInv == \E B, R, S, T \in Nat : Link(B, R, S, T)

\* With a TXOP limit data may go before a BlockAckReq, and how far the originator
\* then runs ahead of the recipient is bounded here only by how much there is to
\* send, as the length of a TXOP is not modelled; and with windows of a quarter of
\* the space a BlockAckReq may be half the space ahead of the scoreboard, which
\* takes it for old.
SpaceSuffices ==
  /\ 4 * WinSize < SeqSpace
  /\ MaxMpdu < SeqHalf \/ ~TxopLimited

LEMMA LinkNumbers ==
  ASSUME NEW B \in Nat, NEW R \in Nat, NEW S \in Nat, NEW T \in Nat, Link(B, R, S, T)
  PROVE  /\ R <= B /\ B <= R + WinSize /\ T <= S /\ S <= Unsent /\ B <= Unsent
         /\ Unsent \in Nat /\ nextMpdu \in Nat /\ Unsent <= nextMpdu
         /\ nextMpdu <= S + WinSize /\ nextMpdu <= MaxMpdu
         /\ exchange.step # "cts" => Unsent = nextMpdu
         /\ Sound(ba, S, Unsent, nextMpdu, overtaken, exchange.mpdus, Told(T, B))
         /\ exchange.mpdus \subseteq Mpdus
         /\ \A m \in exchange.mpdus : m \in Nat /\ m < nextMpdu /\ nextMpdu <= m + WinSize
         /\ ba.inFlight \subseteq Mpdus
         /\ \A m \in ba.inFlight : m \in Nat /\ S <= m /\ m < Unsent
  <1>1. Sound(ba, S, Unsent, nextMpdu, overtaken, exchange.mpdus, Told(T, B))
    BY DEF Link, SoundFrom
  <1>2. T \in 0 .. S /\ B \in 0 .. Unsent
    BY <1>1 DEF Sound, Told
  <1>3. S \in Nat /\ Unsent \in Nat /\ nextMpdu \in Nat /\ S <= Unsent /\ Unsent <= nextMpdu
        /\ nextMpdu <= S + WinSize /\ nextMpdu <= MaxMpdu
    BY <1>1, SoundNumbers
  <1>4. R <= B /\ B <= R + WinSize
    BY DEF Link, RecipientAt
  <1>5. exchange.mpdus \subseteq Mpdus
    BY DEF Link, Exchanges
  <1>6. \A m \in exchange.mpdus : m \in Nat /\ m < nextMpdu /\ nextMpdu <= m + WinSize
    BY <1>1, SoundPlace
  <1>7. ba.inFlight \subseteq S .. Unsent - 1
    BY <1>1 DEF Sound
  <1>8. ba.inFlight \subseteq Mpdus
    BY <1>3, <1>7, ConstantTypes DEF Mpdus
  <1> QED
    BY <1>1, <1>2, <1>3, <1>4, <1>5, <1>6, <1>7, <1>8 DEF Unsent

\* The originator never runs ahead of the scoreboard by half the space.
LEMMA WithinHalf ==
  ASSUME SpaceSuffices, NEW B \in Nat, NEW R \in Nat, NEW S \in Nat, NEW T \in Nat, Link(B, R, S, T)
  PROVE  nextMpdu < R + SeqHalf
  <1>1. R <= B /\ B <= R + WinSize /\ nextMpdu \in Nat /\ nextMpdu <= MaxMpdu
    BY LinkNumbers
  <1>2. 2 * WinSize < SeqHalf
    BY ConstantTypes DEF SpaceSuffices
  <1>3. CASE MaxMpdu < SeqHalf
    BY <1>1, <1>3, ConstantTypes
  <1>4. CASE ~TxopLimited
    <2>1. nextMpdu <= B + WinSize
      BY <1>4 DEF Link, Air
    <2> QED
      BY <1>1, <1>2, <2>1, ConstantTypes
  <1> QED
    BY <1>3, <1>4 DEF SpaceSuffices

\* The originator need not be told of what is before its window.
LEMMA SoundUntold ==
  ASSUME NEW P, NEW o, NEW S, NEW N, NEW M, NEW X, NEW H, Sound(o, S, N, M, X, H, P),
         NEW T \in 0 .. S, NEW Q, Q.from \in 0 .. P.from, Q.sent \in 0 .. P.sent,
         P.got \subseteq Q.got \cup (0 .. T - 1), o.bar # "none"
  PROVE  Sound(o, S, N, M, X, H, Q)
  <1>1. Acked(o.txWindow, S) \subseteq P.got /\ Acked(o.txWindow, S) \subseteq S .. N - 1
    BY DEF Sound
  <1>2. S \in Nat /\ N \in Nat
    BY SoundNumbers
  <1>3. Acked(o.txWindow, S) \subseteq Q.got
    BY <1>1, <1>2
  <1>4. P.from \in 0 .. S /\ P.sent \in 0 .. N
    BY DEF Sound
  <1>5. Q.from \in 0 .. S /\ Q.sent \in 0 .. N
    BY <1>2, <1>4
  <1> QED
    BY <1>3, <1>5 DEF Sound

LEMMA LinkOriginates ==
  ASSUME NEW B \in Nat, NEW R \in Nat, NEW S \in Nat, NEW T \in Nat, Link(B, R, S, T)
  PROVE  IInv([from |-> S, sent |-> Unsent, got |-> Got(B) \cup (0 .. T - 1)])
  <1>1. Sound(ba, S, Unsent, nextMpdu, overtaken, exchange.mpdus,
              [from |-> S, sent |-> Unsent, got |-> Told(T, B).got])
    BY LinkNumbers, SoundRebased
  <1>2. Told(T, B).got = Got(B) \cup (0 .. T - 1)
    BY DEF Told
  <1> QED
    BY <1>1, <1>2 DEF IInv, SoundFrom, Link

\* A step of the originator alone.
LEMMA LinkMoves ==
  ASSUME NEW B \in Nat, NEW R \in Nat, NEW S \in Nat, NEW T \in Nat, Link(B, R, S, T),
         NEW P, P.from = S, P.sent = Unsent, P.got = Got(B) \cup (0 .. T - 1), IInv(P)',
         NEW V \in Nat, V = T \/ (V = 0 /\ ba'.bar # "none"),
         UNCHANGED <<recipientVars, delivered>>,
         acked' \subseteq ToSet(delivered) \cup bufferedMpdus,
         \A n \in exchange'.mpdus : n \in exchange.mpdus \/ n >= S,
         Air(B, V)'
  PROVE  LinkIInv'
  <1>1. PICK S2 \in Nat : SoundFrom(S2, P)'
    BY DEF IInv
  <1>2. exchange' \in Exchanges /\ (exchange'.step = "idle" => exchange'.mpdus = {})
    BY DEF IInv
  <1>3. UNCHANGED <<scoreboard, winStartB, bufferedMpdus, delivered>>
    BY DEF recipientVars
  <1>4. Sound(ba', S2, Unsent', nextMpdu', overtaken', exchange'.mpdus, P)
    BY <1>1 DEF SoundFrom
  <1>5. /\ S2 \in Nat /\ Unsent' \in Nat /\ S <= S2 /\ Unsent <= Unsent' /\ Unsent \in Nat
    <2>1. P.from \in 0 .. S2 /\ P.sent \in 0 .. Unsent'
      BY <1>4 DEF Sound
    <2>2. Unsent' \in Nat
      BY <1>4, SoundNumbers
    <2> QED
      BY <2>1, <2>2, LinkNumbers
  <1>6. Got(B)' = Got(B)
    BY <1>3 DEF Got
  <1>7. SoundFrom(S2, Told(V, B))'
    <2> DEFINE Q == [from |-> V, sent |-> B, got |-> Got(B)' \cup (0 .. V - 1)]
    <2>1. T <= S /\ B <= Unsent
      BY LinkNumbers
    <2>2. /\ Q.from \in 0 .. P.from /\ Q.sent \in 0 .. P.sent
          /\ Q.from = V /\ Q.got = Got(B) \cup (0 .. V - 1)
      BY <1>5, <1>6, <2>1
    <2> HIDE DEF Q
    <2>3. Sound(ba', S2, Unsent', nextMpdu', overtaken', exchange'.mpdus, Q)
      <3>1. CASE V = T
        <4>1. P.got \subseteq Q.got
          BY <2>2, <3>1
        <4> QED
          BY <1>4, <2>2, <4>1, SoundForgets
      <3>2. CASE V = 0 /\ ba'.bar # "none"
        <4>1. P.got \subseteq Q.got \cup (0 .. T - 1) /\ T \in 0 .. S2
          BY <1>5, <2>1, <2>2
        <4> QED
          BY <1>4, <2>2, <3>2, <4>1, SoundUntold
      <3> QED
        BY <3>1, <3>2
    <2> QED
      BY <1>1, <2>3 DEF SoundFrom, Told, Q
  <1>8. /\ RecipientAt(B, R)' /\ Up(B)'
    <2>1. RecipientAt(B, R) /\ Up(B)
      BY DEF Link
    <2> QED
      BY <1>3, <2>1 DEF RecipientAt, Up, Got, Promise!Increasing
  <1>9. \A m \in bufferedMpdus' : m < Unsent'
    <2>1. \A m \in bufferedMpdus : m \in Nat /\ m < Unsent
      BY ConstantTypes DEF Link, RecipientAt, Mpdus
    <2> QED
      BY <1>3, <1>5, <2>1
  <1>10. \A m \in (S2 .. B - 1) \cup {n \in exchange'.mpdus : n < B} : m \in ToSet(delivered')
    <2>1. \A m \in (S .. B - 1) \cup {n \in exchange.mpdus : n < B} : m \in ToSet(delivered)
      BY DEF Link
    <2>2. \A m \in S2 .. B - 1 : m \in S .. B - 1
      BY <1>5
    <2>3. exchange'.mpdus \subseteq Mpdus
      BY <1>2 DEF Exchanges
    <2>4. \A n \in exchange'.mpdus : n < B => n \in S .. B - 1 \/ n \in exchange.mpdus
      BY <2>3, ConstantTypes DEF Mpdus
    <2> QED
      BY <1>3, <2>1, <2>2, <2>4
  <1>11. acked' \subseteq ToSet(delivered') \cup bufferedMpdus'
    BY <1>3
  <1>12. Link(B, R, S2, V)'
    BY <1>2, <1>7, <1>8, <1>9, <1>10, <1>11 DEF Link
  <1> QED
    BY <1>12 DEF LinkIInv

\* A step that leaves the exchange as it is.
LEMMA AirStays ==
  ASSUME NEW B \in Nat, NEW T \in Nat, Air(B, T), NEW P, IInv(P)', P.sent = Unsent, Unsent \in Nat,
         UNCHANGED <<setup, nextMpdu, exchange, txop, status, bufferedMpdus, delivered>>,
         airMpdus' \subseteq airMpdus, airBars' \subseteq airBars, heard' = heard
  PROVE  Air(B, T)'
  <1>1. Unsent' \in Nat /\ Unsent <= Unsent'
    <2>1. PICK S \in Nat : Sound(ba', S, Unsent', nextMpdu', overtaken', exchange'.mpdus, P)
      BY DEF IInv, SoundFrom
    <2>2. P.sent \in 0 .. Unsent'
      BY <2>1 DEF Sound
    <2>3. Unsent' \in Nat
      BY <2>1, SoundNumbers
    <2> QED
      BY <2>2, <2>3
  <1>2. \A m \in airMpdus' : m \in Mpdus /\ m < Unsent' /\ nextMpdu' <= m + WinSize
    <2>1. \A m \in airMpdus : m \in Mpdus /\ m \in Nat /\ m < Unsent /\ nextMpdu <= m + WinSize
      BY ConstantTypes DEF Air, Mpdus
    <2> QED
      BY <1>1, <2>1
  <1> QED
    BY <1>2 DEF Air, AirIsFree, TxopLimited

LEMMA QuietInv ==
  ASSUME NEW P, UNCHANGED vars
  PROVE  IInv(P) <=> IInv(P)'
  BY DEF vars, IInv, SoundFrom, Unsent, New, AfterRelease

LEMMA LoseLinks == LinkIInv /\ Lose => LinkIInv'
  <1> SUFFICES ASSUME LinkIInv, Lose
               PROVE  LinkIInv'
    OBVIOUS
  <1>1. PICK B \in Nat, R \in Nat, S \in Nat, T \in Nat : Link(B, R, S, T)
    BY DEF LinkIInv
  <1>2. PICK P : P = [from |-> S, sent |-> Unsent, got |-> Got(B) \cup (0 .. T - 1)]
    OBVIOUS
  <1>3. IInv(P)'
    <2>1. IInv(P)
      BY <1>1, <1>2, LinkOriginates
    <2> QED
      BY <2>1, QuietInv DEF Lose
  <1>4. UNCHANGED <<vars, recipientVars, heard, acked, delivered>>
        /\ airMpdus' \subseteq airMpdus /\ airBars' \subseteq airBars
    BY DEF Lose
  <1>5. Air(B, T)'
    BY <1>1, <1>2, <1>3, <1>4, AirStays, LinkNumbers DEF Link, recipientVars, vars
  <1> QED
    BY <1>1, <1>2, <1>3, <1>4, <1>5, LinkMoves DEF Link, vars

LEMMA LocalLinks == LinkIInv /\ Local /\ UNCHANGED setup => LinkIInv'
  <1> SUFFICES ASSUME LinkIInv, Local, UNCHANGED setup
               PROVE  LinkIInv'
    OBVIOUS
  <1>1. PICK B \in Nat, R \in Nat, S \in Nat, T \in Nat : Link(B, R, S, T)
    BY DEF LinkIInv
  <1>2. PICK P : P = [from |-> S, sent |-> Unsent, got |-> Got(B) \cup (0 .. T - 1)]
    OBVIOUS
  <1>3. IInv(P)'
    <2>1. IInv(P)
      BY <1>1, <1>2, LinkOriginates
    <2>2. Expire => UNCHANGED <<ba, nextMpdu, exchange, overtaken>>
      BY DEF Expire
    <2>3. UNCHANGED <<ba, nextMpdu, exchange, overtaken>> => IInv(P)'
      BY <2>1 DEF IInv, SoundFrom, Unsent, New, AfterRelease
    <2> QED
      BY <2>1, <2>2, <2>3, DiscardOnCollisionKeeps, WipeExpiredKeeps DEF Local
  <1>4. UNCHANGED <<nextMpdu, exchange, txop, airVars, recipientVars, acked, delivered>>
    BY DEF Local, DiscardOnCollision, WipeExpired, Expire
  <1>5. Air(B, T)'
    BY <1>1, <1>2, <1>3, <1>4, AirStays, LinkNumbers DEF Link, recipientVars, airVars
  <1> QED
    BY <1>1, <1>2, <1>3, <1>4, <1>5, LinkMoves DEF Link

\* An exchange has ended, and the air is free.
LEMMA AirWhenEnded ==
  ASSUME NEW B \in Nat, NEW T \in Nat, Air(B, T), AirIsFree,
         UNCHANGED <<setup, airMpdus, airBars>>, exchange' = Idle,
         txop' \in {txop, TxopLimited}, nextMpdu' <= nextMpdu, nextMpdu \in Nat, nextMpdu' \in Nat
  PROVE  Air(B, 0)'
  <1>1. setup' \in Setups /\ TxopLimited' = TxopLimited
    BY DEF Air, TxopLimited
  <1>2. ~TxopLimited => txop' = FALSE /\ nextMpdu' <= B + WinSize
    <2>1. setup.txopLimited \in BOOLEAN
      BY BlockAckManagerAssumption DEF Air, Setup
    <2> QED
      BY <2>1, ConstantTypes DEF Air, TxopLimited
  <1>3. airMpdus' = {} /\ airBars' = {}
    BY DEF AirIsFree
  <1> QED
    BY <1>1, <1>2, <1>3 DEF Air, Idle, AirIsFree

LEMMA TimeoutLinks == LinkIInv /\ Timeout /\ UNCHANGED setup => LinkIInv'
  <1> SUFFICES ASSUME LinkIInv, Timeout, UNCHANGED setup
               PROVE  LinkIInv'
    OBVIOUS
  <1>1. PICK B \in Nat, R \in Nat, S \in Nat, T \in Nat : Link(B, R, S, T)
    BY DEF LinkIInv
  <1>2. PICK P : P = [from |-> S, sent |-> Unsent, got |-> Got(B) \cup (0 .. T - 1)]
    OBVIOUS
  <1>3. IInv(P)'
    <2>1. IInv(P)
      BY <1>1, <1>2, LinkOriginates
    <2> QED
      BY <2>1, AckTimeoutKeeps, BlockAckTimeoutKeeps, CtsTimeoutKeeps DEF Timeout
  <1>4. /\ exchange' = Idle /\ txop' = txop
        /\ AirIsFree /\ UNCHANGED <<airMpdus, airBars, recipientVars, acked, delivered>>
    BY DEF Timeout, AckTimeout, BlockAckTimeout, CtsTimeout, EndExchange
  <1>5. nextMpdu' <= nextMpdu /\ nextMpdu' \in Nat /\ nextMpdu \in Nat
    <2>1. nextMpdu \in Nat /\ Unsent \in Nat /\ Unsent <= nextMpdu
      BY <1>1, LinkNumbers
    <2>2. CtsTimeout => nextMpdu' = Unsent
      BY DEF CtsTimeout, Unsent
    <2>3. AckTimeout \/ BlockAckTimeout => nextMpdu' = nextMpdu
      BY DEF AckTimeout, BlockAckTimeout
    <2> QED
      BY <2>1, <2>2, <2>3 DEF Timeout
  <1>6. Air(B, 0)'
    BY <1>1, <1>4, <1>5, AirWhenEnded DEF Link
  <1>7. T = 0 \/ ba'.bar # "none"
    <2>1. SUFFICES ASSUME T > 0
                   PROVE  ba'.bar # "none"
      BY <1>1
    <2>2. exchange.step = "response" /\ exchange.method = "bar"
      BY <1>1, <2>1 DEF Link, Air
    <2>3. BlockAckTimeout
      BY <2>2 DEF Timeout, AckTimeout, CtsTimeout
    <2>4. DropToFirstAlive(ba) \in BA
      <3>1. IInv(P)
        BY <1>1, <1>2, LinkOriginates
      <3>2. \E N \in Nat : Sound(ba, N, nextMpdu, nextMpdu, overtaken, exchange.mpdus, P)
        BY <2>2, <3>1, AllOnAir
      <3>3. PICK N \in Nat : Sound(ba, N, nextMpdu, nextMpdu, overtaken, {}, P)
        BY <3>2, SoundWeakens
      <3>4. \E U \in Nat : Sound(DropToFirstAlive(ba), U, nextMpdu, nextMpdu, overtaken, {}, P)
        BY <1>1, <3>3, AllHandledSound, LinkNumbers DEF DropToFirstAlive
      <3> QED
        BY <3>4 DEF Sound
    <2>5. \E b \in {"always", "ifData"} : ba' = [DropToFirstAlive(ba) EXCEPT !.bar = b]
      BY <2>2, <2>3 DEF BlockAckTimeout
    <2> QED
      BY <2>4, <2>5 DEF BA
  <1> QED
    BY <1>1, <1>2, <1>3, <1>4, <1>6, <1>7, LinkMoves DEF Link, Idle

LEMMA HandedUp ==
  ASSUME NEW B \in Nat, NEW R \in Nat, NEW S \in Nat, NEW T \in Nat, Link(B, R, S, T)
  PROVE  /\ ToSet(delivered) \cup bufferedMpdus \subseteq Got(B)
         /\ \A m \in Got(B) : m >= S \/ m \in exchange.mpdus => m \in ToSet(delivered) \cup bufferedMpdus
  <1>1. \A m \in ToSet(delivered) : m \in Nat /\ m < B
    BY ConstantTypes DEF Link, Up, ToSet, Mpdus
  <1>2. \A m \in 0 .. B - 1 : m >= S \/ m \in exchange.mpdus => m \in ToSet(delivered)
    BY DEF Link
  <1> QED
    BY <1>1, <1>2 DEF Got

\* A BlockAck speaks of no other MPDUs than the ones in flight that it means.
LEMMA ReportedMeans ==
  ASSUME SpaceSuffices, NEW B \in Nat, NEW R \in Nat, NEW S \in Nat, NEW T \in Nat, Link(B, R, S, T)
  PROVE  ba.inFlight \cap Reported \subseteq Got(B)
  <1> SUFFICES ASSUME NEW m \in ba.inFlight, m \in Reported
               PROVE  m \in Got(B)
    OBVIOUS
  <1>1. /\ scoreboard.winStart = SeqOfMpdu(R) /\ Acked(scoreboard, R) \subseteq Got(B)
    BY DEF Link, RecipientAt
  <1>2. PICK d \in Marked(scoreboard) : SeqOfMpdu(m) = Plus(scoreboard.winStart, d)
    BY RecipientNumbers, RecipientWindows DEF Reported, Recipient!BlockAckBitmap
  <1>3. d \in Nat /\ d < WinSize /\ d \in 0 .. SeqSpace
    BY <1>2, ConstantTypes DEF Marked, Offsets
  <1>4. SeqOfMpdu(m) = SeqOfMpdu(R + d)
    BY <1>1, <1>2, <1>3, SeqOfMpduMoves
  <1>5. /\ m \in Nat /\ m < nextMpdu /\ nextMpdu \in Nat /\ nextMpdu < R + SeqHalf /\ R <= m + WinSize
    BY LinkNumbers, WithinHalf, ConstantTypes
  <1>6. m = R + d
    <2> DEFINE a == R + d
    <2>1. a \in Nat /\ m < a + SeqSpace /\ a < m + SeqSpace /\ a <= m + SeqHalf
      BY <1>3, <1>5, ConstantTypes
    <2> HIDE DEF a
    <2>2. SeqOfMpdu(m) = SeqOfMpdu(a)
      BY <1>4 DEF a
    <2>3. Distance(SeqOfMpdu(a), SeqOfMpdu(a)) = 0
      BY <2>1, DistanceAhead, ConstantTypes
    <2>4. m >= a => Distance(SeqOfMpdu(m), SeqOfMpdu(a)) = m - a
      BY <1>5, <2>1, DistanceAhead
    <2>5. m < a => Distance(SeqOfMpdu(m), SeqOfMpdu(a)) = SeqSpace - (a - m)
      BY <1>5, <2>1, DistanceBehind
    <2>6. m = a
      BY <1>5, <2>1, <2>2, <2>3, <2>4, <2>5, ConstantTypes
    <2> QED
      BY <2>6 DEF a
  <1>7. m \in Acked(scoreboard, R)
    BY <1>2, <1>6 DEF Acked
  <1> QED
    BY <1>1, <1>7

LEMMA HearResponseLinks ==
  SpaceSuffices /\ LinkIInv /\ status = "active" /\ HearResponse /\ UNCHANGED setup => LinkIInv'
  <1> SUFFICES ASSUME SpaceSuffices, LinkIInv, status = "active", HearResponse, UNCHANGED setup
               PROVE  LinkIInv'
    OBVIOUS
  <1>1. PICK B \in Nat, R \in Nat, S \in Nat, T \in Nat : Link(B, R, S, T)
    BY DEF LinkIInv
  <1>2. PICK P : P = [from |-> S, sent |-> Unsent, got |-> Got(B) \cup (0 .. T - 1)]
    OBVIOUS
  <1>3. IInv(P)
    BY <1>1, <1>2, LinkOriginates
  <1>4. /\ exchange' = Idle /\ txop' = TxopLimited /\ nextMpdu' = nextMpdu
        /\ AirIsFree /\ heard /\ UNCHANGED <<airMpdus, airBars, recipientVars, delivered>>
    BY DEF HearResponse, ReceiveAck, ReceiveBlockAck, EndExchange
  <1>5. T = 0
    BY <1>1, <1>4 DEF Link, Air
  <1>6. Air(B, 0)'
    BY <1>1, <1>4, AirWhenEnded, LinkNumbers DEF Link
  <1>7. acked \subseteq ToSet(delivered) \cup bufferedMpdus
    BY <1>1 DEF Link
  <1>8. IInv(P)' /\ acked' \subseteq ToSet(delivered) \cup bufferedMpdus
    <2>1. CASE ReceiveAck /\ acked' = acked \cup exchange.mpdus
      <3>1. exchange.mpdus \subseteq ToSet(delivered) \cup bufferedMpdus
        BY <1>1, <1>4, <2>1 DEF Link, Air, ReceiveAck
      <3>2. exchange.mpdus \subseteq P.got
        BY <1>1, <1>2, <3>1, HandedUp
      <3>3. IInv(P)'
        BY <1>3, <2>1, <3>2, ReceiveAckKeeps
      <3> QED
        BY <1>7, <2>1, <3>1, <3>3
    <2>2. CASE ReceiveBlockAck(Reported) /\ acked' = acked \cup (ba.inFlight \cap Reported)
      <3>1. ba.inFlight \cap Reported \subseteq Got(B)
        BY <1>1, ReportedMeans
      <3>2. ba.inFlight \cap Reported \subseteq P.got
        BY <1>2, <3>1
      <3>3. IInv(P)'
        BY <1>3, <2>2, <3>2, ReceiveBlockAckKeeps
      <3>4. \A m \in ba.inFlight : m >= S
        BY <1>1, LinkNumbers
      <3>5. ba.inFlight \cap Reported \subseteq ToSet(delivered) \cup bufferedMpdus
        BY <1>1, <3>1, <3>4, HandedUp
      <3> QED
        BY <1>7, <2>2, <3>3, <3>5
    <2> QED
      BY <2>1, <2>2 DEF HearResponse
  <1> QED
    BY <1>1, <1>2, <1>4, <1>5, <1>6, <1>8, LinkMoves DEF Idle

LEMMA SoundTold ==
  ASSUME NEW P, NEW o, NEW S, NEW N, NEW M, NEW X, NEW H, Sound(o, S, N, M, X, H, P),
         NEW Q, Q.from \in 0 .. S, Q.sent \in 0 .. N, P.got \subseteq Q.got
  PROVE  Sound(o, S, N, M, X, H, Q)
  BY DEF Sound

LEMMA SendBarLinks == LinkIInv /\ LinkSendBar /\ UNCHANGED setup => LinkIInv'
  <1> SUFFICES ASSUME LinkIInv, LinkSendBar, UNCHANGED setup
               PROVE  LinkIInv'
    OBVIOUS
  <1>1. PICK B \in Nat, R \in Nat, S \in Nat, T \in Nat : Link(B, R, S, T)
    BY DEF LinkIInv
  <1>2. PICK P : P = [from |-> S, sent |-> Unsent, got |-> Got(B) \cup (0 .. T - 1)]
    OBVIOUS
  <1>3. IInv(P) /\ SendBar
    BY <1>1, <1>2, LinkOriginates DEF LinkSendBar
  <1>4. PICK U \in Nat :
            /\ ba'.txWindow.winStart = SeqOfMpdu(U)
            /\ Sound(ba', U, nextMpdu, nextMpdu, overtaken, {},
                     [from |-> U, sent |-> nextMpdu, got |-> P.got \cup (0 .. U - 1)])
            /\ P.from <= U
    BY <1>3, SendBarSound
  <1>5. /\ exchange.step = "idle" /\ exchange' = [step |-> "response", method |-> "bar", mpdus |-> {}]
        /\ txop' \in {txop, FALSE} /\ nextMpdu' = nextMpdu /\ overtaken' = overtaken
        /\ AirIsFree /\ airMpdus' = airMpdus /\ airBars' = {SeqOfMpdu(U)} /\ heard' = FALSE
        /\ UNCHANGED <<recipientVars, acked, delivered>>
    BY <1>4 DEF LinkSendBar, SendBar, CanSendBar, TxopStates
  <1>6. T = 0 /\ S <= U /\ U <= nextMpdu /\ nextMpdu <= U + WinSize /\ B <= nextMpdu /\ nextMpdu \in Nat
        /\ Unsent = nextMpdu
    <2>1. T = 0
      BY <1>1, <1>5 DEF Link, Air
    <2>2. U <= nextMpdu /\ nextMpdu <= U + WinSize
      BY <1>4, SoundNumbers
    <2> QED
      BY <1>1, <1>2, <1>4, <1>5, <2>1, <2>2, LinkNumbers
  <1>7. UNCHANGED <<scoreboard, winStartB, bufferedMpdus, status, delivered, acked>>
    BY <1>5 DEF recipientVars
  <1>8. Unsent' = nextMpdu /\ Got(B)' = Got(B)
    BY <1>5, <1>7 DEF Unsent, Got
  <1>9. SoundFrom(U, Told(U, B))'
    <2> DEFINE Q == [from |-> U, sent |-> B, got |-> Got(B)' \cup (0 .. U - 1)]
    <2>1. Q.from \in 0 .. U /\ Q.sent \in 0 .. nextMpdu /\ P.got \cup (0 .. U - 1) \subseteq Q.got
      BY <1>2, <1>6, <1>8
    <2> HIDE DEF Q
    <2>2. Sound(ba', U, nextMpdu, nextMpdu, overtaken, {}, Q)
      BY <1>4, <2>1, SoundTold
    <2> QED
      BY <1>5, <1>8, <2>2 DEF SoundFrom, Told, Q
  <1>10. RecipientAt(B, R)' /\ Up(B)'
    <2>1. RecipientAt(B, R) /\ Up(B)
      BY <1>1 DEF Link
    <2> QED
      BY <1>7, <2>1 DEF RecipientAt, Up, Got, Promise!Increasing
  <1>11. /\ \A m \in bufferedMpdus' : m < Unsent'
         /\ acked' \subseteq ToSet(delivered') \cup bufferedMpdus'
    BY <1>1, <1>6, <1>7, <1>8 DEF Link
  <1>12. \A m \in (U .. B - 1) \cup {n \in exchange'.mpdus : n < B} : m \in ToSet(delivered')
    <2>1. \A m \in S .. B - 1 : m \in ToSet(delivered)
      BY <1>1 DEF Link
    <2>2. \A m \in U .. B - 1 : m \in S .. B - 1
      BY <1>6
    <2> QED
      BY <1>5, <1>7, <2>1, <2>2
  <1>13. Air(B, U)'
    <2>1. setup' \in Setups /\ TxopLimited' = TxopLimited /\ (~TxopLimited => txop' = FALSE /\ nextMpdu' <= B + WinSize)
      BY <1>1, <1>5 DEF Link, Air, TxopLimited
    <2>2. airMpdus' = {}
      BY <1>5 DEF AirIsFree
    <2> QED
      BY <1>5, <1>6, <2>1, <2>2 DEF Air
  <1>14. exchange' \in Exchanges
    BY <1>5 DEF Exchanges
  <1>15. Link(B, R, U, U)'
    BY <1>5, <1>9, <1>10, <1>11, <1>12, <1>13, <1>14 DEF Link
  <1> QED
    BY <1>1, <1>15 DEF LinkIInv

\* A step of the recipient alone.
LEMMA RecipientMoves ==
  ASSUME NEW B \in Nat, NEW R \in Nat, NEW S \in Nat, NEW T \in Nat, Link(B, R, S, T),
         NEW C \in Nat, NEW U \in Nat, NEW H, Hears(B, C, U, H), UNCHANGED <<vars, acked>>,
         U <= S, \A n \in exchange.mpdus : U <= n, T <= C, C <= Unsent, H \subseteq 0 .. Unsent - 1,
         Air(C, 0)'
  PROVE  LinkIInv'
  <1>1. UNCHANGED <<ba, nextMpdu, exchange, overtaken>> /\ Unsent' = Unsent /\ New(ba)' = New(ba)
    BY DEF vars, Unsent, New, AfterRelease
  <1>2. PICK Q \in Nat : RecipientAt(C, Q)'
    BY DEF Hears
  <1>3. /\ Up(C)' /\ B <= C
        /\ bufferedMpdus' \subseteq bufferedMpdus \cup H
        /\ ToSet(delivered) \cup bufferedMpdus \subseteq ToSet(delivered') \cup bufferedMpdus'
        /\ \A n \in B .. C - 1 : n \in ToSet(delivered') \/ n < U
    BY DEF Hears
  <1>4. \A m \in bufferedMpdus' : C < m /\ m \in Nat
    BY <1>2, ConstantTypes DEF RecipientAt, Mpdus
  <1>5. \A m \in ToSet(delivered') : m < C /\ m \in Nat
    BY <1>3, ConstantTypes DEF Up, ToSet, Mpdus
  <1>6. Got(B) \subseteq Got(C)'
    BY <1>3, <1>5 DEF Got
  <1>7. SoundFrom(S, Told(0, C))'
    <2> DEFINE V == [from |-> 0, sent |-> C, got |-> Got(C)' \cup (0 .. -1)]
    <2>1. V.from \in 0 .. S /\ V.sent \in 0 .. Unsent
      BY LinkNumbers
    <2>2. Told(T, B).got \subseteq V.got
      <3>1. 0 .. T - 1 \subseteq Got(C)'
        BY DEF Got
      <3> QED
        BY <1>6, <3>1 DEF Told
    <2> HIDE DEF V
    <2>3. Sound(ba, S, Unsent, nextMpdu, overtaken, exchange.mpdus, V)
      BY <2>1, <2>2, LinkNumbers, SoundTold
    <2>4. Told(0, C)' = V
      BY DEF Told, V
    <2> QED
      BY <1>1, <2>3, <2>4 DEF SoundFrom, Link
  <1>8. \A m \in bufferedMpdus' : m < Unsent'
    <2>1. \A m \in bufferedMpdus : m < Unsent
      BY DEF Link
    <2>2. Unsent \in Nat
      BY LinkNumbers
    <2>3. \A m \in H : m < Unsent
      BY <2>2
    <2> QED
      BY <1>1, <1>3, <2>1, <2>3
  <1>9. acked' \subseteq ToSet(delivered') \cup bufferedMpdus'
    BY <1>3 DEF Link
  <1>10. ASSUME NEW m \in (S .. C - 1) \cup {n \in exchange.mpdus : n < C}
         PROVE  m \in ToSet(delivered')
    <2>1. m \in Nat /\ m < C /\ U <= m
      <3>1. CASE m \in S .. C - 1
        BY <3>1
      <3>2. CASE m \in exchange.mpdus /\ m < C
        BY <3>2, LinkNumbers
      <3> QED
        BY <1>10, <3>1, <3>2
    <2>2. CASE m < B
      <3>1. m \in ToSet(delivered)
        BY <2>1, <2>2 DEF Link
      <3> QED
        BY <1>3, <1>4, <2>1, <3>1
    <2>3. CASE m >= B
      BY <1>3, <2>1, <2>3
    <2> QED
      BY <2>1, <2>2, <2>3
  <1>11. Link(C, Q, S, 0)'
    BY <1>1, <1>2, <1>3, <1>7, <1>8, <1>9, <1>10 DEF Link
  <1> QED
    BY <1>11 DEF LinkIInv

LEMMA HearBarMeans ==
  ASSUME SpaceSuffices, NEW B \in Nat, NEW R \in Nat, NEW S \in Nat, NEW T \in Nat, Link(B, R, S, T),
         HearBar
  PROVE  \E C \in Nat : T <= C /\ Hears(B, C, T, {})
  <1>1. nextMpdu <= T + WinSize /\ Recipient!NotifyReceivedBar(SeqOfMpdu(T))
    BY DEF HearBar, Link, Air
  <1>2. delivered' = delivered \o forwardedUp' /\ RecipientAt(B, R) /\ Up(B)
    BY DEF HearBar, Link
  <1>3. T < R + SeqHalf /\ B <= T + SeqHalf
    <2>1. T <= S /\ S <= Unsent /\ B <= Unsent /\ Unsent \in Nat /\ Unsent <= nextMpdu /\ nextMpdu \in Nat
      BY LinkNumbers
    <2>2. nextMpdu < R + SeqHalf
      BY WithinHalf
    <2> QED
      BY <1>1, <2>1, <2>2, ConstantTypes
  <1> QED
    BY <1>1, <1>2, <1>3, HearBarSound

LEMMA HearBarLinks == SpaceSuffices /\ LinkIInv /\ HearBar /\ UNCHANGED setup => LinkIInv'
  <1> SUFFICES ASSUME SpaceSuffices, LinkIInv, HearBar
               PROVE  LinkIInv'
    OBVIOUS
  <1>1. PICK B \in Nat, R \in Nat, S \in Nat, T \in Nat : Link(B, R, S, T)
    BY DEF LinkIInv
  <1>2. exchange.step = "response" /\ exchange.method = "bar" /\ exchange.mpdus = {} /\ airMpdus = {}
    BY <1>1 DEF HearBar, Link, Air
  <1>3. /\ airBars' = {} /\ heard' = TRUE
        /\ UNCHANGED <<vars, airMpdus, acked>>
    BY DEF HearBar
  <1>4. nextMpdu \in Nat /\ T <= S
    BY <1>1, LinkNumbers
  <1>5. PICK C \in Nat : T <= C /\ Hears(B, C, T, {})
    BY <1>1, HearBarMeans
  <1>6. C <= Unsent /\ B <= C
    <2>1. \A n \in bufferedMpdus : n < Unsent /\ n \in Nat
      BY <1>1, ConstantTypes DEF Link, RecipientAt, Mpdus
    <2>2. C > B => C <= T \/ \E n \in bufferedMpdus : C <= n + 1
      BY <1>5 DEF Hears
    <2>3. T <= Unsent /\ B <= Unsent /\ Unsent \in Nat
      BY <1>1, LinkNumbers
    <2>4. B <= C
      BY <1>5 DEF Hears
    <2> QED
      BY <2>1, <2>2, <2>3, <2>4
  <1>7. Air(C, 0)'
    <2>1. UNCHANGED <<setup, nextMpdu, exchange, txop>>
      BY <1>3 DEF vars
    <2>2. setup' \in Setups /\ TxopLimited' = TxopLimited /\ (~TxopLimited => txop = FALSE /\ nextMpdu <= B + WinSize)
      BY <1>1, <2>1 DEF Link, Air, TxopLimited
    <2>3. nextMpdu <= B + WinSize => nextMpdu <= C + WinSize
      BY <1>4, <1>6, ConstantTypes
    <2> QED
      BY <1>2, <1>3, <2>1, <2>2, <2>3 DEF Air
  <1> QED
    BY <1>1, <1>2, <1>3, <1>4, <1>5, <1>6, <1>7, RecipientMoves

LEMMA HearMeans ==
  ASSUME SpaceSuffices, NEW B \in Nat, NEW R \in Nat, NEW S \in Nat, NEW T \in Nat, Link(B, R, S, T),
         Hear, NEW m, m = Min(airMpdus)
  PROVE  /\ m \in airMpdus /\ m \in Mpdus /\ m \in Nat /\ m < Unsent /\ nextMpdu <= m + WinSize
         /\ airMpdus # {} /\ airMpdus' = airMpdus \ {m}
         /\ \/ /\ status' = "aborted" /\ B + WinSize <= m
               /\ UNCHANGED <<scoreboard, winStartB, bufferedMpdus, delivered>>
            \/ \E C \in Nat, U \in Nat : Hears(B, C, U, {m}) /\ (U = 0 \/ U + WinSize <= m + 1)
  <1>1. /\ airMpdus # {} /\ Recipient!NotifyReceivedMpdu(m) /\ airMpdus' = airMpdus \ {m}
        /\ delivered' = delivered \o forwardedUp'
    BY DEF Hear
  <1>2. /\ m \in airMpdus /\ m \in Mpdus /\ m \in Nat /\ m < Unsent /\ nextMpdu <= m + WinSize
    <2>1. airMpdus \subseteq Nat
      BY ConstantTypes DEF Link, Air, Mpdus
    <2>2. m \in airMpdus
      BY <1>1, <2>1, MinOf
    <2> QED
      BY <2>1, <2>2 DEF Link, Air
  <1>3. m < R + SeqHalf /\ B <= m + SeqHalf
    <2>1. Unsent \in Nat /\ nextMpdu \in Nat /\ Unsent <= nextMpdu /\ B <= Unsent
      BY LinkNumbers
    <2>2. nextMpdu < R + SeqHalf
      BY WithinHalf
    <2> QED
      BY <1>2, <2>1, <2>2, ConstantTypes
  <1>4. RecipientAt(B, R) /\ Up(B)
    BY DEF Link
  <1> QED
    BY <1>1, <1>2, <1>3, <1>4, HearSound

LEMMA HearLinks == SpaceSuffices /\ LinkIInv /\ Hear /\ UNCHANGED setup => LinkIInv'
  <1> SUFFICES ASSUME SpaceSuffices, LinkIInv, Hear
               PROVE  LinkIInv'
    OBVIOUS
  <1>1. PICK B \in Nat, R \in Nat, S \in Nat, T \in Nat : Link(B, R, S, T)
    BY DEF LinkIInv
  <1>2. PICK m : m = Min(airMpdus)
    OBVIOUS
  <1>3. /\ airMpdus # {} /\ airMpdus' = airMpdus \ {m} /\ heard' = TRUE
        /\ UNCHANGED <<vars, airBars, acked>>
    BY <1>2 DEF Hear
  <1>4. /\ m \in airMpdus /\ m \in Mpdus /\ m \in Nat /\ m < Unsent /\ nextMpdu <= m + WinSize
    BY <1>1, <1>2, HearMeans
  <1>5. T = 0 /\ exchange.method # "bar" /\ exchange.step # "cts" /\ airBars = {}
    BY <1>1, <1>3 DEF Link, Air, AirIsFree
  <1>6. /\ Unsent \in Nat /\ nextMpdu \in Nat /\ Unsent <= nextMpdu /\ B <= Unsent
        /\ nextMpdu <= S + WinSize
    BY <1>1, LinkNumbers
  <1>7. RecipientAt(B, R) /\ Up(B)
    BY <1>1 DEF Link
  <1>8. /\ UNCHANGED <<setup, ba, nextMpdu, exchange, txop, overtaken>> /\ Unsent' = Unsent
        /\ TxopLimited' = TxopLimited
    BY <1>3 DEF vars, Unsent, New, AfterRelease, TxopLimited
  <1>9. CASE /\ status' = "aborted" /\ UNCHANGED <<scoreboard, winStartB, bufferedMpdus, delivered>>
    <2>1. Air(B, T)'
      <3>1. \A n \in airMpdus' : n \in Mpdus /\ n < Unsent' /\ nextMpdu' <= n + WinSize
        BY <1>1, <1>3, <1>8 DEF Link, Air
      <3>2. ~(exchange'.method = "bar") /\ ~(exchange'.step = "cts") /\ ~(T > 0 \/ airBars' # {})
        BY <1>3, <1>5, <1>8
      <3> QED
        BY <1>1, <1>3, <1>8, <1>9, <3>1, <3>2 DEF Link, Air
    <2>2. RecipientAt(B, R)' /\ Up(B)'
      BY <1>7, <1>9 DEF RecipientAt, Up, Got, Promise!Increasing
    <2>3. SoundFrom(S, Told(T, B))'
      <3>1. SoundFrom(S, Told(T, B)) /\ Told(T, B)' = Told(T, B)
        BY <1>1, <1>9 DEF Link, Told, Got
      <3> QED
        BY <1>8, <3>1 DEF SoundFrom, New
    <2>4. Link(B, R, S, T)'
      BY <1>1, <1>3, <1>8, <1>9, <2>1, <2>2, <2>3 DEF Link
    <2> QED
      BY <1>1, <2>4 DEF LinkIInv
  <1>10. ASSUME NEW C \in Nat, NEW U \in Nat, Hears(B, C, U, {m}), U = 0 \/ U + WinSize <= m + 1
         PROVE  LinkIInv'
    <2>1. U <= S /\ U < Unsent /\ \A n \in exchange.mpdus : U <= n
      <3>1. \A n \in exchange.mpdus : n \in Nat /\ nextMpdu <= n + WinSize
        BY <1>1, LinkNumbers
      <3>2. U # 0 => U <= S /\ U < Unsent /\ \A n \in exchange.mpdus : U <= n
        BY <1>4, <1>6, <1>10, <3>1, ConstantTypes
      <3> QED
        BY <1>4, <1>6, <3>1, <3>2
    <2>2. /\ B <= C
          /\ C > B => C <= U \/ \E n \in bufferedMpdus \cup {m} : C <= n + 1
          /\ ToSet(delivered) \cup bufferedMpdus \subseteq ToSet(delivered') \cup bufferedMpdus'
          /\ m >= B => m \in ToSet(delivered') \cup bufferedMpdus'
      BY <1>10 DEF Hears
    <2>3. C <= Unsent
      <3>1. \A n \in bufferedMpdus : n < Unsent /\ n \in Nat
        BY <1>1, ConstantTypes DEF Link, RecipientAt, Mpdus
      <3> QED
        BY <1>4, <1>6, <2>1, <2>2, <3>1
    <2>4. {m} \subseteq 0 .. Unsent - 1
      BY <1>4, <1>6
    <2>5. Air(C, 0)'
      <3>1. \A n \in airMpdus' : n \in Mpdus /\ n < Unsent' /\ nextMpdu' <= n + WinSize
        BY <1>1, <1>3, <1>8 DEF Link, Air
      <3>2. ~(exchange'.method = "bar") /\ ~(exchange'.step = "cts") /\ ~(0 > 0 \/ airBars' # {}) /\ airBars' = {}
        BY <1>3, <1>5, <1>8
      <3>3. ASSUME exchange.method = "ack", exchange.step = "response"
            PROVE  /\ airMpdus' \subseteq exchange.mpdus
                   /\ exchange.mpdus \subseteq ToSet(delivered') \cup bufferedMpdus'
        <4>1. airMpdus \subseteq exchange.mpdus /\ \E n \in Mpdus : exchange.mpdus = {n}
          BY <1>1, <3>3 DEF Link, Air
        <4>2. exchange.mpdus = {m}
          BY <1>4, <4>1
        <4>3. m < B => m \in ToSet(delivered)
          BY <1>1, <4>2 DEF Link
        <4>4. m < B \/ m >= B
          BY <1>1, <1>4
        <4> QED
          BY <1>3, <2>2, <4>1, <4>2, <4>3, <4>4
      <3>4. setup' \in Setups /\ (~TxopLimited' => txop' = FALSE /\ nextMpdu' <= C + WinSize)
        <4>1. setup \in Setups /\ (~TxopLimited => txop = FALSE /\ nextMpdu <= B + WinSize)
          BY <1>1 DEF Link, Air
        <4>2. nextMpdu <= B + WinSize => nextMpdu <= C + WinSize
          BY <1>6, <2>2, ConstantTypes
        <4> QED
          BY <1>8, <4>1, <4>2
      <3>5. exchange'.method = "ack" /\ exchange'.step # "idle" => \E n \in Mpdus : exchange'.mpdus = {n}
        BY <1>1, <1>8 DEF Link, Air
      <3> QED
        BY <1>8, <3>1, <3>2, <3>3, <3>4, <3>5 DEF Air
    <2>6. T <= C /\ UNCHANGED <<vars, acked>>
      BY <1>3, <1>5
    <2> QED
      BY <1>1, <1>10, <2>1, <2>3, <2>4, <2>5, <2>6, RecipientMoves
  <1>11. \/ /\ status' = "aborted" /\ B + WinSize <= m
            /\ UNCHANGED <<scoreboard, winStartB, bufferedMpdus, delivered>>
         \/ \E C \in Nat, U \in Nat : Hears(B, C, U, {m}) /\ (U = 0 \/ U + WinSize <= m + 1)
    BY <1>1, <1>2, HearMeans
  <1> QED
    BY <1>9, <1>10, <1>11

\* What Transmit puts on the air.
LEMMA TransmitMeans ==
  ASSUME NEW P, NEW o, NEW S, NEW N, NEW M, NEW X, NEW D, Sound(o, S, N, M, X, D, P),
         NEW method, NEW inTxop, Transmit(o, D, method, inTxop)
  PROVE  /\ ba'.inFlight \subseteq o.inFlight \cup D
         /\ \/ exchange' = Idle /\ txop' = TxopLimited
            \/ exchange' = [step |-> "response", method |-> method, mpdus |-> D] /\ txop' = inTxop
  <1> DEFINE scheduled == IF method = "later" THEN [o EXCEPT !.bar = "always"] ELSE o
  <1>1. /\ ba' = ForEach("Store", scheduled, D)
        /\ IF method \in {"none", "later"} THEN EndExchange(TxopLimited)
           ELSE /\ exchange' = [step |-> "response", method |-> method, mpdus |-> D]
                /\ txop' = inTxop
    BY DEF Transmit
  <1>2. Sound(scheduled, S, N, M, X, D, P)
    BY BarSound DEF Bars
  <1>3. scheduled.inFlight = o.inFlight
    BY SoundNumbers DEF BA
  <1> HIDE DEF scheduled
  <1>4. ba' = [scheduled EXCEPT !.inFlight = @ \cup {m \in D : m >= S}]
    BY <1>1, <1>2, StoreAll
  <1>5. scheduled \in BA
    BY <1>2, SoundNumbers
  <1>6. ba'.inFlight = scheduled.inFlight \cup {m \in D : m >= S}
    BY <1>4, <1>5 DEF BA
  <1> QED
    BY <1>1, <1>3, <1>6 DEF EndExchange

\* The air once data has been sent for MPDUs D, or an RTS for them.
LEMMA AirWithData ==
  ASSUME NEW B \in Nat, Air(B, 0), AirIsFree, UNCHANGED <<setup, airBars>>, heard' = FALSE,
         NEW D \in SUBSET Mpdus, nextMpdu' \in Nat,
         \A m \in D : m < nextMpdu' /\ nextMpdu' <= m + WinSize, airMpdus' \subseteq D,
         NEW method \in {"none", "later", "ack", "blockack"},
         method = "ack" => \E m \in Mpdus : D = {m},
         \/ exchange' = Idle
         \/ exchange' = [step |-> "response", method |-> method, mpdus |-> D]
         \/ /\ exchange' = [step |-> "cts", method |-> method, mpdus |-> D]
            /\ airMpdus' = {},
         txop' \in {txop, FALSE, TxopLimited}, ~TxopLimited => nextMpdu' <= B + WinSize
  PROVE  Air(B, 0)'
  <1>1. exchange'.step # "cts" => Unsent' = nextMpdu'
    BY DEF Unsent
  <1>2. \A m \in airMpdus' : m \in Mpdus /\ m < Unsent' /\ nextMpdu' <= m + WinSize
    BY <1>1 DEF Idle
  <1>3. airBars' = {}
    BY DEF AirIsFree
  <1>4. setup' \in Setups /\ TxopLimited' = TxopLimited /\ TxopLimited \in BOOLEAN
    BY BlockAckManagerAssumption DEF Air, Setup, TxopLimited
  <1>5. ~TxopLimited' => txop' = FALSE /\ nextMpdu' <= B + WinSize
    BY <1>4 DEF Air
  <1>6. exchange'.method = "ack" /\ exchange'.step # "idle" => \E m \in Mpdus : exchange'.mpdus = {m}
    BY DEF Idle
  <1>7. exchange'.method = "ack" /\ exchange'.step = "response" => airMpdus' \subseteq exchange'.mpdus
    BY DEF Idle
  <1>8. exchange'.step = "cts" => airMpdus' = {}
    BY DEF Idle
  <1>9. exchange'.method # "bar"
    BY DEF Idle
  <1> QED
    BY <1>2, <1>3, <1>4, <1>5, <1>6, <1>7, <1>8, <1>9 DEF Air, AirIsFree

LEMMA SendDataLinks == LinkIInv /\ LinkSendData /\ UNCHANGED setup => LinkIInv'
  <1> SUFFICES ASSUME LinkIInv, LinkSendData, UNCHANGED setup
               PROVE  LinkIInv'
    OBVIOUS
  <1>1. PICK B \in Nat, R \in Nat, S \in Nat, T \in Nat : Link(B, R, S, T)
    BY DEF LinkIInv
  <1>2. PICK P : P = [from |-> S, sent |-> Unsent, got |-> Got(B) \cup (0 .. T - 1)]
    OBVIOUS
  <1>3. IInv(P)
    BY <1>1, <1>2, LinkOriginates
  <1>4. /\ AirIsFree /\ heard' = FALSE /\ UNCHANGED <<airBars, recipientVars, acked, delivered>>
        /\ airMpdus' = IF exchange.step = "cts" THEN exchange.mpdus ELSE ba'.inFlight \ ba.inFlight
    BY DEF LinkSendData
  <1>5. IInv(P)'
    BY <1>3, SendDataKeeps, ReceiveCtsKeeps DEF LinkSendData
  <1>6. T = 0 /\ Air(B, 0)
    <2>1. exchange.step # "response"
      BY DEF LinkSendData, SendData, CanSendData, ReceiveCts
    <2>2. T = 0
      BY <1>1, <2>1 DEF Link, Air
    <2> QED
      BY <1>1, <2>2 DEF Link
  <1>7. CASE SendData
    <2>1. exchange.step = "idle"
      BY <1>7 DEF SendData, CanSendData
    <2>2. PICK o \in BA, N \in Nat, psdu \in SUBSET Mpdus, inTxop \in TxopStates,
               method \in {"none", "later", "ack", "blockack"} : Sends(P, o, N, psdu, inTxop, method)
      BY <1>3, <1>7, SendDataMeans
    <2>3. /\ Sound(o, N, nextMpdu, nextMpdu', overtaken', psdu, P)
          /\ o.inFlight \subseteq ba.inFlight
          /\ o.bar = "none" \/ inTxop
          /\ psdu \subseteq N .. nextMpdu' - 1
          /\ method = "ack" => \E m \in Mpdus : psdu = {m}
          /\ \/ Transmit(o, psdu, method, inTxop)
             \/ /\ ba' = o /\ txop' = inTxop
                /\ exchange' = [step |-> "cts", method |-> method, mpdus |-> psdu]
      BY <2>2 DEF Sends
    <2>4. nextMpdu' \in Nat /\ nextMpdu' <= N + WinSize /\ S <= N
      <3>1. nextMpdu' \in Nat /\ nextMpdu' <= N + WinSize
        BY <2>3, SoundNumbers
      <3>2. P.from \in 0 .. N
        BY <2>3 DEF Sound
      <3> QED
        BY <1>2, <3>1, <3>2
    <2>5. \A m \in psdu : m \in Nat /\ m >= S /\ m < nextMpdu' /\ nextMpdu' <= m + WinSize
      BY <2>3, <2>4, ConstantTypes
    <2>6. inTxop \in {txop, FALSE}
      BY DEF TxopStates
    <2>7. ~TxopLimited => nextMpdu' <= B + WinSize
      <3>1. SUFFICES ASSUME ~TxopLimited
                     PROVE  N <= B
        BY <1>1, <2>4, <3>1, ConstantTypes
      <3>2. o.bar = "none"
        BY <1>6, <2>3, <2>6, <3>1 DEF Air
      <3>3. 0 .. N - 1 \subseteq Got(B)
        BY <1>2, <1>6, <2>3, <3>2 DEF Sound
      <3>4. B \notin Got(B)
        <4>1. \A m \in bufferedMpdus : B < m /\ m \in Nat
          BY <1>1, ConstantTypes DEF Link, RecipientAt, Mpdus
        <4> QED
          BY <4>1 DEF Got
      <3> QED
        BY <1>1, <2>4, <3>3, <3>4
    <2>8. /\ airMpdus' \subseteq psdu
          /\ txop' \in {txop, FALSE, TxopLimited}
          /\ \/ exchange' = Idle
             \/ exchange' = [step |-> "response", method |-> method, mpdus |-> psdu]
             \/ /\ exchange' = [step |-> "cts", method |-> method, mpdus |-> psdu]
                /\ airMpdus' = {}
      <3>1. CASE Transmit(o, psdu, method, inTxop)
        <4>1. /\ ba'.inFlight \subseteq o.inFlight \cup psdu
              /\ \/ exchange' = Idle /\ txop' = TxopLimited
                 \/ exchange' = [step |-> "response", method |-> method, mpdus |-> psdu] /\ txop' = inTxop
          BY <2>3, <3>1, TransmitMeans
        <4> QED
          BY <1>4, <2>1, <2>3, <2>6, <4>1
      <3>2. CASE /\ ba' = o /\ txop' = inTxop
                 /\ exchange' = [step |-> "cts", method |-> method, mpdus |-> psdu]
        BY <1>4, <2>1, <2>3, <2>6, <3>2
      <3> QED
        BY <2>3, <3>1, <3>2
    <2>9. Air(B, 0)'
      BY <1>1, <1>4, <1>6, <2>3, <2>4, <2>5, <2>7, <2>8, AirWithData
    <2>10. \A n \in exchange'.mpdus : n \in exchange.mpdus \/ n >= S
      BY <2>5, <2>8 DEF Idle
    <2>11. acked' \subseteq ToSet(delivered) \cup bufferedMpdus
      BY <1>1, <1>4 DEF Link
    <2> QED
      BY <1>1, <1>2, <1>4, <1>5, <1>6, <2>9, <2>10, <2>11, LinkMoves
  <1>8. CASE ReceiveCts
    <2>1. /\ exchange.step = "cts" /\ Transmit(ba, exchange.mpdus, exchange.method, txop)
          /\ nextMpdu' = nextMpdu
      BY <1>8 DEF ReceiveCts
    <2>2. /\ exchange.mpdus \in SUBSET Mpdus /\ exchange.method \in {"none", "later", "ack", "blockack"}
          /\ exchange.method = "ack" => \E m \in Mpdus : exchange.mpdus = {m}
      BY <1>1, <2>1 DEF Link, Exchanges, Air
    <2>3. /\ Sound(ba, S, Unsent, nextMpdu, overtaken, exchange.mpdus, Told(T, B))
          /\ \A m \in exchange.mpdus : m < nextMpdu /\ nextMpdu <= m + WinSize
          /\ nextMpdu \in Nat
      BY <1>1, LinkNumbers
    <2>4. \/ exchange' = Idle /\ txop' = TxopLimited
          \/ exchange' = [step |-> "response", method |-> exchange.method, mpdus |-> exchange.mpdus]
             /\ txop' = txop
      <3> DEFINE D == exchange.mpdus
                 method == exchange.method
      <3> HIDE DEF D, method
      <3>1. Sound(ba, S, Unsent, nextMpdu, overtaken, D, Told(T, B)) /\ Transmit(ba, D, method, txop)
        BY <2>1, <2>3 DEF D, method
      <3> QED
        BY <3>1, TransmitMeans DEF D, method
    <2>5. ~TxopLimited => nextMpdu' <= B + WinSize
      BY <1>6, <2>1 DEF Air
    <2>6. Air(B, 0)'
      BY <1>1, <1>4, <1>6, <2>1, <2>2, <2>3, <2>4, <2>5, AirWithData
    <2>7. \A n \in exchange'.mpdus : n \in exchange.mpdus \/ n >= S
      BY <2>4 DEF Idle
    <2>8. acked' \subseteq ToSet(delivered) \cup bufferedMpdus
      BY <1>1, <1>4 DEF Link
    <2> QED
      BY <1>1, <1>2, <1>4, <1>5, <1>6, <2>6, <2>7, <2>8, LinkMoves
  <1> QED
    BY <1>7, <1>8 DEF LinkSendData

-----------------------------------------------------------------------------
(***************************************************************************)
(* The theorems                                                            *)
(***************************************************************************)
LEMMA LinkInitSound == LinkInit => LinkIInv
  <1> SUFFICES ASSUME LinkInit
               PROVE  LinkIInv
    OBVIOUS
  <1>1. /\ Init /\ scoreboard = InitWindow(StartingSeq) /\ winStartB = StartingSeq
        /\ bufferedMpdus = {} /\ airMpdus = {} /\ airBars = {} /\ acked = {} /\ delivered = <<>>
    BY RecipientWindows DEF LinkInit, Recipient!InitAt
  <1>2. /\ setup \in Setups /\ nextMpdu = 0 /\ exchange = Idle /\ txop = FALSE /\ overtaken = {}
    BY <1>1 DEF Init
  <1>3. StartingSeq = SeqOfMpdu(0)
    BY BlockAckManagerAssumption, ConstantTypes DEF SeqOfMpdu, SeqNos
  <1>4. /\ scoreboard \in Windows /\ scoreboard.winStart = SeqOfMpdu(0) /\ Acked(scoreboard, 0) = {}
    <2>1. InitWindow(StartingSeq) \in Windows /\ Marked(InitWindow(StartingSeq)) = {}
          /\ InitWindow(StartingSeq).winStart = StartingSeq
      BY BlockAckManagerAssumption, InitWindowEmpty DEF InitWindow
    <2> QED
      BY <1>1, <1>3, <2>1 DEF Acked
  <1>5. RecipientAt(0, 0)
    BY <1>1, <1>3, <1>4, ConstantTypes DEF RecipientAt, Got
  <1>6. ToSet(delivered) = {} /\ Up(0)
    BY <1>1 DEF Up, ToSet, Promise!Increasing
  <1>7. SoundFrom(0, Told(0, 0))
    <2>1. IInv(Told(0, 0))
      BY <1>1, InitSound DEF Told
    <2>2. PICK S \in Nat : SoundFrom(S, Told(0, 0))
      BY <2>1 DEF IInv
    <2>3. S <= nextMpdu
      <3>1. Sound(ba, S, Unsent, nextMpdu, overtaken, exchange.mpdus, Told(0, 0))
        BY <2>2 DEF SoundFrom
      <3> QED
        BY <3>1, SoundNumbers
    <2>4. S = 0
      BY <1>2, <2>3
    <2> QED
      BY <2>2, <2>4
  <1>8. Air(0, 0)
    BY <1>1, <1>2, ConstantTypes DEF Air, Idle, AirIsFree
  <1>9. exchange \in Exchanges /\ (exchange.step = "idle" => exchange.mpdus = {}) /\ exchange.mpdus = {}
    BY <1>2 DEF Idle, Exchanges
  <1>10. Link(0, 0, 0, 0)
    BY <1>1, <1>5, <1>6, <1>7, <1>8, <1>9 DEF Link
  <1> QED
    BY <1>10 DEF LinkIInv

LEMMA LinkStep == SpaceSuffices /\ LinkIInv /\ [LinkNext]_linkVars => LinkIInv'
  <1> SUFFICES ASSUME SpaceSuffices, LinkIInv, [LinkNext]_linkVars
               PROVE  LinkIInv'
    OBVIOUS
  <1>1. CASE LinkNext
    <2>1. status = "active" /\ UNCHANGED setup
      BY <1>1 DEF LinkNext
    <2>2. CASE LinkSendData
      BY <2>1, <2>2, SendDataLinks
    <2>3. CASE LinkSendBar
      BY <2>1, <2>3, SendBarLinks
    <2>4. CASE Hear
      BY <2>1, <2>4, HearLinks
    <2>5. CASE HearBar
      BY <2>1, <2>5, HearBarLinks
    <2>6. CASE Lose
      BY <2>6, LoseLinks
    <2>7. CASE HearResponse
      BY <2>1, <2>7, HearResponseLinks
    <2>8. CASE Timeout
      BY <2>1, <2>8, TimeoutLinks
    <2>9. CASE Local
      BY <2>1, <2>9, LocalLinks
    <2> QED
      BY <1>1, <2>2, <2>3, <2>4, <2>5, <2>6, <2>7, <2>8, <2>9 DEF LinkNext
  <1>2. CASE UNCHANGED linkVars
    <2>1. PICK B \in Nat, R \in Nat, S \in Nat, T \in Nat : Link(B, R, S, T)
      BY DEF LinkIInv
    <2>2. PICK P : P = [from |-> S, sent |-> Unsent, got |-> Got(B) \cup (0 .. T - 1)]
      OBVIOUS
    <2>3. UNCHANGED <<vars, recipientVars, airVars, acked, delivered>>
      BY <1>2 DEF linkVars
    <2>4. IInv(P)'
      <3>1. IInv(P)
        BY <2>1, <2>2, LinkOriginates
      <3> QED
        BY <2>3, <3>1, QuietInv
    <2>5. Air(B, T)'
      BY <2>1, <2>2, <2>3, <2>4, AirStays, LinkNumbers DEF Link, recipientVars, airVars, vars
    <2> QED
      BY <2>1, <2>2, <2>3, <2>4, <2>5, LinkMoves DEF Link, vars
  <1> QED
    BY <1>1, <1>2

\* The originator's configuration never changes.
LEMMA SpaceStays == [LinkNext]_linkVars => (SpaceSuffices' <=> SpaceSuffices)
                                           /\ (TxopLimited' <=> TxopLimited)
  <1> SUFFICES ASSUME [LinkNext]_linkVars
               PROVE  setup' = setup
    BY DEF SpaceSuffices, TxopLimited
  <1> QED
    BY DEF LinkNext, linkVars, vars

\* The invariant behind the theorems below: both ends agree on where they are.  Where
\* the recipient waits for MPDU B, each MPDU before B that the originator may still
\* transmit, or have acknowledged, has gone up; what the scoreboard acknowledges has
\* gone up, is buffered or lies behind the window; and all the originator gave up
\* is behind B, or a BlockAckReq is scheduled or on its way to say so.
THEOREM LinkIsSound == LinkSpec => [](SpaceSuffices => LinkIInv)
  <1>1. LinkInit => (SpaceSuffices => LinkIInv)
    BY LinkInitSound
  <1>2. (SpaceSuffices => LinkIInv) /\ [LinkNext]_linkVars => (SpaceSuffices => LinkIInv)'
    BY LinkStep, SpaceStays
  <1> QED
    BY <1>1, <1>2, PTL DEF LinkSpec

\* What the originator was told is received it may forget: it has gone up or waits in
\* the recipient's buffer.
THEOREM NothingAckedGetsLost == LinkSpec => [](SpaceSuffices => NothingAckedIsLost)
  <1>1. LinkIInv => NothingAckedIsLost
    BY DEF LinkIInv, Link, NothingAckedIsLost
  <1> QED
    BY <1>1, LinkIsSound, PTL

\* What the originator would still send is not old to the recipient, unless it has
\* gone up before.
THEOREM PendingStaysWelcome == LinkSpec => [](SpaceSuffices => PendingIsWelcome)
  <1>1. SpaceSuffices /\ LinkIInv => PendingIsWelcome
    <2> SUFFICES ASSUME SpaceSuffices, LinkIInv, NEW m \in ba.queued, IsInWindow(ba.txWindow, m),
                        m \notin ToSet(delivered)
                 PROVE  ~Recipient!IsOld(SeqOfMpdu(m), winStartB)
      BY DEF PendingIsWelcome
    <2>1. PICK B \in Nat, R \in Nat, S \in Nat, T \in Nat : Link(B, R, S, T)
      BY DEF LinkIInv
    <2>2. /\ Sound(ba, S, Unsent, nextMpdu, overtaken, exchange.mpdus, Told(T, B))
          /\ nextMpdu \in Nat /\ R <= B
      BY <2>1, LinkNumbers
    <2>3. m \in Nat /\ m < nextMpdu /\ S <= m
      BY <2>2, SoundPlace
    <2>4. nextMpdu < R + SeqHalf
      BY <2>1, WithinHalf
    <2>5. m >= B
      BY <2>1, <2>3 DEF Link
    <2>6. m - B < SeqHalf /\ m < B + SeqSpace
      BY <2>2, <2>3, <2>4, <2>5, ConstantTypes
    <2>7. Distance(SeqOfMpdu(m), SeqOfMpdu(B)) = m - B
      BY <2>3, <2>5, <2>6, DistanceAhead
    <2>8. winStartB = SeqOfMpdu(B)
      BY <2>1 DEF Link, RecipientAt
    <2> QED
      BY <2>1, <2>3, <2>6, <2>7, <2>8, RecipientNumbers, ConstantTypes DEF IsOld
  <1> QED
    BY <1>1, LinkIsSound, PTL

\* Once the originator has nothing left to send, the recipient holds nothing back.
THEOREM NothingStaysWaiting == LinkSpec => [](SpaceSuffices => NothingLeftWaiting)
  <1>1. LinkIInv => NothingLeftWaiting
    <2> SUFFICES ASSUME LinkIInv, overtaken = {}, exchange = Idle, ba.queued = {}, ba.inFlight = {},
                        ba.bar = "none"
                 PROVE  bufferedMpdus = {}
      BY DEF NothingLeftWaiting
    <2>1. PICK B \in Nat, R \in Nat, S \in Nat, T \in Nat : Link(B, R, S, T)
      BY DEF LinkIInv
    <2>2. /\ Sound(ba, S, Unsent, nextMpdu, overtaken, exchange.mpdus, Told(T, B))
          /\ Unsent \in Nat /\ S <= Unsent /\ B <= Unsent
      BY <2>1, LinkNumbers
    <2>3. T = 0
      BY <2>1 DEF Link, Air, Idle
    <2>4. /\ S .. Unsent - 1 \subseteq Acked(ba.txWindow, S) /\ S \notin Acked(ba.txWindow, S)
          /\ 0 .. S - 1 \subseteq Got(B)
      BY <2>2, <2>3 DEF Sound, Told
    <2>5. S = Unsent
      BY <2>2, <2>4
    <2>6. \A m \in bufferedMpdus : m \in Nat /\ B < m /\ m < Unsent
      BY <2>1, ConstantTypes DEF Link, RecipientAt, Mpdus
    <2>7. B \notin Got(B)
      BY <2>6 DEF Got
    <2>8. S <= B
      BY <2>2, <2>4, <2>7
    <2> QED
      BY <2>2, <2>5, <2>6, <2>8
  <1> QED
    BY <1>1, LinkIsSound, PTL

\* With a TXOP limit of 0 what is on its way is at most a window ahead of the MPDU the
\* recipient waits for, however much there is to send.
THEOREM RecipientStaysWithinReach ==
  LinkSpec => [](4 * WinSize < SeqSpace => RecipientWithinReach)
  <1>1. (SpaceSuffices => LinkIInv) => (4 * WinSize < SeqSpace => RecipientWithinReach)
    <2> SUFFICES ASSUME LinkIInv, ~TxopLimited,
                        NEW seq \in {SeqOfMpdu(m) : m \in airMpdus} \cup airBars
                 PROVE  \/ Recipient!IsOld(seq, winStartB)
                        \/ Recipient!Distance(seq, winStartB) <= WinSize
      BY DEF SpaceSuffices, RecipientWithinReach
    <2>1. PICK B \in Nat, R \in Nat, S \in Nat, T \in Nat : Link(B, R, S, T)
      BY DEF LinkIInv
    <2>2. /\ nextMpdu \in Nat /\ nextMpdu <= B + WinSize /\ T <= nextMpdu /\ Unsent <= nextMpdu
          /\ B <= nextMpdu /\ Unsent \in Nat
      <3>1. nextMpdu <= B + WinSize
        BY <2>1 DEF Link, Air
      <3>2. /\ nextMpdu \in Nat /\ T <= S /\ S <= Unsent /\ Unsent <= nextMpdu /\ B <= Unsent /\ Unsent \in Nat
        BY <2>1, LinkNumbers
      <3> QED
        BY <3>1, <3>2
    <2>3. PICK n \in Nat : seq = SeqOfMpdu(n) /\ n <= nextMpdu /\ nextMpdu <= n + WinSize
      <3>1. CASE seq \in {SeqOfMpdu(m) : m \in airMpdus}
        <4>1. PICK m \in airMpdus : seq = SeqOfMpdu(m)
          BY <3>1
        <4>2. m \in Nat /\ m < Unsent /\ nextMpdu <= m + WinSize
          BY <2>1, <4>1, ConstantTypes DEF Link, Air, Mpdus
        <4>3. m <= nextMpdu
          BY <2>2, <4>2
        <4> QED
          BY <4>1, <4>2, <4>3
      <3>2. CASE seq \in airBars
        <4>1. seq = SeqOfMpdu(T) /\ nextMpdu <= T + WinSize
          BY <2>1, <3>2 DEF Link, Air
        <4> QED
          BY <2>2, <4>1
      <3> QED
        BY <3>1, <3>2
    <2>4. winStartB = SeqOfMpdu(B)
      BY <2>1 DEF Link, RecipientAt
    <2>5. CASE n < B
      <3>1. B <= n + SeqHalf
        BY <2>2, <2>3, ConstantTypes
      <3>2. Distance(SeqOfMpdu(n), SeqOfMpdu(B)) = SeqSpace - (B - n)
        BY <2>5, <3>1, DistanceBehind
      <3>3. SeqSpace - (B - n) >= SeqHalf
        BY <2>3, <2>5, <3>1, ConstantTypes
      <3>4. IsOld(SeqOfMpdu(n), SeqOfMpdu(B))
        BY <3>2, <3>3 DEF IsOld
      <3> QED
        BY <2>3, <2>4, <3>4, RecipientNumbers
    <2>6. CASE n >= B
      <3>1. n < B + SeqSpace /\ n - B <= WinSize
        BY <2>2, <2>3, <2>6, ConstantTypes
      <3>2. Distance(SeqOfMpdu(n), SeqOfMpdu(B)) = n - B
        BY <2>6, <3>1, DistanceAhead
      <3> QED
        BY <2>3, <2>4, <3>1, <3>2, RecipientNumbers
    <2> QED
      BY <2>3, <2>5, <2>6
  <1> QED
    BY <1>1, LinkIsSound, PTL

\* With a TXOP limit of 0 the assertion of GetDistance never fails at the recipient:
\* it never has to compute the start of a window from an MPDU beyond its own.
THEOREM NoAssertFailsWithoutTxops ==
  LinkSpec => [](4 * WinSize < SeqSpace /\ ~TxopLimited => NoAssertFails)
  <1> DEFINE Lim == 4 * WinSize < SeqSpace /\ ~TxopLimited
             J == Lim => NoAssertFails
  <1>1. LinkInit => J
    BY DEF LinkInit, Recipient!InitAt, NoAssertFails
  <1>2. (SpaceSuffices => LinkIInv) /\ J /\ [LinkNext]_linkVars => J'
    <2> SUFFICES ASSUME SpaceSuffices => LinkIInv, J, [LinkNext]_linkVars, Lim'
                 PROVE  NoAssertFails'
      OBVIOUS
    <2>1. Lim /\ SpaceSuffices /\ LinkIInv /\ NoAssertFails
      BY SpaceStays DEF SpaceSuffices
    <2>2. CASE Hear
      <3>1. PICK B \in Nat, R \in Nat, S \in Nat, T \in Nat : Link(B, R, S, T)
        BY <2>1 DEF LinkIInv
      <3>2. PICK m : m = Min(airMpdus)
        OBVIOUS
      <3>3. /\ m \in Nat /\ m < Unsent
            /\ \/ status' = "aborted" /\ B + WinSize <= m
               \/ \E C \in Nat, U \in Nat : Hears(B, C, U, {m})
        BY <2>1, <2>2, <3>1, <3>2, HearMeans
      <3>4. Unsent \in Nat /\ nextMpdu \in Nat /\ Unsent <= nextMpdu /\ nextMpdu <= B + WinSize
        BY <2>1, <3>1, LinkNumbers DEF Link, Air
      <3>5. ~(B + WinSize <= m)
        BY <3>1, <3>3, <3>4, ConstantTypes
      <3> QED
        BY <3>3, <3>5 DEF Hears, NoAssertFails
    <2>3. CASE HearBar
      BY <2>1, <2>3 DEF HearBar, Recipient!NotifyReceivedBar, NoAssertFails
    <2>4. CASE UNCHANGED linkVars
      BY <2>1, <2>4 DEF linkVars, recipientVars, NoAssertFails
    <2>5. CASE LinkSendData \/ LinkSendBar \/ Lose \/ HearResponse \/ Timeout \/ Local
      BY <2>1, <2>5
      DEF LinkSendData, LinkSendBar, Lose, HearResponse, Timeout, Local, recipientVars, NoAssertFails
    <2> QED
      BY <2>2, <2>3, <2>4, <2>5 DEF LinkNext
  <1> HIDE DEF J
  <1>3. LinkSpec => []J
    BY <1>1, <1>2, LinkIsSound, PTL DEF LinkSpec
  <1> QED
    BY <1>3 DEF J

\* The whole agreement, over a link that loses frames, delivers MPDUs in order and
\* each at most once: it implements InOrderDelivery.
THEOREM AgreementDeliversInOrder == SpaceSuffices /\ LinkSpec => DeliversInOrder
  <1>1. LinkInit => Promise!Init
    BY DEF LinkInit, Promise!Init
  <1>2. SpaceSuffices /\ LinkIInv /\ [LinkNext]_linkVars => [Promise!Deliver]_delivered
    <2> SUFFICES ASSUME SpaceSuffices, LinkIInv, [LinkNext]_linkVars
                 PROVE  Promise!Deliver \/ delivered' = delivered
      OBVIOUS
    <2>1. PICK B \in Nat, R \in Nat, S \in Nat, T \in Nat : Link(B, R, S, T)
      BY DEF LinkIInv
    <2>2. CASE Hear
      <3>1. PICK m : m = Min(airMpdus)
        OBVIOUS
      <3>2. \/ delivered' = delivered
            \/ \E C \in Nat, U \in Nat : Hears(B, C, U, {m})
        BY <2>1, <2>2, <3>1, HearMeans
      <3> QED
        BY <3>2 DEF Hears
    <2>3. CASE HearBar
      <3>1. \E C \in Nat : Hears(B, C, T, {})
        BY <2>1, <2>3, HearBarMeans
      <3> QED
        BY <3>1 DEF Hears
    <2>4. CASE UNCHANGED linkVars
      BY <2>4 DEF linkVars
    <2>5. CASE LinkSendData \/ LinkSendBar \/ Lose \/ HearResponse \/ Timeout \/ Local
      BY <2>5 DEF LinkSendData, LinkSendBar, Lose, HearResponse, Timeout, Local
    <2> QED
      BY <2>2, <2>3, <2>4, <2>5 DEF LinkNext
  <1>3. [LinkNext]_linkVars /\ SpaceSuffices => SpaceSuffices'
    BY SpaceStays
  <1> QED
    BY <1>1, <1>2, <1>3, LinkIsSound, PTL DEF LinkSpec, DeliversInOrder, Promise!Spec

=============================================================================
