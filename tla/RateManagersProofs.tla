------------------------- MODULE RateManagersProofs -------------------------
(* Theorems about the counter based rate managers, for every number of rates *)
(* and every choice of thresholds and windows, alone and as a node has them: *)
(* ARF, AARF and AARF-CD are rate ladders whose thresholds keep their bounds *)
(* and are reached, AARF-CD keeps its RTS counter from wrapping around, CARA *)
(* tries RTS before it lowers the rate, and Onoe decides between packets.    *)
EXTENDS RateManagers, TLAPS

\* What the ladder makes of a rate, its failures and its probation.
LadderInv ==
    /\ rate \in 0 .. MaxRate /\ failed \in Nat /\ recovery \in BOOLEAN
    /\ FailuresSlowDown
    /\ recovery => MaxRate > 0

LEMMA MaxRateType == MaxRate \in Nat
  BY AarfAssumption DEF AarfAssumption

LEMMA WindowTypes ==
    /\ MinRtsWnd \in Nat \ {0} /\ MaxRtsWnd \in Nat /\ U32 \in Nat
    /\ MaxRtsWnd >= MinRtsWnd /\ 2 * MaxRtsWnd < U32
    /\ TurnOffRtsAfterRateDecrease \in BOOLEAN /\ TurnOnRtsAfterRateIncrease \in BOOLEAN
  BY AarfcdAssumption DEF AarfcdAssumption

LEMMA LowerType == \A r \in 0 .. MaxRate : Lower(r) \in 0 .. MaxRate /\ (Lower(r) = 0 \/ Lower(r) = r - 1)
  BY MaxRateType DEF Lower

\* A failure of a ladder: the second in a row, or the first on probation.
LEMMA FailureStep ==
    ASSUME LadderInv, failed' = failed + 1, recovery' = recovery,
           rate' = IF FallsBack THEN Lower(rate) ELSE rate
    PROVE  LadderInv' /\ Ladder!Fail
  <1>1. rate' \in 0 .. MaxRate /\ failed' \in Nat /\ recovery' \in BOOLEAN
    BY LowerType DEF LadderInv
  <1>2. FailuresSlowDown'
    <2>1. CASE recovery
      <3>1. recovery' /\ MaxRate > 0
        BY <2>1 DEF LadderInv
      <3>2. rate' < MaxRate
        <4>1. CASE failed = 0
          <5>1. rate' = Lower(rate)
            BY <2>1, <4>1 DEF FallsBack
          <5> QED
            BY <5>1, <3>1, MaxRateType DEF LadderInv, Lower
        <4>2. CASE failed # 0
          <5>1. rate' = rate
            BY <2>1, <4>2 DEF FallsBack
          <5>2. failed > 0
            BY <4>2 DEF LadderInv
          <5>3. rate < MaxRate
            BY <2>1, <5>2 DEF LadderInv, FailuresSlowDown, Ladder!FailuresSlowDown
          <5> QED
            BY <5>1, <5>3
        <4> QED
          BY <4>1, <4>2
      <3> QED
        BY <3>1, <3>2 DEF FailuresSlowDown, Ladder!FailuresSlowDown
    <2>2. CASE ~recovery /\ failed % 2 = 1
      BY <2>2, <1>1, LowerType, MaxRateType
         DEF LadderInv, FailuresSlowDown, Ladder!FailuresSlowDown, FallsBack
    <2>3. CASE ~recovery /\ failed % 2 # 1
      BY <2>3, <1>1, MaxRateType
         DEF LadderInv, FailuresSlowDown, Ladder!FailuresSlowDown, FallsBack
    <2> QED
      BY <2>1, <2>2, <2>3
  <1>3. Ladder!Fail
    BY DEF Ladder!Fail, FallsBack, Ladder!FallsBack, Lower, Ladder!Lower
  <1>4. recovery' => MaxRate > 0
    BY DEF LadderInv
  <1> QED
    BY <1>1, <1>2, <1>3, <1>4 DEF LadderInv

\* A success of a ladder: the rate is kept, or raised and put on probation.
LEMMA SuccessStep ==
    ASSUME LadderInv, DataOk
    PROVE  LadderInv' /\ (Ladder!Raise \/ Ladder!Keep)
  <1>1. CASE Raises
    BY <1>1, MaxRateType
       DEF LadderInv, FailuresSlowDown, Ladder!FailuresSlowDown, DataOk, Raises, Ladder!Raise
  <1>2. CASE ~Raises
    BY <1>2, MaxRateType
       DEF LadderInv, FailuresSlowDown, Ladder!FailuresSlowDown, DataOk, Raises, Ladder!Keep
  <1> QED
    BY <1>1, <1>2

LEMMA DataFailedIsFailure ==
    DataFailed => /\ failed' = failed + 1 /\ recovery' = recovery
                  /\ rate' = IF FallsBack THEN Lower(rate) ELSE rate
  BY DEF DataFailed

LEMMA InitIsLadder == Init => LadderInv /\ Ladder!Init
  <1> SUFFICES ASSUME Init
               PROVE  LadderInv /\ Ladder!Init
    OBVIOUS
  <1>1. rate = 0 /\ failed = 0 /\ recovery = FALSE
    BY DEF Init
  <1>2. FailuresSlowDown
    BY <1>1 DEF FailuresSlowDown, Ladder!FailuresSlowDown
  <1>3. rate \in 0 .. MaxRate /\ failed \in Nat
    BY <1>1, MaxRateType
  <1>4. recovery \in BOOLEAN /\ ~recovery
    BY <1>1
  <1> QED
    BY <1>1, <1>2, <1>3, <1>4, Zenon DEF LadderInv, Ladder!Init

LEMMA StutterKeepsLadder == LadderInv /\ UNCHANGED vars => LadderInv' /\ UNCHANGED Ladder!vars
  <1> SUFFICES ASSUME LadderInv, UNCHANGED vars
               PROVE  LadderInv' /\ UNCHANGED Ladder!vars
    OBVIOUS
  <1>1. rate' = rate /\ failed' = failed /\ recovery' = recovery
    BY DEF vars, counters
  <1>2. FailuresSlowDown'
    BY <1>1 DEF LadderInv, FailuresSlowDown, Ladder!FailuresSlowDown
  <1>3. LadderInv'
    BY <1>1, <1>2 DEF LadderInv
  <1> QED
    BY <1>1, <1>3 DEF Ladder!vars

-----------------------------------------------------------------------------
LEMMA AarfStep == LadderInv /\ [Next]_vars => LadderInv' /\ [Ladder!Next]_(Ladder!vars)
  <1> SUFFICES ASSUME LadderInv, [Next]_vars
               PROVE  LadderInv' /\ [Ladder!Next]_(Ladder!vars)
    OBVIOUS
  <1>1. CASE DataFailed
    BY <1>1, DataFailedIsFailure, FailureStep DEF Ladder!Next
  <1>2. CASE DataOk
    BY <1>2, SuccessStep DEF Ladder!Next
  <1>3. CASE UNCHANGED vars
    BY <1>3, StutterKeepsLadder
  <1> QED
    BY <1>1, <1>2, <1>3 DEF Next

\* Whatever thresholds AARF multiplies and resets, its rate moves as a rate ladder.
THEOREM AarfIsRateLadder == Spec => ImplementsRateLadder
  <1> QED
    BY InitIsLadder, AarfStep, PTL DEF Spec, ImplementsRateLadder, Ladder!Spec

-----------------------------------------------------------------------------
RtsState ==
    [on: BOOLEAN, wnd: MinRtsWnd .. MaxRtsWnd, counter: 0 .. U32 - 1,
    justModifyRate: BOOLEAN, haveASuccess: BOOLEAN]

RtsType ==
    /\ rts \in RtsState
    /\ ctsReceived \in BOOLEAN

RtsInv == RtsType /\ RtsIsCounted

LEMMA IncreasedType == \A w \in MinRtsWnd .. MaxRtsWnd : Increased(w) \in MinRtsWnd .. MaxRtsWnd
  BY WindowTypes DEF Increased

LEMMA TurnOffRtsEffect ==
    ASSUME NEW r \in RtsState
    PROVE  LET off == TurnOffRts(r)
           IN  off \in RtsState /\ off.on = FALSE /\ off.wnd = r.wnd /\ off.counter = r.counter
  BY DEF TurnOffRts, RtsState

LEMMA TurnOnRtsEffect ==
    ASSUME NEW r \in RtsState, NEW w \in MinRtsWnd .. MaxRtsWnd
    PROVE  LET on == TurnOnRts(r, w)
           IN  on \in RtsState /\ on.on = TRUE /\ on.wnd = w /\ on.counter = w
  <1>1. w \in 0 .. U32 - 1
    BY WindowTypes
  <1> QED
    BY <1>1 DEF TurnOnRts, RtsState

LEMMA CollisionEffect ==
    ASSUME NEW r \in RtsState
    PROVE  LET on == RtsAfterCollision(r)
           IN  on \in RtsState /\ on.on = TRUE /\ on.counter = on.wnd
  <1>1. (IF r.justModifyRate \/ r.haveASuccess THEN MinRtsWnd ELSE Increased(r.wnd))
            \in MinRtsWnd .. MaxRtsWnd
    BY IncreasedType, WindowTypes DEF RtsState
  <1> QED
    BY <1>1, TurnOnRtsEffect DEF RtsAfterCollision

LEMMA FailureEffect ==
    ASSUME NEW r \in RtsState
    PROVE  LET f == RtsAfterFailure(r)
           IN  f \in RtsState /\ f.counter = f.wnd /\ (f.on = r.on \/ FallsBack)
  <1> DEFINE b == FallsBack
             kept == [r EXCEPT !.counter = r.wnd, !.justModifyRate = b]
  <1>1. b \in BOOLEAN
    BY DEF FallsBack
  <1> HIDE DEF b
  <1>2. r.wnd \in 0 .. U32 - 1
    BY WindowTypes DEF RtsState
  <1>3. kept \in RtsState /\ kept.on = r.on /\ kept.counter = kept.wnd
    BY <1>1, <1>2 DEF RtsState
  <1> HIDE DEF kept
  <1>4. RtsAfterFailure(r) = IF b /\ TurnOffRtsAfterRateDecrease THEN TurnOffRts(kept) ELSE kept
    BY DEF RtsAfterFailure, kept, b
  <1>5. TurnOffRts(kept) \in RtsState /\ TurnOffRts(kept).counter = TurnOffRts(kept).wnd
    BY <1>3, TurnOffRtsEffect
  <1> QED
    BY <1>3, <1>4, <1>5 DEF b

LEMMA SuccessEffect ==
    ASSUME NEW r \in RtsState
    PROVE  LET s == RtsAfterSuccess(r)
           IN  /\ s \in RtsState
               /\ \/ s.on = TRUE /\ s.counter = s.wnd
                  \/ /\ ~(Raises /\ TurnOnRtsAfterRateIncrease)
                     /\ s.on = r.on /\ s.counter = r.counter /\ s.wnd = r.wnd
  <1> DEFINE b == Raises
             got == [r EXCEPT !.haveASuccess = TRUE, !.justModifyRate = b]
  <1>1. b \in BOOLEAN
    BY DEF Raises
  <1> HIDE DEF b
  <1>2. got \in RtsState /\ got.on = r.on /\ got.counter = r.counter /\ got.wnd = r.wnd
    BY <1>1 DEF RtsState
  <1> HIDE DEF got
  <1>3. RtsAfterSuccess(r) =
            IF b /\ TurnOnRtsAfterRateIncrease THEN TurnOnRts(got, MinRtsWnd) ELSE got
    BY DEF RtsAfterSuccess, got, b
  <1>4. LET on == TurnOnRts(got, MinRtsWnd)
        IN  on \in RtsState /\ on.on = TRUE /\ on.counter = on.wnd
    <2>1. MinRtsWnd \in MinRtsWnd .. MaxRtsWnd
      BY WindowTypes
    <2> QED
      BY <1>2, <2>1, TurnOnRtsEffect
  <1> QED
    BY <1>2, <1>3, <1>4 DEF b

\* The state RTS is in when the report of a data frame has been handled.
LEMMA AfterReport ==
    ASSUME NEW r \in RtsState, rts' = CheckRts(r), ctsReceived' = FALSE,
           r.on => r.counter <= r.wnd
    PROVE  RtsInv' /\ (r.on /\ r.counter > 0 => rts'.on)
  <1>1. CASE r.counter = 0 /\ r.on
    <2>1. rts' = TurnOffRts(r)
      BY <1>1 DEF CheckRts
    <2>2. rts' \in RtsState /\ ~rts'.on
      BY <2>1, TurnOffRtsEffect
    <2>3. ~(r.counter > 0)
      BY <1>1
    <2> QED
      BY <2>2, <2>3, Zenon DEF RtsInv, RtsType, RtsIsCounted
  <1>2. CASE ~(r.counter = 0 /\ r.on)
    <2>1. rts' = r
      BY <1>2 DEF CheckRts
    <2> QED
      BY <1>2, <2>1 DEF RtsInv, RtsType, RtsIsCounted
  <1> QED
    BY <1>1, <1>2

LEMMA WindowOfState ==
    ASSUME NEW r \in RtsState
    PROVE  r.wnd \in Nat \ {0} /\ r.counter \in Nat /\ r.on \in BOOLEAN
  BY WindowTypes DEF RtsState

\* What each step makes of RTS.
LEMMA FailedWithRts == RtsInv /\ CdDataFailed /\ rts.on => RtsInv' /\ (rts'.on \/ FallsBack)
  <1> SUFFICES ASSUME RtsInv, CdDataFailed, rts.on
               PROVE  RtsInv' /\ (rts'.on \/ FallsBack)
    OBVIOUS
  <1> DEFINE r == RtsAfterFailure(rts)
  <1>1. rts \in RtsState /\ rts' = CheckRts(r) /\ ctsReceived' = FALSE
    BY DEF RtsInv, RtsType, CdDataFailed
  <1>2. r \in RtsState /\ r.counter = r.wnd /\ (r.on = rts.on \/ FallsBack)
    BY <1>1, FailureEffect
  <1> HIDE DEF r
  <1>3. r.wnd \in Nat \ {0}
    BY <1>2, WindowOfState
  <1>4. r.counter <= r.wnd /\ r.counter > 0
    BY <1>2, <1>3
  <1>5. RtsInv' /\ (r.on /\ r.counter > 0 => rts'.on)
    BY <1>1, <1>2, <1>4, AfterReport
  <1> QED
    BY <1>2, <1>4, <1>5

LEMMA FailedWithoutRts == RtsInv /\ CdDataFailed /\ ~rts.on => RtsInv' /\ rts'.on
  <1> SUFFICES ASSUME RtsInv, CdDataFailed, ~rts.on
               PROVE  RtsInv' /\ rts'.on
    OBVIOUS
  <1> DEFINE r == RtsAfterCollision(rts)
  <1>1. rts \in RtsState /\ rts' = CheckRts(r) /\ ctsReceived' = FALSE
    BY DEF RtsInv, RtsType, CdDataFailed
  <1>2. r \in RtsState /\ r.on = TRUE /\ r.counter = r.wnd
    BY <1>1, CollisionEffect
  <1> HIDE DEF r
  <1>3. r.wnd \in Nat \ {0}
    BY <1>2, WindowOfState
  <1>4. r.counter <= r.wnd /\ r.counter > 0
    BY <1>2, <1>3
  <1>5. RtsInv' /\ (r.on /\ r.counter > 0 => rts'.on)
    BY <1>1, <1>2, <1>4, AfterReport
  <1> QED
    BY <1>2, <1>4, <1>5

LEMMA Succeeded ==
    RtsInv /\ CdDataOk => RtsInv' /\ (Raises /\ TurnOnRtsAfterRateIncrease => rts'.on)
  <1> SUFFICES ASSUME RtsInv, CdDataOk
               PROVE  RtsInv' /\ (Raises /\ TurnOnRtsAfterRateIncrease => rts'.on)
    OBVIOUS
  <1> DEFINE r == RtsAfterSuccess(rts)
  <1>1. rts \in RtsState /\ rts' = CheckRts(r) /\ ctsReceived' = FALSE
    BY DEF RtsInv, RtsType, CdDataOk
  <1>2. /\ r \in RtsState
        /\ \/ r.on = TRUE /\ r.counter = r.wnd
           \/ /\ ~(Raises /\ TurnOnRtsAfterRateIncrease)
              /\ r.on = rts.on /\ r.counter = rts.counter /\ r.wnd = rts.wnd
    BY <1>1, SuccessEffect
  <1> HIDE DEF r
  <1>3. r.wnd \in Nat \ {0} /\ r.counter \in Nat
    BY <1>2, WindowOfState
  <1>4. rts.on => rts.counter <= rts.wnd
    BY DEF RtsInv, RtsIsCounted
  <1>5. r.on => r.counter <= r.wnd
    <2>1. CASE r.on = TRUE /\ r.counter = r.wnd
      BY <1>3, <2>1
    <2>2. CASE r.on = rts.on /\ r.counter = rts.counter /\ r.wnd = rts.wnd
      <3>1. r.on => rts.counter <= rts.wnd
        BY <1>4, <2>2, Zenon
      <3> QED
        BY <2>2, <3>1, Zenon
    <2> QED
      BY <1>2, <2>1, <2>2
  <1>6. Raises /\ TurnOnRtsAfterRateIncrease => r.on /\ r.counter > 0
    BY <1>2, <1>3
  <1>7. RtsInv' /\ (r.on /\ r.counter > 0 => rts'.on)
    BY <1>1, <1>2, <1>5, AfterReport
  <1> QED
    BY <1>6, <1>7

LEMMA CountedDown == RtsInv /\ RtsOk => RtsInv' /\ rts'.on = rts.on /\ UNCHANGED vars
  <1> SUFFICES ASSUME RtsInv, RtsOk
               PROVE  RtsInv' /\ rts'.on = rts.on /\ UNCHANGED vars
    OBVIOUS
  <1> DEFINE c == IF rts.counter = 0 THEN U32 - 1 ELSE rts.counter - 1
  <1>1. /\ rts \in RtsState /\ ~ctsReceived /\ ctsReceived' = TRUE /\ UNCHANGED vars
        /\ rts' = [rts EXCEPT !.counter = c]
        /\ rts.on => rts.counter <= rts.wnd /\ rts.counter # 0
    BY DEF RtsInv, RtsType, RtsIsCounted, RtsOk
  <1>2. c \in 0 .. U32 - 1
    BY <1>1, WindowTypes DEF RtsState
  <1>3. rts.on => c <= rts.wnd
    BY <1>1, WindowTypes DEF RtsState
  <1> HIDE DEF c
  <1>4. rts' \in RtsState /\ rts'.on = rts.on /\ rts'.wnd = rts.wnd /\ rts'.counter = c
    BY <1>1, <1>2 DEF RtsState
  <1> QED
    BY <1>1, <1>3, <1>4 DEF RtsInv, RtsType, RtsIsCounted

LEMMA RtsStep == RtsInv /\ [CdNext]_cdVars => RtsInv'
  <1>1. RtsInv /\ UNCHANGED cdVars => RtsInv'
    BY DEF cdVars, RtsInv, RtsType, RtsIsCounted
  <1> QED
    BY <1>1, FailedWithRts, FailedWithoutRts, Succeeded, CountedDown DEF CdNext

LEMMA InitRts == CdInit => RtsInv
  <1> SUFFICES ASSUME CdInit
               PROVE  RtsInv
    OBVIOUS
  <1>1. MinRtsWnd \in MinRtsWnd .. MaxRtsWnd /\ 0 \in 0 .. U32 - 1
    BY WindowTypes
  <1>2. rts \in RtsState
    BY <1>1 DEF CdInit, RtsState
  <1>3. ~rts.on /\ ctsReceived \in BOOLEAN
    BY Zenon DEF CdInit
  <1> QED
    BY <1>2, <1>3, Zenon DEF RtsInv, RtsType, RtsIsCounted

\* The uint32_t counter of frames still to be sent with RTS never wraps around
\* while RTS is on, although every CTS counts it down.
THEOREM RtsStaysCounted == CdSpec => []RtsIsCounted
  <1>1. RtsInv => RtsIsCounted
    BY DEF RtsInv
  <1> QED
    BY <1>1, InitRts, RtsStep, PTL DEF CdSpec

-----------------------------------------------------------------------------
\* Failures that only turn RTS on are the ones the ladder lets pass: a raised rate
\* is tried with RTS, and RTS is off only after an even number of failures.
FilterInv ==
    /\ recovery /\ failed = 0 => rts.on
    /\ ~recovery /\ ~rts.on => failed % 2 = 0

CdInv == RtsInv /\ LadderInv /\ FilterInv

LEMMA CdInitInv == CdInit => CdInv /\ Ladder!Init
  BY InitRts, InitIsLadder DEF CdInit, Init, CdInv, FilterInv

LEMMA CdStep ==
    ASSUME TurnOnRtsAfterRateIncrease, CdInv, [CdNext]_cdVars
    PROVE  CdInv' /\ [Ladder!Next]_(Ladder!vars)
  <1> USE DEF CdInv
  <1>0. failed \in Nat /\ recovery \in BOOLEAN /\ rate \in 0 .. MaxRate
    BY DEF LadderInv
  <1>1. CASE CdDataFailed /\ rts.on
    <2>1. LadderInv' /\ Ladder!Fail
      BY <1>1, DataFailedIsFailure, FailureStep DEF CdDataFailed
    <2>2. failed' = failed + 1 /\ recovery' = recovery
      BY <1>1, DataFailedIsFailure DEF CdDataFailed
    <2>3. RtsInv' /\ (rts'.on \/ FallsBack)
      BY <1>1, FailedWithRts
    <2>4. FilterInv'
      BY <1>0, <2>2, <2>3 DEF FilterInv, FallsBack
    <2> QED
      BY <2>1, <2>3, <2>4 DEF Ladder!Next
  <1>2. CASE CdDataFailed /\ ~rts.on
    <2>1. ~FallsBack
      BY <1>0, <1>2 DEF FilterInv, FallsBack
    <2>2. failed' = failed + 1 /\ recovery' = recovery /\ rate' = rate
      BY <1>2 DEF CdDataFailed
    <2>3. LadderInv' /\ Ladder!Fail
      BY <2>1, <2>2, FailureStep
    <2>4. RtsInv' /\ rts'.on
      BY <1>2, FailedWithoutRts
    <2>5. FilterInv'
      BY <1>0, <2>2, <2>4 DEF FilterInv
    <2> QED
      BY <2>3, <2>4, <2>5 DEF Ladder!Next
  <1>3. CASE CdDataOk
    <2>1. LadderInv' /\ (Ladder!Raise \/ Ladder!Keep)
      BY <1>3, SuccessStep DEF CdDataOk
    <2>2. failed' = 0 /\ recovery' = Raises
      BY <1>3 DEF CdDataOk, DataOk
    <2>3. RtsInv' /\ (Raises => rts'.on)
      BY <1>3, Succeeded
    <2>4. FilterInv'
      BY <2>2, <2>3 DEF FilterInv
    <2> QED
      BY <2>1, <2>3, <2>4 DEF Ladder!Next
  <1>4. CASE RtsOk
    <2>1. RtsInv' /\ UNCHANGED vars /\ rts'.on = rts.on
      BY <1>4, CountedDown
    <2>2. failed' = failed /\ recovery' = recovery
      BY <2>1 DEF vars, counters
    <2>3. FilterInv'
      BY <2>1, <2>2 DEF FilterInv
    <2> QED
      BY <2>1, <2>3, StutterKeepsLadder
  <1>5. CASE UNCHANGED cdVars
    <2>1. UNCHANGED vars /\ rts' = rts
      BY <1>5 DEF cdVars
    <2>2. failed' = failed /\ recovery' = recovery
      BY <2>1 DEF vars, counters
    <2>3. FilterInv'
      BY <2>1, <2>2 DEF FilterInv
    <2>4. RtsInv'
      BY <1>5, RtsStep
    <2> QED
      BY <2>1, <2>3, <2>4, StutterKeepsLadder
  <1> QED
    BY <1>1, <1>2, <1>3, <1>4, <1>5 DEF CdNext

\* With RTS turned on after a rate increase, AARF-CD is a rate ladder although it
\* lets failures pass.
THEOREM AarfcdIsRateLadder ==
    ASSUME TurnOnRtsAfterRateIncrease
    PROVE  CdSpec => ImplementsRateLadder
  <1>1. CdInv /\ [CdNext]_cdVars => CdInv' /\ [Ladder!Next]_(Ladder!vars)
    BY CdStep
  <1> QED
    BY <1>1, CdInitInv, PTL DEF CdSpec, ImplementsRateLadder, Ladder!Spec

\* And a rate that fails is left.
THEOREM AarfcdSlowsDown ==
    ASSUME TurnOnRtsAfterRateIncrease
    PROVE  CdSpec => []FailuresSlowDown
  <1>1. CdInv /\ [CdNext]_cdVars => CdInv'
    BY CdStep
  <1>2. CdInv => FailuresSlowDown
    BY DEF CdInv, LadderInv
  <1> QED
    BY <1>1, <1>2, CdInitInv, PTL DEF CdSpec
-----------------------------------------------------------------------------
\* The thresholds and the counts that are compared with them.
SpeedInv ==
    /\ rate \in Int /\ timer \in Nat /\ success \in Nat
    /\ successThreshold \in Nat /\ timerTimeout \in Nat
    /\ ThresholdsInRange /\ SuccessesSpeedUp

LEMMA ThresholdTypes ==
    /\ MinSuccessThreshold \in Nat \ {0} /\ MinTimerThreshold \in Nat \ {0}
    /\ SuccessK \in Nat \ {0} /\ TimerK \in Nat \ {0}
    /\ MaxSuccessThreshold \in Nat /\ MinSuccessThreshold <= MaxSuccessThreshold
    /\ IntLimit \in Nat /\ MinTimerThreshold < IntLimit
  BY AarfAssumption DEF AarfAssumption

LEMMA ProductGrows ==
    ASSUME NEW k \in Nat \ {0}, NEW x \in Nat
    PROVE  k * x \in Nat /\ x <= k * x
  OBVIOUS

\* Whatever an int makes of the product, the timer's threshold keeps its minimum.
LEMMA ToIntKeepsMinimum ==
    ASSUME NEW x \in Nat, MinTimerThreshold <= x, NEW t \in ToInt(x)
    PROVE  t \in Nat /\ MinTimerThreshold <= t
  BY ThresholdTypes DEF ToInt

LEMMA SlowerKeepsRange ==
    ASSUME SpeedInv, Slower
    PROVE  successThreshold' \in Nat /\ timerTimeout' \in Nat /\ ThresholdsInRange'
  <1> DEFINE s == SuccessK * successThreshold
             t == TimerK * timerTimeout
             u == IF t > MinSuccessThreshold THEN t ELSE MinSuccessThreshold
  <1>1. /\ successThreshold' = IF s < MaxSuccessThreshold THEN s ELSE MaxSuccessThreshold
        /\ timerTimeout' \in ToInt(u)
    BY DEF Slower
  <1>2. s \in Nat /\ successThreshold <= s /\ t \in Nat /\ timerTimeout <= t
    BY ProductGrows, ThresholdTypes DEF SpeedInv
  <1> HIDE DEF s, t
  <1>3. u \in Nat /\ MinTimerThreshold <= u
    BY <1>2, ThresholdTypes DEF SpeedInv, ThresholdsInRange
  <1> HIDE DEF u
  <1>4. timerTimeout' \in Nat /\ MinTimerThreshold <= timerTimeout'
    BY <1>1, <1>3, ToIntKeepsMinimum
  <1>5. successThreshold' \in MinSuccessThreshold .. MaxSuccessThreshold
    BY <1>1, <1>2, ThresholdTypes DEF SpeedInv, ThresholdsInRange
  <1> QED
    BY <1>4, <1>5, ThresholdTypes DEF ThresholdsInRange

\* A failure forgets the successes, so that any threshold is still ahead of them.
LEMMA ForgetsSuccesses ==
    ASSUME SpeedInv, rate' \in Int, timer' \in Nat, success' = 0,
           successThreshold' \in Nat, timerTimeout' \in Nat, ThresholdsInRange'
    PROVE  SpeedInv'
  <1>1. success' < successThreshold'
    BY ThresholdTypes DEF ThresholdsInRange
  <1> QED
    BY <1>1 DEF SpeedInv, SuccessesSpeedUp

LEMMA LowerIsInt == \A r \in Int : Lower(r) \in Int
  BY DEF Lower

LEMMA SlowsDown == SpeedInv /\ DataFailed => SpeedInv'
  <1> SUFFICES ASSUME SpeedInv, DataFailed
               PROVE  SpeedInv'
    OBVIOUS
  <1>1. rate' \in Int /\ success' = 0
    BY LowerIsInt DEF SpeedInv, DataFailed
  <1>2. timer' \in Nat
    BY DEF SpeedInv, DataFailed
  <1>3. successThreshold' \in Nat /\ timerTimeout' \in Nat /\ ThresholdsInRange'
    <2>1. CASE FallsBack /\ recovery
      BY <2>1, SlowerKeepsRange DEF DataFailed
    <2>2. CASE FallsBack /\ ~recovery
      BY <2>2, ThresholdTypes DEF DataFailed, AsAtFirst, ThresholdsInRange
    <2>3. CASE ~FallsBack
      BY <2>3 DEF DataFailed, thresholds, SpeedInv, ThresholdsInRange
    <2> QED
      BY <2>1, <2>2, <2>3
  <1> QED
    BY <1>1, <1>2, <1>3, ForgetsSuccesses

\* A success below the top that does not reach the threshold leaves it ahead.
LEMMA SpeedsUp ==
    ASSUME SpeedInv, UNCHANGED thresholds,
           IF Raises THEN rate' = rate + 1 /\ timer' = 0 /\ success' = 0
           ELSE timer' = timer + 1 /\ success' = success + 1 /\ UNCHANGED rate
    PROVE  SpeedInv'
  <1>1. successThreshold' = successThreshold /\ timerTimeout' = timerTimeout
    BY DEF thresholds
  <1>2. ThresholdsInRange'
    BY <1>1 DEF SpeedInv, ThresholdsInRange
  <1>3. CASE Raises
    BY <1>1, <1>2, <1>3, ForgetsSuccesses DEF SpeedInv
  <1>4. CASE ~Raises
    BY <1>1, <1>2, <1>4 DEF SpeedInv, SuccessesSpeedUp, Raises
  <1> QED
    BY <1>3, <1>4

LEMMA UnchangedSpeed == SpeedInv /\ UNCHANGED vars => SpeedInv'
  <1> SUFFICES ASSUME SpeedInv, UNCHANGED vars
               PROVE  SpeedInv'
    OBVIOUS
  <1>1. /\ rate' = rate /\ timer' = timer /\ success' = success
        /\ successThreshold' = successThreshold /\ timerTimeout' = timerTimeout
    BY DEF vars, counters, thresholds
  <1> QED
    BY <1>1 DEF SpeedInv, ThresholdsInRange, SuccessesSpeedUp

LEMMA AarfSpeed == SpeedInv /\ [Next]_vars => SpeedInv'
  BY SlowsDown, SpeedsUp, UnchangedSpeed DEF Next, DataOk

LEMMA AarfcdSpeed == SpeedInv /\ [CdNext]_cdVars => SpeedInv'
  <1> SUFFICES ASSUME SpeedInv, [CdNext]_cdVars
               PROVE  SpeedInv'
    OBVIOUS
  <1>1. CASE CdDataFailed /\ rts.on
    BY <1>1, SlowsDown DEF CdDataFailed
  <1>2. CASE CdDataFailed /\ ~rts.on
    <2>1. rate' = rate /\ success' = 0 /\ UNCHANGED thresholds
      BY <1>2 DEF CdDataFailed
    <2>2. timer' = (IF failed' >= 2 THEN 0 ELSE timer + 1)
      BY <1>2 DEF CdDataFailed
    <2>3. timer' \in Nat
      BY <2>2 DEF SpeedInv
    <2> QED
      BY <2>1, <2>3, ForgetsSuccesses DEF SpeedInv, thresholds, ThresholdsInRange
  <1>3. CASE CdDataOk
    BY <1>3, SpeedsUp DEF CdDataOk, DataOk
  <1>4. CASE RtsOk \/ UNCHANGED cdVars
    BY <1>4, UnchangedSpeed DEF RtsOk, cdVars
  <1> QED
    BY <1>1, <1>2, <1>3, <1>4 DEF CdNext

LEMMA InitSpeed == Init => SpeedInv
  BY ThresholdTypes DEF Init, SpeedInv, ThresholdsInRange, SuccessesSpeedUp

-----------------------------------------------------------------------------
(* ARF's reports are those of AARF with thresholds that stay.                *)
ArfThresholds == successThreshold = MinSuccessThreshold /\ timerTimeout = MinTimerThreshold

LEMMA ArfFails == Arf!DataFailed => /\ failed' = failed + 1 /\ recovery' = recovery /\ success' = 0
                                    /\ rate' = IF FallsBack THEN Lower(rate) ELSE rate
                                    /\ (timer \in Nat => timer' \in Nat)
  <1> SUFFICES ASSUME Arf!DataFailed
               PROVE  /\ failed' = failed + 1 /\ recovery' = recovery /\ success' = 0
                      /\ rate' = IF FallsBack THEN Lower(rate) ELSE rate
                      /\ (timer \in Nat => timer' \in Nat)
    OBVIOUS
  <1>1. timer' = IF recovery \/ failed' >= 2 THEN 0 ELSE timer + 1
    BY DEF Arf!DataFailed
  <1>2. timer \in Nat => timer' \in Nat
    BY <1>1
  <1> QED
    BY <1>2 DEF Arf!DataFailed, Arf!FallsBack, FallsBack, Arf!Lower, Lower

LEMMA ArfSucceeds == ArfThresholds /\ Arf!DataOk /\ UNCHANGED thresholds => DataOk
  BY DEF ArfThresholds, Arf!DataOk, DataOk, Arf!Raises, Raises, Arf!Countable, Countable

\* CARA, as the node has it.
LEMMA CaraConstantTypes ==
    /\ MaxRate \in Nat /\ ProbeThreshold \in Nat
    /\ FailureThreshold \in Nat \ {0} /\ MinSuccessThreshold \in Nat \ {0}
    /\ MinTimerThreshold \in Nat \ {0}
  BY RateManagersAssumption DEF Cara!CaraConstants

LEMMA CaraCounters == Cara!CountersBounded /\ [Cara!Next]_station => Cara!CountersBounded'
  <1> SUFFICES ASSUME Cara!CountersBounded, [Cara!Next]_station
               PROVE  Cara!CountersBounded'
    OBVIOUS
  <1>1. /\ station.rate \in 0 .. MaxRate /\ station.timer \in Nat
        /\ station.success \in 0 .. MinSuccessThreshold - 1
        /\ station.failed \in 0 .. FailureThreshold - 1
        /\ station.timer < MinTimerThreshold + station.failed
    BY DEF Cara!CountersBounded
  <1>2. CASE Cara!DataFailed
    <2>1. Cara!Lower(station.rate) \in 0 .. MaxRate
      BY <1>1, CaraConstantTypes DEF Cara!Lower
    <2> QED
      BY <1>1, <1>2, <2>1, CaraConstantTypes DEF Cara!CountersBounded, Cara!DataFailed
  <1>3. CASE Cara!DataOk
    BY <1>1, <1>3, CaraConstantTypes DEF Cara!CountersBounded, Cara!DataOk
  <1>4. CASE UNCHANGED station
    BY <1>4 DEF Cara!CountersBounded
  <1> QED
    BY <1>2, <1>3, <1>4 DEF Cara!Next

LEMMA CaraStarts == Cara!Init => Cara!CountersBounded
  BY CaraConstantTypes DEF Cara!Init, Cara!CountersBounded

\* A rate that falls was failed by a frame with RTS.
LEMMA CaraFalls ==
    Cara!CountersBounded /\ [Cara!Next]_station =>
        [ProbeThreshold < FailureThreshold /\ station'.rate < station.rate => Cara!NeedRts]_station
  <1> SUFFICES ASSUME Cara!CountersBounded, Cara!Next,
                      ProbeThreshold < FailureThreshold, station'.rate < station.rate
               PROVE  Cara!NeedRts
    OBVIOUS
  <1>1. station.failed \in Nat /\ station.rate \in 0 .. MaxRate
    BY CaraConstantTypes DEF Cara!CountersBounded
  <1>2. ~Cara!DataOk
    BY <1>1, CaraConstantTypes DEF Cara!DataOk
  <1>3. station.failed + 1 >= FailureThreshold
    BY <1>1, <1>2, CaraConstantTypes DEF Cara!Next, Cara!DataFailed
  <1>4. station.failed >= ProbeThreshold
    BY <1>1, <1>3, CaraConstantTypes
  <1> QED
    BY <1>4 DEF Cara!NeedRts

LEMMA ArfSpeed ==
    ASSUME SpeedInv, ArfThresholds, Arf!Next, UNCHANGED thresholds
    PROVE  SpeedInv' /\ ArfThresholds'
  <1>1. ArfThresholds'
    BY DEF thresholds, ArfThresholds
  <1>2. CASE Arf!DataFailed
    <2>1. success' = 0 /\ rate' \in Int /\ timer' \in Nat
      BY <1>2, ArfFails, LowerIsInt DEF SpeedInv
    <2> QED
      BY <1>1, <2>1, ForgetsSuccesses DEF SpeedInv, ThresholdsInRange, thresholds
  <1>3. CASE Arf!DataOk
    BY <1>1, <1>3, ArfSucceeds, SpeedsUp DEF DataOk
  <1> QED
    BY <1>2, <1>3 DEF Arf!Next

LEMMA ArfStep ==
    ASSUME LadderInv, ArfThresholds, Arf!Next, UNCHANGED thresholds
    PROVE  LadderInv' /\ Ladder!Next
  <1>1. CASE Arf!DataFailed
    BY <1>1, ArfFails, FailureStep DEF Ladder!Next
  <1>2. CASE Arf!DataOk
    BY <1>2, ArfSucceeds, SuccessStep DEF Ladder!Next
  <1> QED
    BY <1>1, <1>2 DEF Arf!Next

-----------------------------------------------------------------------------
(* A node with any of the managers.                                          *)
LEMMA UnchangedRts == RtsInv /\ UNCHANGED <<rts, ctsReceived>> => RtsInv'
  BY DEF RtsInv, RtsType, RtsIsCounted

LEMMA UnchangedArf == ArfThresholds /\ UNCHANGED thresholds => ArfThresholds'
  BY DEF ArfThresholds, thresholds

LEMMA UnchangedFilter == FilterInv /\ UNCHANGED <<vars, rts>> => FilterInv'
  BY DEF FilterInv, vars, counters

LEMMA UnchangedCara == Cara!CountersBounded /\ UNCHANGED station => Cara!CountersBounded'
  BY DEF Cara!CountersBounded

\* What holds whichever manager the node has.
ManagersInv ==
    /\ SpeedInv /\ RtsInv /\ Cara!CountersBounded
    /\ manager = "arf" => ArfThresholds

LEMMA ManagersInitInv == ManagersInit => ManagersInv
  <1> SUFFICES ASSUME ManagersInit
               PROVE  ManagersInv
    OBVIOUS
  <1>1. SpeedInv /\ RtsInv
    BY InitSpeed, InitRts DEF ManagersInit, CdInit
  <1>2. ArfThresholds
    BY DEF ManagersInit, CdInit, Init, ArfThresholds
  <1>3. Cara!CountersBounded
    BY CaraStarts DEF ManagersInit
  <1> QED
    BY <1>1, <1>2, <1>3 DEF ManagersInv

\* The steps of the managers, each beside what the node's others keep.
LEMMA StepOfManagers ==
    ASSUME [ManagersNext]_allVars
    PROVE  /\ UNCHANGED manager
           /\ [Cara!Next]_station /\ [Onoe!Next]_onoeVars
           /\ \/ manager = "arf" /\ Arf!Next /\ UNCHANGED <<thresholds, rts, ctsReceived>>
              \/ manager = "aarf" /\ Next /\ UNCHANGED <<rts, ctsReceived>>
              \/ manager = "aarfcd" /\ CdNext
              \/ UNCHANGED cdVars
  BY DEF ManagersNext, UsesArf, UsesAarf, UsesAarfcd, UsesCara, UsesOnoe, allVars

LEMMA ManagersStep == ManagersInv /\ [ManagersNext]_allVars => ManagersInv'
  <1> SUFFICES ASSUME ManagersInv, [ManagersNext]_allVars
               PROVE  ManagersInv'
    OBVIOUS
  <1> USE DEF ManagersInv
  <1>1. Cara!CountersBounded' /\ manager' = manager
    BY StepOfManagers, CaraCounters
  <1>2. CASE manager = "arf" /\ Arf!Next /\ UNCHANGED <<thresholds, rts, ctsReceived>>
    BY <1>1, <1>2, ArfSpeed, UnchangedRts
  <1>3. CASE manager = "aarf" /\ Next /\ UNCHANGED <<rts, ctsReceived>>
    BY <1>1, <1>3, AarfSpeed, UnchangedRts
  <1>4. CASE manager = "aarfcd" /\ CdNext
    BY <1>1, <1>4, AarfcdSpeed, RtsStep
  <1>5. CASE UNCHANGED cdVars
    <2>1. SpeedInv' /\ RtsInv'
      BY <1>5, AarfcdSpeed, RtsStep
    <2>2. UNCHANGED thresholds
      BY <1>5 DEF cdVars, vars
    <2> QED
      BY <1>1, <2>1, <2>2, UnchangedArf
  <1> QED
    BY <1>2, <1>3, <1>4, <1>5, StepOfManagers

\* Thresholds keep their bounds, although AARF multiplies them and an int overflows.
THEOREM ThresholdsStayInRange == ManagersSpec => []ThresholdsInRange
  <1>1. ManagersInv => ThresholdsInRange
    BY DEF ManagersInv, SpeedInv
  <1> QED
    BY <1>1, ManagersInitInv, ManagersStep, PTL DEF ManagersSpec

\* So many successes in a row raise the rate: the count that is compared with its
\* threshold by equality never passes it, whenever the threshold changes.
THEOREM SuccessesAlwaysSpeedUp == ManagersSpec => []SuccessesSpeedUp
  <1>1. ManagersInv => SuccessesSpeedUp
    BY DEF ManagersInv, SpeedInv
  <1> QED
    BY <1>1, ManagersInitInv, ManagersStep, PTL DEF ManagersSpec

\* The uint32_t counter of frames still to be sent with RTS never wraps around
\* while RTS is on, although every CTS counts it down.
THEOREM ManagersKeepRtsCounted == ManagersSpec => []RtsIsCounted
  <1>1. ManagersInv => RtsIsCounted
    BY DEF ManagersInv, RtsInv
  <1> QED
    BY <1>1, ManagersInitInv, ManagersStep, PTL DEF ManagersSpec

\* CARA's timer is counted up by failures that do not compare it, and yet by no
\* more than there are: every count stays below its threshold.
THEOREM CaraCountersStayBounded == ManagersSpec => []Cara!CountersBounded
  <1>1. ManagersInv => Cara!CountersBounded
    BY DEF ManagersInv
  <1> QED
    BY <1>1, ManagersInitInv, ManagersStep, PTL DEF ManagersSpec

\* CARA: thresholds that leave room for a frame with RTS have one sent before the
\* rate falls.
THEOREM CaraTriesRts == ManagersSpec => CaraProbesBeforeFalling
  <1>1. ManagersInv /\ [ManagersNext]_allVars =>
            [ProbeThreshold < FailureThreshold /\ station'.rate < station.rate
                => Cara!NeedRts]_station
    BY StepOfManagers, CaraFalls DEF ManagersInv
  <1> QED
    BY <1>1, ManagersInitInv, ManagersStep, PTL
       DEF ManagersSpec, CaraProbesBeforeFalling, Cara!ProbesBeforeFalling

-----------------------------------------------------------------------------
\* The managers that are rate ladders, and what AARF-CD's filter adds to it.
LaddersInv ==
    /\ ManagersInv /\ LadderInv
    /\ manager = "aarfcd" => FilterInv

LEMMA LaddersInitInv == ManagersInit => LaddersInv /\ Ladder!Init
  <1>1. ManagersInit => CdInv /\ Ladder!Init
    BY CdInitInv DEF ManagersInit
  <1> QED
    BY <1>1, ManagersInitInv DEF LaddersInv, CdInv

LEMMA LaddersStep ==
    ASSUME TurnOnRtsAfterRateIncrease
    PROVE  LaddersInv /\ [ManagersNext]_allVars => LaddersInv' /\ [Ladder!Next]_(Ladder!vars)
  <1> SUFFICES ASSUME LaddersInv, [ManagersNext]_allVars
               PROVE  LaddersInv' /\ [Ladder!Next]_(Ladder!vars)
    OBVIOUS
  <1> USE DEF LaddersInv
  <1>1. ManagersInv' /\ manager' = manager
    BY ManagersStep, StepOfManagers
  <1>2. CASE manager = "arf" /\ Arf!Next /\ UNCHANGED <<thresholds, rts, ctsReceived>>
    BY <1>1, <1>2, ArfStep DEF ManagersInv
  <1>3. CASE manager = "aarf" /\ Next /\ UNCHANGED <<rts, ctsReceived>>
    BY <1>1, <1>3, AarfStep
  <1>4. CASE manager = "aarfcd" /\ CdNext
    BY <1>1, <1>4, CdStep DEF CdInv, ManagersInv
  <1>5. CASE UNCHANGED cdVars
    <2>1. UNCHANGED vars /\ UNCHANGED <<vars, rts>>
      BY <1>5 DEF cdVars
    <2> QED
      BY <1>1, <2>1, StutterKeepsLadder, UnchangedFilter
  <1> QED
    BY <1>2, <1>3, <1>4, <1>5, StepOfManagers

\* ARF, AARF and AARF-CD are rate ladders, AARF-CD although it lets failures pass.
THEOREM ManagersAreRateLadders ==
    ASSUME TurnOnRtsAfterRateIncrease
    PROVE  ManagersSpec => ImplementsRateLadder
  <1>1. LaddersInv /\ [ManagersNext]_allVars => LaddersInv' /\ [Ladder!Next]_(Ladder!vars)
    BY LaddersStep
  <1> QED
    BY <1>1, LaddersInitInv, PTL DEF ManagersSpec, ImplementsRateLadder, Ladder!Spec

\* And a rate that fails is left.
THEOREM ManagersSlowDown ==
    ASSUME TurnOnRtsAfterRateIncrease
    PROVE  ManagersSpec => []FailuresSlowDown
  <1>1. LaddersInv /\ [ManagersNext]_allVars => LaddersInv'
    BY LaddersStep
  <1>2. LaddersInv => FailuresSlowDown
    BY DEF LaddersInv, LadderInv
  <1> QED
    BY <1>1, <1>2, LaddersInitInv, PTL DEF ManagersSpec

-----------------------------------------------------------------------------
\* Onoe: while a packet is being retried the manager is blocked.
OnoeInv == Onoe!Retries > 0 => rateBlocked

LEMMA OnoeStarts == Onoe!Init => OnoeInv
  BY DEF Onoe!Init, Onoe!NoRetry, OnoeInv, Onoe!Retries

LEMMA OnoeOutcome ==
    ASSUME NEW outcome, NEW retries, Onoe!Outcome(outcome, retries)
    PROVE  OnoeInv' /\ retry' = Onoe!NoRetry
  <1>1. retry' = Onoe!NoRetry
    BY DEF Onoe!Outcome
  <1>2. retry'.short = 0 /\ retry'.long = 0
    BY <1>1 DEF Onoe!NoRetry
  <1> QED
    BY <1>1, <1>2 DEF OnoeInv, Onoe!Retries

LEMMA OnoeFails ==
    ASSUME NEW kind, Onoe!Failed(kind)
    PROVE  OnoeInv' /\ (UNCHANGED <<txrate, tx>> \/ retry' = Onoe!NoRetry)
  BY OnoeOutcome DEF Onoe!Failed, OnoeInv

LEMMA OnoeStep ==
    OnoeInv /\ [Onoe!Next]_onoeVars =>
        /\ OnoeInv'
        /\ [Onoe!Retries > 0 => UNCHANGED <<txrate, tx>> \/ retry' = Onoe!NoRetry]_(Onoe!vars)
  <1> SUFFICES ASSUME OnoeInv, [Onoe!Next]_onoeVars
               PROVE  /\ OnoeInv'
                      /\ [Onoe!Retries > 0 => UNCHANGED <<txrate, tx>> \/ retry' = Onoe!NoRetry]_(Onoe!vars)
    OBVIOUS
  <1>1. CASE Onoe!UpdateMode
    <2>1. ~rateBlocked /\ UNCHANGED <<rateBlocked, retry>>
      BY <1>1 DEF Onoe!UpdateMode
    <2> QED
      BY <2>1 DEF OnoeInv, Onoe!Retries
  <1>2. CASE Onoe!Failed("short") \/ Onoe!Failed("long")
    BY <1>2, OnoeFails
  <1>3. CASE Onoe!RtsOk
    BY <1>3 DEF Onoe!RtsOk, OnoeInv
  <1>4. CASE Onoe!DataOk
    BY <1>4, OnoeOutcome DEF Onoe!DataOk
  <1>5. CASE UNCHANGED onoeVars
    BY <1>5 DEF onoeVars, Onoe!vars, OnoeInv, Onoe!Retries
  <1> QED
    BY <1>1, <1>2, <1>3, <1>4, <1>5 DEF Onoe!Next

\* No decision falls into the retries of a packet, which are not counted yet.
THEOREM OnoeDecidesBetweenPackets == ManagersSpec => OnoePacketKeepsRate
  <1>1. ManagersInit => OnoeInv
    BY OnoeStarts DEF ManagersInit
  <1>2. OnoeInv /\ [ManagersNext]_allVars =>
          /\ OnoeInv'
          /\ [Onoe!Retries > 0 => UNCHANGED <<txrate, tx>> \/ retry' = Onoe!NoRetry]_(Onoe!vars)
    BY StepOfManagers, OnoeStep
  <1> QED
    BY <1>1, <1>2, PTL DEF ManagersSpec, OnoePacketKeepsRate, Onoe!PacketKeepsRate

=============================================================================
