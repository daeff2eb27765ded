------------------------- MODULE AarfcdWifiManager -------------------------
(* AarfcdWifiManager: AARF with an RTS filter.  The first failure of a frame *)
(* sent without RTS may be a collision: it turns RTS on instead of lowering  *)
(* the rate.  A counter says how many frames RTS stays on for.               *)
EXTENDS AarfWifiManager

CONSTANTS MinRtsWnd, MaxRtsWnd,
          TurnOffRtsAfterRateDecrease, TurnOnRtsAfterRateIncrease,
          ErpProtection,          \* whether other stations make RTS necessary
          U32                     \* the number of values of a uint32_t

ASSUME AarfcdAssumption ==
    /\ MinRtsWnd \in Nat \ {0} /\ U32 \in Nat
    /\ MaxRtsWnd >= MinRtsWnd /\ MaxRtsWnd \in Nat /\ 2 * MaxRtsWnd < U32
    /\ {TurnOffRtsAfterRateDecrease, TurnOnRtsAfterRateIncrease, ErpProtection} \subseteq BOOLEAN

VARIABLES rts,                    \* m_rtsOn, m_rtsWnd, m_rtsCounter,
                                  \* m_justModifyRate and m_haveASuccess
          ctsReceived             \* RTS was answered, the data frame not yet

cdVars == <<vars, rts, ctsReceived>>

TurnOffRts(r) == [r EXCEPT !.on = FALSE, !.haveASuccess = FALSE]

\* Mutant of CheckRts: RTS is turned off one frame earlier.
CheckRtsEarly(r) == IF r.counter <= 1 /\ r.on THEN TurnOffRts(r) ELSE r

CheckRts(r) == IF r.counter = 0 /\ r.on THEN TurnOffRts(r) ELSE r

\* IncreaseRtsWnd and ResetRtsWnd
Increased(wnd) == IF 2 * wnd > MaxRtsWnd THEN MaxRtsWnd ELSE 2 * wnd

TurnOnRts(r, wnd) == [r EXCEPT !.on = TRUE, !.wnd = wnd, !.counter = wnd]

\* Mutant of RtsAfterCollision: the counter is not set.
RtsAfterCollisionUncounted(r) ==
    [r EXCEPT !.on = TRUE,
              !.wnd = IF r.justModifyRate \/ r.haveASuccess THEN MinRtsWnd ELSE Increased(@)]

\* A failure without RTS turns RTS on, for longer each time no data got through
\* since it was last turned off.
RtsAfterCollision(r) ==
    TurnOnRts(r, IF r.justModifyRate \/ r.haveASuccess THEN MinRtsWnd ELSE Increased(r.wnd))

\* A failure with RTS is the channel's: the window starts over.
RtsAfterFailure(r) ==
    LET kept == [r EXCEPT !.counter = r.wnd, !.justModifyRate = FallsBack]
    IN  IF FallsBack /\ TurnOffRtsAfterRateDecrease THEN TurnOffRts(kept) ELSE kept

\* DoReportDataFailed
CdDataFailed ==
    /\ IF rts.on
       THEN /\ DataFailed
            /\ rts' = CheckRts(RtsAfterFailure(rts))
       ELSE /\ Countable
            /\ failed' = failed + 1
            /\ success' = 0
            /\ timer' = IF failed' >= 2 THEN 0 ELSE timer + 1
            /\ rts' = CheckRts(RtsAfterCollision(rts))
            /\ UNCHANGED <<rate, recovery, thresholds>>
    /\ ctsReceived' = FALSE

\* Mutant of RtsAfterSuccess: RTS is left as it is when the rate is raised.
RtsAfterSuccessAsBefore(r) == [r EXCEPT !.haveASuccess = TRUE, !.justModifyRate = Raises]

\* A success; a rate that was just raised is tried with RTS.
RtsAfterSuccess(r) ==
    LET got == [r EXCEPT !.haveASuccess = TRUE, !.justModifyRate = Raises]
    IN  IF Raises /\ TurnOnRtsAfterRateIncrease THEN TurnOnRts(got, MinRtsWnd) ELSE got

\* DoReportDataOk
CdDataOk ==
    /\ DataOk
    /\ rts' = CheckRts(RtsAfterSuccess(rts))
    /\ ctsReceived' = FALSE

\* DoReportRtsOk: DoNeedRts asked for RTS, or protection did before it was asked.
\* The counter is counted down whether RTS is on or not.
RtsOk ==
    /\ ~ctsReceived
    /\ rts.on \/ ErpProtection
    /\ rts' = [rts EXCEPT !.counter = IF @ = 0 THEN U32 - 1 ELSE @ - 1]
    /\ ctsReceived' = TRUE
    /\ UNCHANGED vars

\* DoCreateStation
CdInit ==
    /\ Init
    /\ rts = [on |-> FALSE, wnd |-> MinRtsWnd, counter |-> 0,
              justModifyRate |-> TRUE, haveASuccess |-> FALSE]
    /\ ctsReceived = FALSE

CdNext == CdDataFailed \/ CdDataOk \/ RtsOk

CdSpec == CdInit /\ [][CdNext]_cdVars

-----------------------------------------------------------------------------
\* While RTS is on its counter has not wrapped around: it is at most the window,
\* and 0 only between the CTS and the report of the data, which turns RTS off.
RtsIsCounted ==
    rts.on => /\ rts.counter <= rts.wnd
              /\ rts.counter = 0 => ctsReceived

=============================================================================
