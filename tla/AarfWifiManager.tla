-------------------------- MODULE AarfWifiManager --------------------------
(* AarfWifiManager: as ArfWifiManager, but a rate that fails its probation   *)
(* is tried again later each time, by thresholds that grow.                  *)
EXTENDS Integers

CONSTANTS MaxRate,                \* index of the highest rate supported
          MinSuccessThreshold, MaxSuccessThreshold, MinTimerThreshold,
          SuccessK, TimerK,       \* the factors of the thresholds, as integers
          IntLimit,               \* 2^31, the first number that is not an int
          MaxCount                \* bound of the counters

ASSUME AarfAssumption ==
    /\ {MaxRate, MaxCount} \subseteq Nat
    /\ {MinSuccessThreshold, MinTimerThreshold, SuccessK, TimerK} \subseteq Nat \ {0}
    /\ MaxSuccessThreshold \in MinSuccessThreshold .. IntLimit - 1
    /\ IntLimit \in Nat /\ MinTimerThreshold < IntLimit

VARIABLES rate, timer, success, failed, recovery, successThreshold, timerTimeout

counters == <<timer, success, failed>>
thresholds == <<successThreshold, timerTimeout>>
vars == <<rate, counters, recovery, thresholds>>

Countable == {timer, success, failed} \subseteq 0 .. MaxCount - 1

\* The conversion of a product to int is undefined from IntLimit on: x86 gives
\* the least int, which as uint32_t is IntLimit, others the greatest.
ToInt(x) == IF x < IntLimit THEN {x} ELSE {IntLimit, IntLimit - 1}

Lower(r) == IF r = 0 THEN 0 ELSE r - 1

\* Whether one more failure lowers the rate.
FallsBack == IF recovery THEN failed = 0 ELSE failed % 2 = 1

\* Mutant of Slower: the maximum is forgotten.
SlowerForEver ==
    LET t == TimerK * timerTimeout
    IN  /\ successThreshold' = SuccessK * successThreshold
        /\ timerTimeout' \in ToInt(IF t > MinSuccessThreshold THEN t ELSE MinSuccessThreshold)

\* Recovery fallback: both thresholds grow, the first up to a maximum.
Slower ==
    LET s == SuccessK * successThreshold
        t == TimerK * timerTimeout
    IN  /\ successThreshold' = IF s < MaxSuccessThreshold THEN s ELSE MaxSuccessThreshold
        /\ timerTimeout' \in ToInt(IF t > MinSuccessThreshold THEN t ELSE MinSuccessThreshold)

\* Normal fallback
AsAtFirst ==
    /\ successThreshold' = MinSuccessThreshold
    /\ timerTimeout' = MinTimerThreshold

\* DoReportDataFailed
DataFailed ==
    /\ Countable
    /\ failed' = failed + 1
    /\ success' = 0
    /\ timer' = IF recovery \/ failed' >= 2 THEN 0 ELSE timer + 1
    /\ IF FallsBack
       THEN rate' = Lower(rate) /\ IF recovery THEN Slower ELSE AsAtFirst
       ELSE UNCHANGED <<rate, thresholds>>
    /\ UNCHANGED recovery

\* Whether one more success raises the rate.
Raises ==
    /\ rate < MaxRate
    /\ success + 1 = successThreshold \/ timer + 1 = timerTimeout

\* DoReportDataOk
DataOk ==
    /\ Countable
    /\ failed' = 0
    /\ recovery' = Raises
    /\ IF Raises THEN rate' = rate + 1 /\ timer' = 0 /\ success' = 0
       ELSE timer' = timer + 1 /\ success' = success + 1 /\ UNCHANGED rate
    /\ UNCHANGED thresholds

\* DoCreateStation
Init ==
    /\ rate = 0 /\ timer = 0 /\ success = 0 /\ failed = 0 /\ recovery = FALSE
    /\ successThreshold = MinSuccessThreshold /\ timerTimeout = MinTimerThreshold

Next == DataFailed \/ DataOk

Spec == Init /\ [][Next]_vars

-----------------------------------------------------------------------------
Ladder == INSTANCE RateLadder

\* ARF, AARF and AARF-CD are rate ladders: a rate on probation falls back at its
\* first failure, and others at every second, although the failures that turn RTS
\* on in AARF-CD are counted and do not lower the rate.
ImplementsRateLadder == Ladder!Spec

\* A rate that fails is left: after 2n failures in a row the rate is n steps below
\* the highest, or at the bottom; one that fails on probation is left as well.
FailuresSlowDown == Ladder!FailuresSlowDown

\* "Maximum value of the success threshold", "the minimum value for the 'timer'
\* threshold", "the minimum value for the success threshold": however often the
\* thresholds are multiplied, and whatever an overflow makes of them.
ThresholdsInRange ==
    /\ successThreshold \in MinSuccessThreshold .. MaxSuccessThreshold
    /\ timerTimeout >= MinTimerThreshold

\* The thresholds change under a count they are compared with by equality, which
\* never passes them: so many successes in a row still raise the rate.
SuccessesSpeedUp == rate < MaxRate => success < successThreshold

=============================================================================
