-------------------------- MODULE CaraWifiManager --------------------------
(* CaraWifiManager: failures turn RTS on before they lower the rate.         *)
EXTENDS Integers

CONSTANTS MaxRate,                \* index of the highest rate supported
          ProbeThreshold, FailureThreshold, SuccessThreshold, TimerTimeout,
          RtsNormally             \* frames longer than the RTS/CTS threshold

CaraConstants ==
    /\ MaxRate \in Nat /\ RtsNormally \in BOOLEAN
    /\ {FailureThreshold, SuccessThreshold, TimerTimeout} \subseteq Nat \ {0}
    /\ ProbeThreshold \in Nat

VARIABLE station                  \* CaraWifiRemoteStation

\* Mutant of NeedRts: RTS only after more failures than the threshold.
NeedRtsLate == RtsNormally \/ station.failed > ProbeThreshold

\* DoNeedRts
NeedRts == RtsNormally \/ station.failed >= ProbeThreshold

Lower(r) == IF r = 0 THEN 0 ELSE r - 1

\* DoReportDataFailed
DataFailed ==
    LET s == station
    IN  station' =
          IF s.failed + 1 >= FailureThreshold
          THEN [rate |-> Lower(s.rate), timer |-> 0, success |-> 0, failed |-> 0]
          ELSE [rate |-> s.rate, timer |-> s.timer + 1, success |-> 0, failed |-> s.failed + 1]

\* DoReportDataOk
DataOk ==
    LET s == station
    IN  station' =
          IF s.success + 1 = SuccessThreshold \/ s.timer + 1 >= TimerTimeout
          THEN [rate |-> IF s.rate < MaxRate THEN s.rate + 1 ELSE s.rate,
                timer |-> 0, success |-> 0, failed |-> 0]
          ELSE [rate |-> s.rate, timer |-> s.timer + 1, success |-> s.success + 1, failed |-> 0]

\* DoCreateStation
Init == station = [rate |-> 0, timer |-> 0, success |-> 0, failed |-> 0]

Next == DataFailed \/ DataOk

Spec == Init /\ [][Next]_station

-----------------------------------------------------------------------------
\* The rate is one of the station's and no counter runs away: the next success
\* always finds the timer and the successes it counts below their thresholds,
\* but for the failures the timer has counted since.
CountersBounded ==
    /\ station \in [rate: 0 .. MaxRate, timer: Nat,
                    success: 0 .. SuccessThreshold - 1, failed: 0 .. FailureThreshold - 1]
    /\ station.timer < TimerTimeout + station.failed

\* Collision awareness: the rate is lowered only by the failure of a frame that
\* was protected by RTS, if the thresholds leave room for one.
ProbesBeforeFalling ==
    [][ProbeThreshold < FailureThreshold /\ station'.rate < station.rate => NeedRts]_station

=============================================================================
