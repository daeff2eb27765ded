--------------------------- MODULE ArfWifiManager ---------------------------
(* ArfWifiManager: the rate of one station, driven by the reports of its     *)
(* data frames.  Reports about RTS change nothing.  What ARF promises is     *)
(* stated with the other rate managers, in RateManagers.                     *)
EXTENDS Integers

CONSTANTS MaxRate,                \* index of the highest rate supported
          SuccessThreshold, TimerThreshold,
          MaxCount                \* bound of the counters

ArfConstants ==
    /\ {MaxRate, MaxCount} \subseteq Nat
    /\ {SuccessThreshold, TimerThreshold} \subseteq Nat \ {0}

VARIABLES rate, timer, success, failed, recovery

vars == <<rate, timer, success, failed, recovery>>

Countable == {timer, success, failed} \subseteq 0 .. MaxCount - 1

Lower(r) == IF r = 0 THEN 0 ELSE r - 1

\* Whether one more failure lowers the rate.
FallsBack == IF recovery THEN failed = 0 ELSE failed % 2 = 1

\* DoReportDataFailed
DataFailed ==
    /\ Countable
    /\ failed' = failed + 1
    /\ success' = 0
    /\ timer' = IF recovery \/ failed' >= 2 THEN 0 ELSE timer + 1
    /\ rate' = IF FallsBack THEN Lower(rate) ELSE rate
    /\ UNCHANGED recovery

\* Mutant of Raises: the counters are compared before they count this frame.
RaisesLate == rate < MaxRate /\ (success = SuccessThreshold \/ timer = TimerThreshold)

\* Whether one more success raises the rate.
Raises ==
    /\ rate < MaxRate
    /\ success + 1 = SuccessThreshold \/ timer + 1 = TimerThreshold

\* DoReportDataOk
DataOk ==
    /\ Countable
    /\ failed' = 0
    /\ recovery' = Raises
    /\ IF Raises THEN rate' = rate + 1 /\ timer' = 0 /\ success' = 0
       ELSE timer' = timer + 1 /\ success' = success + 1 /\ UNCHANGED rate

\* DoCreateStation
Init == rate = 0 /\ timer = 0 /\ success = 0 /\ failed = 0 /\ recovery = FALSE

Next == DataFailed \/ DataOk

Spec == Init /\ [][Next]_vars

=============================================================================
