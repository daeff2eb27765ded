----------------------------- MODULE RateLadder -----------------------------
(* What the ARF family of rate managers promises of a station's rate, when-  *)
(* ever they choose to raise it: a raised rate is on probation (recovery)    *)
(* until the first success; its first failure takes it back at once, and     *)
(* otherwise every second failure in a row lowers the rate.                  *)
EXTENDS Integers

CONSTANT MaxRate                  \* index of the highest rate, a natural number

VARIABLES rate,                   \* index of the rate of the next data frame
          failed,                 \* failures in a row
          recovery                \* no success since the rate was raised

vars == <<rate, failed, recovery>>

Lower(r) == IF r = 0 THEN 0 ELSE r - 1

Raise ==
    /\ rate < MaxRate
    /\ rate' = rate + 1
    /\ failed' = 0
    /\ recovery' = TRUE

Keep ==
    /\ failed' = 0
    /\ recovery' = FALSE
    /\ UNCHANGED rate

\* In recovery the first failure counts, else every second one.
FallsBack == IF recovery THEN failed = 0 ELSE failed % 2 = 1

Fail ==
    /\ failed' = failed + 1
    /\ rate' = IF FallsBack THEN Lower(rate) ELSE rate
    /\ UNCHANGED recovery

Init == rate = 0 /\ failed = 0 /\ recovery = FALSE

Next == Raise \/ Keep \/ Fail

Spec == Init /\ [][Next]_vars

-----------------------------------------------------------------------------
LadderTypeOK == rate \in 0 .. MaxRate /\ failed \in Nat /\ recovery \in BOOLEAN

\* A rate that fails is left: after 2n failures in a row the rate is n steps
\* below the highest, or at the bottom.  In recovery only the first counts.
FailuresSlowDown ==
    IF recovery THEN failed > 0 => rate < MaxRate
                ELSE rate = 0 \/ rate + failed \div 2 <= MaxRate

=============================================================================
