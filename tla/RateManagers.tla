---------------------------- MODULE RateManagers ----------------------------
(* A node whose rates one of the counter based rate managers controls, the   *)
(* one the experiment configures: what the frame exchange manager reports of *)
(* one remote station, in any order, and what the manager makes of it.       *)
(* ARF shares the variables of the managers made from it, its thresholds     *)
(* being their minima.                                                       *)
EXTENDS AarfcdWifiManager

CONSTANTS ProbeThreshold, FailureThreshold, RtsNormally,      \* CARA
          RaiseThreshold, AddCreditThreshold, Enough,         \* Onoe
          MaxRetry, MaxTx

VARIABLES manager,                              \* never changes
          station,                              \* CARA
          txrate, tx, rateBlocked, retry        \* Onoe

Arf == INSTANCE ArfWifiManager
           WITH SuccessThreshold <- MinSuccessThreshold, TimerThreshold <- MinTimerThreshold
Cara == INSTANCE CaraWifiManager
            WITH SuccessThreshold <- MinSuccessThreshold, TimerTimeout <- MinTimerThreshold
Onoe == INSTANCE OnoeWifiManager

ASSUME RateManagersAssumption ==
    Arf!ArfConstants /\ Cara!CaraConstants /\ Onoe!OnoeConstants

onoeVars == <<txrate, tx, rateBlocked, retry>>
allVars == <<manager, cdVars, station, onoeVars>>

UsesArf ==
    /\ manager = "arf"
    /\ Arf!Next
    /\ UNCHANGED <<thresholds, rts, ctsReceived, station, onoeVars>>

UsesAarf ==
    /\ manager = "aarf"
    /\ Next
    /\ UNCHANGED <<rts, ctsReceived, station, onoeVars>>

UsesAarfcd ==
    /\ manager = "aarfcd"
    /\ CdNext
    /\ UNCHANGED <<station, onoeVars>>

UsesCara ==
    /\ manager = "cara"
    /\ Cara!Next
    /\ UNCHANGED <<cdVars, onoeVars>>

UsesOnoe ==
    /\ manager = "onoe"
    /\ Onoe!Next
    /\ UNCHANGED <<cdVars, station>>

ManagersInit ==
    /\ manager \in {"arf", "aarf", "aarfcd", "cara", "onoe"}
    /\ CdInit /\ Cara!Init /\ Onoe!Init

ManagersNext ==
    /\ UsesArf \/ UsesAarf \/ UsesAarfcd \/ UsesCara \/ UsesOnoe
    /\ UNCHANGED manager

ManagersSpec == ManagersInit /\ [][ManagersNext]_allVars

-----------------------------------------------------------------------------
\* CARA: collisions do not lower the rate before a frame with RTS has failed too.
CaraProbesBeforeFalling == Cara!ProbesBeforeFalling

\* Onoe: no decision falls into the retries of a packet, not yet counted.
OnoePacketKeepsRate == Onoe!PacketKeepsRate

=============================================================================
