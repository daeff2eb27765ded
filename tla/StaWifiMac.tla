----------------------------- MODULE StaWifiMac -----------------------------
(* A station with one link that looks for an access point, associates with   *)
(* it and watches for its beacons, and the association manager that scans    *)
(* for it.  Its timers are modelled by whether they run; an event scheduled  *)
(* for now runs before any later one.                                        *)
EXTENDS BasicServiceSet

CONSTANTS NoAp,         \* none of the access points
          MaxChanges    \* a bound: what the user does to the station

ASSUME StationAssumption == NoAp \notin Aps /\ MaxChanges \in Nat

VARIABLES
    m_state, bssid, m_aid,
    assocRequestEvent, beaconWatchdog,  \* whether they run
    disassociating,     \* is Disassociated scheduled for the end of the reception
    m_apList,           \* access points found
    scanEvent,          \* whether m_waitBeaconEvent or m_probeRequestEvent runs
    endScanning,        \* is EndScanning scheduled for now
    initialized,
    requests,           \* who the requests in the station's queue are for
    abort,              \* why the simulation has stopped
    changes             \* history, for MaxChanges

staVars == <<m_state, bssid, m_aid, assocRequestEvent, beaconWatchdog, disassociating, m_apList,
             scanEvent, endScanning, initialized, requests, abort, changes>>
scanVars == <<m_apList, scanEvent, endScanning>>

StaInit ==
    /\ m_state = "UNASSOCIATED" /\ bssid = NoAp /\ m_aid = 0
    /\ assocRequestEvent = FALSE /\ beaconWatchdog = FALSE /\ disassociating = FALSE
    /\ m_apList = {} /\ scanEvent = FALSE /\ endScanning = FALSE
    /\ initialized = FALSE /\ requests = <<>> /\ abort = "none" /\ changes = 0

\* The time is later than that of what is scheduled for now.
TimeGoesOn == abort = "none" /\ initialized /\ ~endScanning

-----------------------------------------------------------------------------
\* Mutant of StartScanning: a list of access points found waits for a scan to end.
StartScanningLater(running) ==
    /\ m_state' = "SCANNING"
    /\ endScanning' = FALSE
    /\ scanEvent' = (running \/ m_apList = {})

\* StartScanning, with what is left of scanEvent: access points found already
\* are used without scanning.
StartScanning(running) ==
    /\ m_state' = "SCANNING"
    /\ endScanning' = (m_apList # {})
    /\ scanEvent' = (running \/ m_apList = {})

\* Mutant of SendAssociationRequest: the timer is started for a request that enters the queue.
SendAssociationRequestIfRoom(ap) ==
    IF ap = NoAp
    THEN abort' = "no BSSID" /\ UNCHANGED <<assocRequestEvent, requests>>
    ELSE /\ requests' = Queued(requests, ap)
         /\ assocRequestEvent' = (Len(requests) < MaxQueued)
         /\ UNCHANGED abort

SendAssociationRequest(ap) ==
    IF ap = NoAp
    THEN abort' = "no BSSID" /\ UNCHANGED <<assocRequestEvent, requests>>
    ELSE /\ requests' = Queued(requests, ap)
         /\ assocRequestEvent' = TRUE
         /\ UNCHANGED abort

Initialize ==
    /\ ~initialized
    /\ initialized' = TRUE
    /\ StartScanning(scanEvent)
    /\ UNCHANGED <<bssid, m_aid, assocRequestEvent, beaconWatchdog, disassociating, m_apList,
                   requests, abort, changes>>

\* Enqueue before the station is initialized; in the other states in which it
\* is not associated TryToEnsureAssociated does nothing.
Enqueue ==
    /\ ~initialized /\ m_state = "UNASSOCIATED"
    /\ StartScanning(scanEvent)
    /\ UNCHANGED <<bssid, m_aid, assocRequestEvent, beaconWatchdog, disassociating, m_apList,
                   initialized, requests, abort, changes>>

\* NotifyApInfo: what is found counts while a scan runs.
Found(ap) ==
    /\ scanEvent
    /\ m_apList' = m_apList \cup {ap}
    /\ UNCHANGED <<m_state, bssid, m_aid, assocRequestEvent, beaconWatchdog, disassociating,
                   scanEvent, endScanning, initialized, requests, abort, changes>>

\* A beacon of ap, whose rates fit.
ReceiveBeacon(ap) ==
    /\ TimeGoesOn
    /\ IF m_state = "ASSOCIATED"
       THEN /\ bssid = ap
            /\ beaconWatchdog' = TRUE
            /\ UNCHANGED <<m_state, bssid, m_aid, assocRequestEvent, disassociating, scanVars,
                           initialized, requests, abort, changes>>
       ELSE /\ m_state = "WAIT_ASSOC_RESP" => bssid = ap
            /\ Found(ap)

ReceiveProbeResp(ap) == TimeGoesOn /\ Found(ap)

\* EndScanning and ScanningTimeout, when a scan ends or for an access point
\* found before; which of those found is the best, their SNR decides.
EndScanning ==
    /\ abort = "none" /\ initialized
    /\ endScanning \/ scanEvent
    /\ LET running == endScanning /\ scanEvent
       IN  IF m_apList = {}
           THEN /\ StartScanning(running)
                /\ UNCHANGED <<bssid, beaconWatchdog, assocRequestEvent, m_apList, requests, abort>>
           ELSE /\ endScanning' = FALSE /\ scanEvent' = running
                /\ \E bestAp \in m_apList :
                      /\ m_apList' = m_apList \ {bestAp}
                      /\ bssid' = bestAp
                      /\ SendAssociationRequest(bestAp)
                /\ beaconWatchdog' = TRUE
                /\ m_state' = "WAIT_ASSOC_RESP"
    /\ UNCHANGED <<m_aid, disassociating, initialized, changes>>

-----------------------------------------------------------------------------
AssocRequestTimeout ==
    /\ TimeGoesOn /\ assocRequestEvent
    /\ m_state' = "WAIT_ASSOC_RESP"
    /\ SendAssociationRequest(bssid)
    /\ UNCHANGED <<bssid, m_aid, beaconWatchdog, disassociating, scanVars, initialized, changes>>

\* A response of ap with the given status, and the AID if it is success.
ReceiveAssocResp(ap, success, aid) ==
    IF m_state # "WAIT_ASSOC_RESP"
    THEN UNCHANGED staVars
    ELSE /\ assocRequestEvent' = FALSE
         /\ IF success
            THEN /\ m_aid' = aid
                 /\ abort' = IF bssid = ap THEN "none" ELSE "other BSSID"
                 /\ m_state' = "ASSOCIATED"
                 /\ UNCHANGED <<scanEvent, endScanning>>
            ELSE StartScanning(scanEvent) /\ UNCHANGED <<m_aid, abort>>
         /\ UNCHANGED <<bssid, beaconWatchdog, disassociating, m_apList, initialized, requests, changes>>

\* While a frame is received what follows waits for its end.
MissedBeacons ==
    /\ TimeGoesOn /\ beaconWatchdog
    /\ beaconWatchdog' = FALSE
    /\ disassociating' = TRUE
    /\ UNCHANGED <<m_state, bssid, m_aid, assocRequestEvent, scanVars, initialized, requests,
                   abort, changes>>

\* The request timer goes on; the PHY switched off empties the queue.
LoseAssociation ==
    /\ bssid' = NoAp /\ m_aid' = 0 /\ requests' = <<>>
    /\ StartScanning(scanEvent)
    /\ UNCHANGED <<assocRequestEvent, beaconWatchdog, m_apList, initialized, abort>>

Disassociated ==
    /\ TimeGoesOn /\ disassociating
    /\ disassociating' = FALSE
    /\ LoseAssociation
    /\ UNCHANGED changes

-----------------------------------------------------------------------------
Change == TimeGoesOn /\ changes < MaxChanges /\ changes' = changes + 1

NotifyChannelSwitching ==
    /\ Change /\ m_state = "ASSOCIATED"
    /\ LoseAssociation
    /\ UNCHANGED disassociating

PhyCapabilitiesChanged ==
    /\ Change /\ m_state = "ASSOCIATED"
    /\ m_state' = "WAIT_ASSOC_RESP"
    /\ SendAssociationRequest(bssid)
    /\ UNCHANGED <<bssid, m_aid, beaconWatchdog, disassociating, scanVars, initialized>>

SetActiveProbing ==
    /\ Change /\ m_state = "SCANNING"
    /\ StartScanning(scanEvent)
    /\ UNCHANGED <<bssid, m_aid, assocRequestEvent, beaconWatchdog, disassociating, m_apList,
                   initialized, requests, abort>>

StaNext ==
    \/ Initialize \/ Enqueue \/ EndScanning
    \/ \E ap \in Aps : ReceiveBeacon(ap) \/ ReceiveProbeResp(ap)
    \/ AssocRequestTimeout \/ MissedBeacons \/ Disassociated
    \/ NotifyChannelSwitching \/ PhyCapabilitiesChanged \/ SetActiveProbing

-----------------------------------------------------------------------------
\* However timers, responses and the user's changes cross, in every state the
\* timer that ends it is running: the end of a scan, a repeated request, and
\* while an access point is trusted the watch for its beacons.
NeverStuck ==
    abort = "none" =>
        /\ m_state = "SCANNING" => scanEvent \/ endScanning
        /\ m_state = "WAIT_ASSOC_RESP" => assocRequestEvent
        /\ m_state \in {"WAIT_ASSOC_RESP", "ASSOCIATED"} => beaconWatchdog \/ disassociating

\* SendAssociationRequest aborts with "No BSSID set for the link on which the
\* (Re)Association Request is to be sent".
RequestHasBssid == abort # "no BSSID"

=============================================================================
