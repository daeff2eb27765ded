----------------------------- MODULE Association -----------------------------
(* A station and access points that hear each other with losses.  A          *)
(* management frame is sent until it is acknowledged or given up; if only    *)
(* its acknowledgments are lost it is given up after it was received.        *)
EXTENDS StaWifiMac, ApWifiMac

vars == <<staVars, apVars>>

AssociationInit == StaInit /\ ApInit

\* The station's queue sends its first request.
RequestReceived ==
    /\ TimeGoesOn /\ requests # <<>>
    /\ ReceiveAssocRequest(Head(requests))
    /\ requests' = Tail(requests)
    /\ UNCHANGED <<m_state, bssid, m_aid, assocRequestEvent, beaconWatchdog, disassociating,
                   scanVars, initialized, abort, changes>>

\* A request for whose response there is room in the queue.
RequestAnswered ==
    RequestReceived /\ \E ap \in Aps : Len(responses'[ap]) > Len(responses[ap])

\* A request is given up, or its lifetime ends in the station's queue.
RequestLost ==
    /\ TimeGoesOn /\ requests # <<>>
    /\ requests' = Tail(requests)
    /\ UNCHANGED <<m_state, bssid, m_aid, assocRequestEvent, beaconWatchdog, disassociating,
                   scanVars, initialized, abort, changes, apVars>>

\* The station hears the first response ap has queued; its Ack gets through, or
\* ap goes on sending until it gives up or the response is too old.
Hear(ap) ==
    LET response == Head(responses[ap])
    IN  /\ TimeGoesOn /\ responses[ap] # <<>>
        /\ ReceiveAssocResp(ap, response.success, response.aid)

ResponseAcked(ap) == Hear(ap) /\ TxOk(ap)
ResponseUnacked(ap) == Hear(ap) /\ TxFailed(ap)
ResponseLost(ap) ==
    /\ TimeGoesOn /\ responses[ap] # <<>>
    /\ TxFailed(ap)
    /\ UNCHANGED staVars

AssociationNext ==
    \/ StaNext /\ UNCHANGED apVars
    \/ RequestReceived \/ RequestLost
    \/ \E ap \in Aps : ResponseAcked(ap) \/ ResponseUnacked(ap) \/ ResponseLost(ap)

Spec == AssociationInit /\ [][AssociationNext]_vars

\* The station is initialized and its timers end; what is sent again and again
\* gets through at some time: requests, whose responses find room in the queue,
\* the responses that are waited for, and beacons while a scan runs.
FairSpec ==
    /\ Spec
    /\ WF_vars(Initialize /\ UNCHANGED apVars)
    /\ WF_vars(EndScanning /\ UNCHANGED apVars)
    /\ WF_vars(AssocRequestTimeout /\ UNCHANGED apVars)
    /\ SF_vars(\E ap \in Aps : ReceiveBeacon(ap) /\ m_state # "ASSOCIATED" /\ UNCHANGED apVars)
    /\ SF_vars(RequestAnswered)
    /\ SF_vars(\E ap \in Aps : ResponseAcked(ap) /\ m_state = "WAIT_ASSOC_RESP")

-----------------------------------------------------------------------------
\* An associated station has the AID under which the access point it watches
\* knows it, whatever responses of that and of others were on their way.
AidIsOfBssid ==
    m_state = "ASSOCIATED" /\ abort = "none" => bssid # NoAp /\ m_aid = staList[bssid]

\* When the access point of an associated station has no response left to send,
\* it has recorded the association; or has undone it, since a response failed that
\* it had when it got the last request or queued then, be it one the station has
\* heard; or the queue has dropped its last response and it waits for its fate.
BothEndsAgree ==
    m_state = "ASSOCIATED" /\ abort = "none" /\ bssid # NoAp /\ responses[bssid] = <<>> =>
        \/ stationState[bssid] = "GOT_ASSOC_TX_OK"
        \/ stationState[bssid] = "DISASSOC" /\ lost[bssid] = "failed"
        \/ stationState[bssid] = "WAIT_ASSOC_TX_OK" /\ lost[bssid] = "dropped"

\* A station that no access point refuses associates, whatever is lost on the
\* way: otherwise it misses the beacons of those it waits for again and again,
\* or stops.
EventuallyAssociated ==
    []<>(m_state = "ASSOCIATED" \/ disassociating \/ abort # "none" \/ refusing # {})

=============================================================================
