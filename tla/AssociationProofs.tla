-------------------------- MODULE AssociationProofs --------------------------
(* Theorems about the association of a station, for any number of access     *)
(* points, any length of the queues and any loss: the station always has a   *)
(* timer that goes on, and the two ends agree about the AID and the record.  *)
EXTENDS Association, SequenceTheorems, WellFoundedInduction, TLAPS

Response == [success : BOOLEAN, aid : Nat]
Record == {"BRAND_NEW", "WAIT_ASSOC_TX_OK", "GOT_ASSOC_TX_OK", "DISASSOC"}
Fate == {"none", "dropped", "failed"}

StaTypeInv == requests \in Seq(Aps) /\ m_apList \subseteq Aps /\ bssid \in Aps \cup {NoAp}

ApTypeInv ==
    /\ staList \in [Aps -> Nat] /\ stationState \in [Aps -> Record] /\ lost \in [Aps -> Fate]
    /\ responses \in [Aps -> Seq(Response)]
    /\ \A ap \in Aps : Len(responses[ap]) <= MaxQueued

\* Whoever the station asks or trusts is watched, and there is one.
Watched ==
    /\ bssid # NoAp => beaconWatchdog \/ disassociating
    /\ abort = "none" /\ m_state \in {"WAIT_ASSOC_RESP", "ASSOCIATED"} => bssid # NoAp

\* A success on its way is about the AID that is recorded.
ResponsesTrue ==
    \A ap \in Aps : \A i \in 1 .. Len(responses[ap]) :
        responses[ap][i].success => staList[ap] # 0 /\ responses[ap][i].aid = staList[ap]

\* What an access point has recorded of a station with an AID.
Established(ap) ==
    /\ ap \notin refusing
    /\ \/ stationState[ap] = "GOT_ASSOC_TX_OK"
       \/ stationState[ap] = "DISASSOC" /\ lost[ap] = "failed"
       \/ /\ stationState[ap] = "WAIT_ASSOC_TX_OK" /\ lost[ap] # "failed"
          /\ responses[ap] # <<>> \/ lost[ap] = "dropped"

RecordsTrue == \A ap \in Aps : staList[ap] # 0 => Established(ap)

AssociatedKnown ==
    m_state = "ASSOCIATED" /\ abort = "none" =>
        bssid \in Aps /\ m_aid = staList[bssid] /\ staList[bssid] # 0

StaInv == StaTypeInv /\ Watched /\ NeverStuck
ApInv == ApTypeInv /\ ResponsesTrue /\ RecordsTrue
IInv == StaInv /\ ApInv /\ AssociatedKnown

-----------------------------------------------------------------------------
LEMMA MinIsMember ==
    ASSUME NEW S \in SUBSET Nat, S # {}
    PROVE  Min(S) \in S
  <1>1. PICK R : IsWellFoundedOn(R, Nat) /\ \A x, y \in Nat : y < x => <<y, x>> \in R
    BY NatLessThanWellFounded DEF OpToRel
  <1>2. PICK x \in S : \A y \in S : ~ (<<y, x>> \in R)
    BY <1>1, WFMin
  <1>3. ASSUME NEW y \in S PROVE x <= y
    <2>1. x \in Nat /\ y \in Nat /\ ~ (y < x)
      BY <1>1, <1>2
    <2> QED
      BY <2>1
  <1> QED
    BY <1>3 DEF Min

\* A free AID is found, and it is not 0.
LEMMA AidType == ASSUME ApTypeInv, NEW ap \in Aps PROVE Aid(ap) \in Nat \ {0}
  <1> DEFINE free == (1 .. MaxAid) \ OtherAids[ap]
  <1>1. free # {} /\ free \in SUBSET Nat /\ \A n \in free : n \in Nat \ {0}
    BY AidAssumption DEF AidAssumption
  <1> HIDE DEF free
  <1>2. Min(free) \in free
    BY <1>1, MinIsMember
  <1> QED
    BY <1>1, <1>2 DEF Aid, GetNextAssociationId, ApTypeInv, free

LEMMA AppendGives ==
    ASSUME NEW S, NEW q \in Seq(S), NEW frame \in S
    PROVE  /\ Append(q, frame) \in Seq(S) /\ Append(q, frame) # <<>>
           /\ Len(Append(q, frame)) = Len(q) + 1
           /\ \A i \in 1 .. Len(q) + 1 :
                 \/ i \in 1 .. Len(q) /\ Append(q, frame)[i] = q[i]
                 \/ Append(q, frame)[i] = frame
  <1>1. Len(q) \in Nat
    BY LenProperties
  <1>2. \A i \in 1 .. Len(q) + 1 : i \in 1 .. Len(q) \/ i = Len(q) + 1
    BY <1>1
  <1> QED
    BY <1>2, AppendProperties

\* What is in the queue was there before or is the new response; the state is
\* undone if and only if a response is recorded to have failed.
LEMMA SendAssocRespGives ==
    ASSUME ApTypeInv, NEW ap \in Aps, NEW state \in Record, NEW response \in Response,
           SendAssocResp(ap, state, response)
    PROVE  \E new \in Seq(Response), record \in Record, fate \in Fate :
              /\ responses' = [responses EXCEPT ![ap] = new]
              /\ stationState' = [stationState EXCEPT ![ap] = record]
              /\ lost' = [lost EXCEPT ![ap] = fate]
              /\ Len(new) <= MaxQueued
              /\ \A i \in 1 .. Len(new) :
                    \/ new[i] = response
                    \/ \E k \in 1 .. Len(responses[ap]) : new[i] = responses[ap][k]
              /\ \/ record = state /\ fate # "failed" /\ (new # <<>> \/ fate = "dropped")
                 \/ record = AfterTxFailed(state) /\ fate = "failed"
  <1> DEFINE q == responses[ap]
  <1>1. q \in Seq(Response) /\ Len(q) \in Nat /\ MaxQueued \in Nat /\ Len(q) <= MaxQueued
    BY LenProperties, QueueAssumption DEF QueueAssumption, ApTypeInv
  <1>2. AfterTxFailed(state) \in Record
    BY DEF AfterTxFailed, Record
  <1>3. CASE /\ Len(q) < MaxQueued
             /\ stationState' = [stationState EXCEPT ![ap] = state]
             /\ responses' = [responses EXCEPT ![ap] = Append(q, response)]
             /\ lost' = [lost EXCEPT ![ap] = "none"]
    <2> DEFINE new == Append(q, response)
    <2>1. /\ new \in Seq(Response) /\ new # <<>> /\ Len(new) = Len(q) + 1
          /\ \A i \in 1 .. Len(new) : new[i] = response \/ \E k \in 1 .. Len(q) : new[i] = q[k]
      BY <1>1, AppendGives
    <2>2. Len(new) <= MaxQueued
      BY <1>1, <1>3, <2>1
    <2> HIDE DEF new
    <2>3. responses' = [responses EXCEPT ![ap] = new]
      BY <1>3 DEF new
    <2> QED
      BY <1>3, <2>1, <2>2, <2>3 DEF Fate
  <1>4. ASSUME NEW stale \in 1 .. Len(q),
               stationState' = [stationState EXCEPT ![ap] = AfterTxFailed(state)],
               responses' = [responses EXCEPT ![ap] =
                                Append(SubSeq(q, stale + 1, Len(q)), response)],
               lost' = [lost EXCEPT ![ap] = "failed"]
        PROVE  \E new \in Seq(Response) :
                  /\ responses' = [responses EXCEPT ![ap] = new] /\ Len(new) <= MaxQueued
                  /\ \A i \in 1 .. Len(new) :
                        new[i] = response \/ \E k \in 1 .. Len(q) : new[i] = q[k]
    <2> DEFINE rest == SubSeq(q, stale + 1, Len(q))
               new == Append(rest, response)
    <2>1. \A i \in stale + 1 .. Len(q) : q[i] \in Response
      BY <1>1, ElementOfSeq
    <2>2. /\ rest \in Seq(Response) /\ Len(rest) = Len(q) - stale
          /\ \A i \in 1 .. Len(q) - stale : rest[i] = q[i + stale]
      <3>1. /\ rest \in Seq(Response)
            /\ Len(rest) = IF stale + 1 <= Len(q) THEN Len(q) - (stale + 1) + 1 ELSE 0
            /\ \A i \in 1 .. Len(q) - (stale + 1) + 1 : rest[i] = q[(stale + 1) + i - 1]
        BY <1>1, <2>1, SubSeqProperties
      <3> QED
        BY <1>1, <3>1
    <2> HIDE DEF rest
    <2>3. /\ new \in Seq(Response) /\ Len(new) = Len(rest) + 1
          /\ \A i \in 1 .. Len(rest) + 1 :
                \/ i \in 1 .. Len(rest) /\ new[i] = rest[i]
                \/ new[i] = response
      BY <2>2, AppendGives
    <2> HIDE DEF new
    <2>4. Len(new) <= MaxQueued
      BY <1>1, <2>2, <2>3
    <2>5. ASSUME NEW i \in 1 .. Len(new), new[i] # response
          PROVE  \E k \in 1 .. Len(q) : new[i] = q[k]
      <3>1. i \in 1 .. Len(q) - stale /\ new[i] = q[i + stale]
        BY <2>2, <2>3, <2>5
      <3>2. i + stale \in 1 .. Len(q)
        BY <1>1, <3>1
      <3> QED
        BY <3>1, <3>2
    <2>6. responses' = [responses EXCEPT ![ap] = new]
      BY <1>4 DEF new, rest
    <2> QED
      BY <2>3, <2>4, <2>5, <2>6
  <1>5. CASE \E stale \in 1 .. Len(q) :
                /\ stationState' = [stationState EXCEPT ![ap] = AfterTxFailed(state)]
                /\ responses' = [responses EXCEPT ![ap] =
                                     Append(SubSeq(q, stale + 1, Len(q)), response)]
                /\ lost' = [lost EXCEPT ![ap] = "failed"]
    BY <1>2, <1>4, <1>5 DEF Fate
  <1>6. CASE /\ stationState' = [stationState EXCEPT ![ap] = state]
             /\ lost' = [lost EXCEPT ![ap] = "dropped"]
             /\ UNCHANGED responses
    <2>1. responses' = [responses EXCEPT ![ap] = q]
      BY <1>6 DEF ApTypeInv
    <2> QED
      BY <1>1, <1>6, <2>1 DEF Fate
  <1> QED
    BY <1>3, <1>5, <1>6 DEF SendAssocResp

-----------------------------------------------------------------------------
LEMMA InitInv == AssociationInit => IInv
  <1> SUFFICES ASSUME AssociationInit PROVE IInv
    OBVIOUS
  <1>1. <<>> \in Seq(Aps) /\ <<>> \in Seq(Response) /\ Len(<<>>) = 0
    BY EmptySeq
  <1>2. StaInv /\ AssociatedKnown
    BY <1>1 DEF AssociationInit, StaInit, StaInv, StaTypeInv, Watched, NeverStuck, AssociatedKnown
  <1>3. ApTypeInv
    BY <1>1, QueueAssumption
       DEF QueueAssumption, AssociationInit, ApInit, ApTypeInv, Record, Fate
  <1>4. ResponsesTrue /\ RecordsTrue
    BY <1>1 DEF AssociationInit, ApInit, ResponsesTrue, RecordsTrue
  <1> QED
    BY <1>2, <1>3, <1>4 DEF IInv, ApInv

-----------------------------------------------------------------------------
\* StartScanning leaves the scan or its end to come.
LEMMA ScanningStarts ==
    ASSUME NEW running, StartScanning(running)
    PROVE  m_state' = "SCANNING" /\ (scanEvent' \/ endScanning')
  BY DEF StartScanning

LEMMA RequestsType ==
    ASSUME StaTypeInv, NEW ap \in Aps
    PROVE  Queued(requests, ap) \in Seq(Aps)
  BY AppendProperties DEF StaTypeInv, Queued

\* A step back to scanning that keeps the access point, or forgets it.
LEMMA ScanStep ==
    ASSUME StaInv, NEW running, StartScanning(running), m_apList' = m_apList,
           requests' \in Seq(Aps), bssid' \in {bssid, NoAp}, beaconWatchdog' = beaconWatchdog,
           disassociating' = disassociating \/ bssid' = NoAp
    PROVE  StaInv'
  <1>1. m_state' = "SCANNING" /\ (scanEvent' \/ endScanning')
    BY ScanningStarts
  <1> QED
    BY <1>1 DEF StaInv, StaTypeInv, Watched, NeverStuck

\* A request to the access point the station has chosen, or asks again.
LEMMA RequestStep ==
    ASSUME StaInv, SendAssociationRequest(bssid'), bssid' \in Aps \cup {NoAp},
           m_apList' \subseteq m_apList, m_state' = "WAIT_ASSOC_RESP",
           beaconWatchdog' \/ disassociating' \/ bssid' = NoAp
    PROVE  StaInv'
  <1>1. CASE bssid' = NoAp
    BY <1>1 DEF SendAssociationRequest, StaInv, StaTypeInv, Watched, NeverStuck
  <1>2. CASE bssid' # NoAp
    <2>1. bssid' \in Aps /\ requests' = Queued(requests, bssid') /\ assocRequestEvent' = TRUE
      BY <1>2 DEF SendAssociationRequest
    <2>2. requests' \in Seq(Aps)
      BY <2>1, RequestsType DEF StaInv
    <2> QED
      BY <1>2, <2>1, <2>2 DEF StaInv, StaTypeInv, Watched, NeverStuck
  <1> QED
    BY <1>1, <1>2

LEMMA EndScanningStep ==
    ASSUME StaInv, EndScanning
    PROVE  StaInv'
  <1> DEFINE running == endScanning /\ scanEvent
  <1>1. CASE m_apList = {}
    <2>1. StartScanning(running) /\ UNCHANGED <<bssid, beaconWatchdog, m_apList, requests, disassociating>>
      BY <1>1 DEF EndScanning
    <2> HIDE DEF running
    <2> QED
      BY <2>1, ScanStep DEF StaInv, StaTypeInv
  <1>2. CASE m_apList # {}
    <2>1. PICK bestAp \in m_apList : /\ m_apList' = m_apList \ {bestAp} /\ bssid' = bestAp
                                     /\ SendAssociationRequest(bestAp)
      BY <1>2 DEF EndScanning
    <2>2. beaconWatchdog' = TRUE /\ m_state' = "WAIT_ASSOC_RESP"
      BY <1>2 DEF EndScanning
    <2> QED
      BY <2>1, <2>2, RequestStep DEF StaInv, StaTypeInv
  <1> QED
    BY <1>1, <1>2

LEMMA LoseAssociationStep ==
    ASSUME StaInv, LoseAssociation
    PROVE  StaInv'
  <1>1. /\ m_state' = "SCANNING" /\ (scanEvent' \/ endScanning')
        /\ bssid' = NoAp /\ requests' = <<>> /\ m_apList' = m_apList
    BY ScanningStarts DEF LoseAssociation
  <1>2. <<>> \in Seq(Aps)
    BY EmptySeq
  <1> QED
    BY <1>1, <1>2 DEF StaInv, StaTypeInv, Watched, NeverStuck

LEMMA StaStep ==
    ASSUME StaInv, StaNext
    PROVE  StaInv'
  <1>1. CASE Initialize
    BY <1>1, ScanStep DEF Initialize, StaInv, StaTypeInv
  <1>2. CASE Enqueue
    BY <1>2, ScanStep DEF Enqueue, StaInv, StaTypeInv
  <1>3. CASE EndScanning
    BY <1>3, EndScanningStep
  <1>4. ASSUME NEW ap \in Aps, ReceiveBeacon(ap) \/ ReceiveProbeResp(ap)
        PROVE  StaInv'
    BY <1>4 DEF ReceiveBeacon, ReceiveProbeResp, Found, scanVars, StaInv, StaTypeInv, Watched,
                NeverStuck
  <1>5. CASE AssocRequestTimeout
    <2>1. /\ m_state' = "WAIT_ASSOC_RESP" /\ SendAssociationRequest(bssid)
          /\ UNCHANGED <<bssid, beaconWatchdog, disassociating, m_apList>>
      BY <1>5 DEF AssocRequestTimeout, scanVars
    <2> QED
      BY <2>1, RequestStep DEF StaInv, StaTypeInv, Watched
  <1>6. CASE MissedBeacons
    BY <1>6 DEF MissedBeacons, scanVars, StaInv, StaTypeInv, Watched, NeverStuck
  <1>7. CASE Disassociated \/ NotifyChannelSwitching
    BY <1>7, LoseAssociationStep DEF Disassociated, NotifyChannelSwitching
  <1>8. CASE PhyCapabilitiesChanged
    <2>1. /\ m_state' = "WAIT_ASSOC_RESP" /\ SendAssociationRequest(bssid)
          /\ UNCHANGED <<bssid, beaconWatchdog, disassociating, m_apList>>
      BY <1>8 DEF PhyCapabilitiesChanged, scanVars
    <2> QED
      BY <2>1, RequestStep DEF StaInv, StaTypeInv, Watched
  <1>9. CASE SetActiveProbing
    BY <1>9, ScanStep DEF SetActiveProbing, StaInv, StaTypeInv
  <1> QED
    BY <1>1, <1>2, <1>3, <1>4, <1>5, <1>6, <1>7, <1>8, <1>9 DEF StaNext

\* By itself the station does not become associated.
LEMMA StaStepAssociates ==
    ASSUME StaNext, m_state' = "ASSOCIATED", abort' = "none"
    PROVE  m_state = "ASSOCIATED" /\ abort = "none" /\ bssid' = bssid /\ m_aid' = m_aid
  BY DEF StaNext, Initialize, Enqueue, EndScanning, ReceiveBeacon, ReceiveProbeResp, Found,
         AssocRequestTimeout, MissedBeacons, Disassociated, NotifyChannelSwitching,
         LoseAssociation, PhyCapabilitiesChanged, SetActiveProbing, StartScanning, scanVars

-----------------------------------------------------------------------------
LEMMA RequestReceivedStep ==
    ASSUME ApInv, NEW ap \in Aps, ReceiveAssocRequest(ap)
    PROVE  /\ ApInv'
           /\ \A other \in Aps : staList[other] # 0 => staList'[other] = staList[other]
  <1> DEFINE response == IF ap \in refusing THEN [success |-> FALSE, aid |-> 0]
                                            ELSE [success |-> TRUE, aid |-> Aid(ap)]
             aid == IF ap \in refusing THEN staList[ap] ELSE Aid(ap)
             state == IF ap \in refusing THEN "DISASSOC" ELSE "WAIT_ASSOC_TX_OK"
  <1>1. ApTypeInv /\ ResponsesTrue /\ RecordsTrue
    BY DEF ApInv
  <1>2. response \in Response /\ aid \in Nat /\ state \in Record
    BY <1>1, AidType DEF Response, Record, ApTypeInv
  <1>3. /\ SendAssocResp(ap, state, response)
        /\ staList' = [staList EXCEPT ![ap] = aid] /\ refusing' = refusing
    <2>1. CASE ap \in refusing
      BY <2>1, <1>1 DEF ReceiveAssocRequest, ApTypeInv
    <2>2. CASE ap \notin refusing
      BY <2>2 DEF ReceiveAssocRequest, RecordWaitAssocTxOk
    <2> QED
      BY <2>1, <2>2
  <1>5. /\ staList[ap] # 0 => aid = staList[ap]
        /\ response.success => aid # 0 /\ response.aid = aid
        /\ aid # 0 => ap \notin refusing /\ state = "WAIT_ASSOC_TX_OK"
    <2>1. staList[ap] # 0 => ap \notin refusing
      BY <1>1 DEF RecordsTrue, Established
    <2> QED
      BY <1>1, <2>1, AidType DEF Aid
  <1> HIDE DEF response, aid, state
  <1>4. PICK new \in Seq(Response), record \in Record, fate \in Fate :
           /\ responses' = [responses EXCEPT ![ap] = new]
           /\ stationState' = [stationState EXCEPT ![ap] = record]
           /\ lost' = [lost EXCEPT ![ap] = fate]
           /\ Len(new) <= MaxQueued
           /\ \A i \in 1 .. Len(new) :
                 \/ new[i] = response
                 \/ \E k \in 1 .. Len(responses[ap]) : new[i] = responses[ap][k]
           /\ \/ record = state /\ fate # "failed" /\ (new # <<>> \/ fate = "dropped")
              \/ record = AfterTxFailed(state) /\ fate = "failed"
    BY <1>1, <1>2, <1>3, SendAssocRespGives
  <1>6. ApTypeInv'
    BY <1>1, <1>2, <1>3, <1>4 DEF ApTypeInv
  <1>7. ASSUME NEW other \in Aps
        PROVE  staList[other] # 0 => staList'[other] = staList[other]
    BY <1>1, <1>3, <1>5 DEF ApTypeInv
  <1>8. ResponsesTrue'
    <2> SUFFICES ASSUME NEW other \in Aps, NEW i \in 1 .. Len(responses'[other]),
                        responses'[other][i].success
                 PROVE  staList'[other] # 0 /\ responses'[other][i].aid = staList'[other]
      BY DEF ResponsesTrue
    <2>1. CASE other # ap
      BY <2>1, <1>1, <1>3, <1>4 DEF ApTypeInv, ResponsesTrue
    <2>2. CASE other = ap
      <3>1. responses'[ap] = new /\ staList'[ap] = aid
        BY <1>1, <1>3, <1>4 DEF ApTypeInv
      <3>2. CASE new[i] = response
        BY <2>2, <3>1, <3>2, <1>5
      <3>3. ASSUME NEW k \in 1 .. Len(responses[ap]), new[i] = responses[ap][k]
            PROVE  staList'[other] # 0 /\ responses'[other][i].aid = staList'[other]
        <4>1. staList[ap] # 0 /\ responses[ap][k].aid = staList[ap]
          BY <2>2, <3>1, <3>3, <1>1 DEF ResponsesTrue
        <4> QED
          BY <2>2, <3>1, <3>3, <4>1, <1>5
      <3> QED
        BY <2>2, <3>1, <3>2, <3>3, <1>4
    <2> QED
      BY <2>1, <2>2
  <1>9. RecordsTrue'
    <2> SUFFICES ASSUME NEW other \in Aps, staList'[other] # 0
                 PROVE  Established(other)'
      BY DEF RecordsTrue
    <2>1. CASE other # ap
      BY <2>1, <1>1, <1>3, <1>4 DEF ApTypeInv, RecordsTrue, Established
    <2>2. CASE other = ap
      <3>1. /\ responses'[ap] = new /\ staList'[ap] = aid
            /\ stationState'[ap] = record /\ lost'[ap] = fate
        BY <1>1, <1>3, <1>4 DEF ApTypeInv
      <3>2. ap \notin refusing' /\ state = "WAIT_ASSOC_TX_OK"
        BY <2>2, <3>1, <1>3, <1>5
      <3> QED
        BY <2>2, <3>1, <3>2, <1>4 DEF Established, AfterTxFailed
    <2> QED
      BY <2>1, <2>2
  <1> QED
    BY <1>6, <1>7, <1>8, <1>9 DEF ApInv

\* A response leaves the queue: acknowledged, given up or too old.
LEMMA ResponseLeavesStep ==
    ASSUME ApInv, NEW ap \in Aps, responses[ap] # <<>>, TxOk(ap) \/ TxFailed(ap)
    PROVE  ApInv' /\ staList' = staList
  <1> DEFINE rest == Tail(responses[ap])
  <1>1. ApTypeInv /\ ResponsesTrue /\ RecordsTrue
    BY DEF ApInv
  <1>2. /\ rest \in Seq(Response) /\ Len(rest) = Len(responses[ap]) - 1
        /\ \A i \in 1 .. Len(rest) : rest[i] = responses[ap][i + 1]
    <2>1. responses[ap] \in Seq(Response)
      BY <1>1 DEF ApTypeInv
    <2> QED
      BY <2>1, HeadTailProperties
  <1>3. /\ responses' = [responses EXCEPT ![ap] = rest]
        /\ UNCHANGED <<staList, refusing>>
        /\ \E state \in Record : stationState' = [stationState EXCEPT ![ap] = state]
        /\ \E fate \in Fate : lost' = [lost EXCEPT ![ap] = fate]
    <2>1. lost = [lost EXCEPT ![ap] = lost[ap]]
      BY <1>1 DEF ApTypeInv
    <2>2. AfterTxOk(stationState[ap]) \in Record /\ AfterTxFailed(stationState[ap]) \in Record
      BY <1>1 DEF ApTypeInv, AfterTxOk, AfterTxFailed, Record
    <2>3. CASE TxOk(ap)
      BY <1>1, <2>1, <2>2, <2>3 DEF TxOk, ApTypeInv
    <2>4. CASE TxFailed(ap)
      BY <2>2, <2>4 DEF TxFailed, Fate
    <2> QED
      BY <2>3, <2>4
  <1> HIDE DEF rest
  <1>5. Len(responses[ap]) \in Nat /\ MaxQueued \in Nat /\ Len(responses[ap]) <= MaxQueued
    BY <1>1, LenProperties, QueueAssumption DEF QueueAssumption, ApTypeInv
  <1>6. ApTypeInv'
    BY <1>1, <1>2, <1>3, <1>5 DEF ApTypeInv
  <1>7. ResponsesTrue'
    <2> SUFFICES ASSUME NEW other \in Aps, NEW i \in 1 .. Len(responses'[other]),
                        responses'[other][i].success
                 PROVE  staList'[other] # 0 /\ responses'[other][i].aid = staList'[other]
      BY DEF ResponsesTrue
    <2>1. CASE other # ap
      BY <2>1, <1>1, <1>3 DEF ApTypeInv, ResponsesTrue
    <2>2. CASE other = ap
      <3>1. responses'[ap] = rest
        BY <1>1, <1>3 DEF ApTypeInv
      <3>2. i \in 1 .. Len(rest) /\ i + 1 \in 1 .. Len(responses[ap])
        BY <2>2, <3>1, <1>2, <1>5
      <3>3. responses'[ap][i] = responses[ap][i + 1]
        BY <3>1, <3>2, <1>2
      <3> QED
        BY <2>2, <3>2, <3>3, <1>1, <1>3 DEF ResponsesTrue
    <2> QED
      BY <2>1, <2>2
  <1>8. RecordsTrue'
    <2> SUFFICES ASSUME NEW other \in Aps, staList[other] # 0
                 PROVE  Established(other)'
      BY <1>3 DEF RecordsTrue
    <2>1. Established(other)
      BY <1>1 DEF RecordsTrue
    <2>2. CASE other # ap
      BY <2>1, <2>2, <1>1, <1>3 DEF ApTypeInv, Established
    <2>3. CASE other = ap /\ TxOk(ap)
      <3>1. lost' = lost /\ stationState'[ap] = AfterTxOk(stationState[ap]) /\ refusing' = refusing
        BY <1>1, <2>3 DEF TxOk, ApTypeInv
      <3> QED
        BY <2>1, <2>3, <3>1 DEF AfterTxOk, Established
    <2>4. CASE other = ap /\ TxFailed(ap)
      <3>1. /\ lost'[ap] = "failed" /\ stationState'[ap] = AfterTxFailed(stationState[ap])
            /\ refusing' = refusing
        BY <1>1, <2>4 DEF TxFailed, ApTypeInv
      <3> QED
        BY <2>1, <2>4, <3>1 DEF AfterTxFailed, Established
    <2> QED
      BY <2>2, <2>3, <2>4
  <1> QED
    BY <1>3, <1>6, <1>7, <1>8 DEF ApInv

-----------------------------------------------------------------------------
\* The station takes the AID of a response that is true.
LEMMA HearStep ==
    ASSUME IInv, NEW ap \in Aps, Hear(ap)
    PROVE  /\ StaInv'
           /\ m_state' = "ASSOCIATED" /\ abort' = "none" =>
                 bssid' \in Aps /\ m_aid' = staList[bssid'] /\ staList[bssid'] # 0
  <1> DEFINE response == Head(responses[ap])
  <1>1. StaInv /\ ApInv /\ AssociatedKnown /\ abort = "none"
    BY DEF IInv, Hear, TimeGoesOn
  <1>2. ReceiveAssocResp(ap, response.success, response.aid)
    BY DEF Hear
  <1>3. response.success => staList[ap] # 0 /\ response.aid = staList[ap]
    <2>1. responses[ap] \in Seq(Response) /\ responses[ap] # <<>>
      BY <1>1 DEF Hear, ApInv, ApTypeInv
    <2>2. 1 \in 1 .. Len(responses[ap]) /\ responses[ap][1] = response
      BY <2>1, EmptySeq
    <2> QED
      BY <1>1, <2>2 DEF ApInv, ResponsesTrue
  <1> HIDE DEF response
  <1>4. CASE m_state # "WAIT_ASSOC_RESP"
    BY <1>1, <1>2, <1>4
       DEF ReceiveAssocResp, staVars, AssociatedKnown, StaInv, StaTypeInv, Watched, NeverStuck
  <1>5. CASE m_state = "WAIT_ASSOC_RESP" /\ response.success
    <2>1. /\ m_state' = "ASSOCIATED" /\ m_aid' = response.aid
          /\ abort' = IF bssid = ap THEN "none" ELSE "other BSSID"
          /\ UNCHANGED <<bssid, beaconWatchdog, disassociating, m_apList, requests>>
      BY <1>2, <1>5 DEF ReceiveAssocResp
    <2> QED
      BY <2>1, <1>1, <1>3, <1>5 DEF StaInv, StaTypeInv, Watched, NeverStuck
  <1>6. CASE m_state = "WAIT_ASSOC_RESP" /\ ~response.success
    <2>1. /\ StartScanning(scanEvent)
          /\ UNCHANGED <<bssid, beaconWatchdog, disassociating, m_apList, requests>>
      BY <1>2, <1>6 DEF ReceiveAssocResp
    <2>2. m_state' = "SCANNING"
      BY <2>1, ScanningStarts
    <2> QED
      BY <2>1, <2>2, <1>1, ScanStep DEF StaInv, StaTypeInv
  <1> QED
    BY <1>4, <1>5, <1>6

\* A request leaves the station's queue; nothing else of the station changes.
LEMMA RequestLeaves ==
    ASSUME StaInv, requests # <<>>, requests' = Tail(requests),
           UNCHANGED <<m_state, bssid, m_aid, assocRequestEvent, beaconWatchdog, disassociating,
                       scanVars, initialized, abort, changes>>
    PROVE  StaInv' /\ Head(requests) \in Aps
  <1>1. Head(requests) \in Aps /\ Tail(requests) \in Seq(Aps)
    BY HeadTailProperties DEF StaInv, StaTypeInv
  <1> QED
    BY <1>1 DEF scanVars, StaInv, StaTypeInv, Watched, NeverStuck

LEMMA QuietAp == ApInv /\ UNCHANGED apVars => ApInv'
  BY DEF apVars, ApInv, ApTypeInv, ResponsesTrue, RecordsTrue, Established

LEMMA NextInv == IInv /\ [AssociationNext]_vars => IInv'
  <1> SUFFICES ASSUME IInv, [AssociationNext]_vars PROVE IInv'
    OBVIOUS
  <1>1. CASE UNCHANGED vars
    BY <1>1, QuietAp DEF vars, staVars, IInv, StaInv, StaTypeInv, Watched, NeverStuck,
                         AssociatedKnown, apVars
  <1>2. CASE StaNext /\ UNCHANGED apVars
    <2>1. staList' = staList /\ StaInv' /\ ApInv'
      BY <1>2, StaStep, QuietAp DEF IInv, apVars
    <2> QED
      BY <1>2, <2>1, StaStepAssociates DEF IInv, AssociatedKnown
  <1>3. CASE RequestReceived
    <2>1. StaInv' /\ Head(requests) \in Aps
      BY <1>3, RequestLeaves DEF IInv, RequestReceived
    <2>2. ApInv' /\ \A other \in Aps : staList[other] # 0 => staList'[other] = staList[other]
      BY <1>3, <2>1, RequestReceivedStep DEF IInv, RequestReceived
    <2> QED
      BY <1>3, <2>1, <2>2 DEF RequestReceived, IInv, AssociatedKnown
  <1>4. CASE RequestLost
    <2>1. StaInv'
      BY <1>4, RequestLeaves DEF IInv, RequestLost
    <2> QED
      BY <1>4, <2>1, QuietAp DEF RequestLost, apVars, IInv, AssociatedKnown
  <1>5. ASSUME NEW ap \in Aps, ResponseAcked(ap) \/ ResponseUnacked(ap)
        PROVE  IInv'
    <2>1. Hear(ap) /\ (TxOk(ap) \/ TxFailed(ap)) /\ responses[ap] # <<>>
      BY <1>5 DEF ResponseAcked, ResponseUnacked, Hear
    <2>2. ApInv' /\ staList' = staList
      BY <2>1, ResponseLeavesStep DEF IInv
    <2> QED
      BY <2>1, <2>2, HearStep DEF IInv, AssociatedKnown
  <1>6. ASSUME NEW ap \in Aps, ResponseLost(ap)
        PROVE  IInv'
    <2>1. ApInv' /\ staList' = staList
      BY <1>6, ResponseLeavesStep DEF ResponseLost, IInv
    <2> QED
      BY <1>6, <2>1 DEF ResponseLost, staVars, IInv, StaInv, StaTypeInv, Watched, NeverStuck,
                        AssociatedKnown
  <1> QED
    BY <1>1, <1>2, <1>3, <1>4, <1>5, <1>6 DEF AssociationNext

LEMMA Inductive == Spec => []IInv
  BY InitInv, NextInv, PTL DEF Spec

\* In every state of the station the timer that ends it runs.
THEOREM TimersRun == Spec => []NeverStuck
  <1>1. IInv => NeverStuck
    BY DEF IInv, StaInv
  <1> QED
    BY <1>1, Inductive, PTL

\* An associated station has the AID its access point has for it.
THEOREM AidAgrees == Spec => []AidIsOfBssid
  <1>1. IInv => AidIsOfBssid
    BY StationAssumption DEF StationAssumption, IInv, AssociatedKnown, AidIsOfBssid
  <1> QED
    BY <1>1, Inductive, PTL

\* When the access point of an associated station has no response left to send,
\* it has recorded the association, has undone it after a response failed, or
\* waits for the fate of a response its full queue has dropped.
THEOREM RecordsAgree == Spec => []BothEndsAgree
  <1>1. IInv => BothEndsAgree
    BY DEF IInv, AssociatedKnown, ApInv, RecordsTrue, Established, BothEndsAgree
  <1> QED
    BY <1>1, Inductive, PTL

=============================================================================
