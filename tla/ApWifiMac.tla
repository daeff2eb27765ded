------------------------------ MODULE ApWifiMac ------------------------------
(* The access points as one station meets them: what each makes of its       *)
(* association requests, and of the fate of the responses it queues.         *)
EXTENDS BasicServiceSet, FiniteSetsExt

CONSTANTS MayRefuse,    \* access points that may refuse the station
          OtherAids,    \* OtherAids[ap]: AIDs of the other stations of ap
          MaxAid        \* the greatest AID

\* GetNextAssociationId aborts when no AID is free.
ASSUME AidAssumption ==
    /\ MayRefuse \subseteq Aps /\ MaxAid \in Nat
    /\ \A ap \in Aps : (1 .. MaxAid) \ OtherAids[ap] # {}

VARIABLES refusing,     \* access points whose basic rates or MCSs the station lacks
          stationState, \* of the station, in each remote station manager
          staList,      \* its AID at each access point, 0 for none
          responses,    \* responses queued, oldest first
          lost          \* history: what became of responses since the last request:
                        \* "none", its own was "dropped" by the queue, one "failed"

apVars == <<refusing, stationState, staList, responses, lost>>

ApInit ==
    /\ refusing \in SUBSET MayRefuse
    /\ stationState = [ap \in Aps |-> "BRAND_NEW"]
    /\ staList = [ap \in Aps |-> 0]
    /\ responses = [ap \in Aps |-> <<>>]
    /\ lost = [ap \in Aps |-> "none"]

GetNextAssociationId(ap) == Min((1 .. MaxAid) \ OtherAids[ap])

\* Mutant of Aid: every request gets an AID of its own.
AidRenewed(ap) == Min((1 .. MaxAid) \ (OtherAids[ap] \cup {staList[ap]}))

\* SetAid: a station that has an AID keeps it.
Aid(ap) == IF staList[ap] # 0 THEN staList[ap] ELSE GetNextAssociationId(ap)

\* Mutant of RecordWaitAssocTxOk: a station that has an AID is not recorded again.
RecordWaitAssocTxOkOnce(ap) ==
    IF staList[ap] = 0 THEN "WAIT_ASSOC_TX_OK" ELSE stationState[ap]

RecordWaitAssocTxOk(ap) == "WAIT_ASSOC_TX_OK"

\* What TxOk and TxFailed make of the state: each looks whether it is waited for.
AfterTxOk(state) == IF state = "WAIT_ASSOC_TX_OK" THEN "GOT_ASSOC_TX_OK" ELSE state
AfterTxFailed(state) == IF state = "WAIT_ASSOC_TX_OK" THEN "DISASSOC" ELSE state

\* The response is queued; state is what was recorded before. All stations share
\* the queue, so it may be full whatever this one has in it. A full queue is first
\* rid of what is too old, and each response among that is reported to TxFailed
\* ("Expired", txop.cc:215). If that makes no room, and there are only management
\* frames, HasToDropBeforeEnqueue names the response itself, and DoEnqueue returns
\* (wifi-mac-queue.cc:421-425) without Queue::DoEnqueue, where "DropBeforeEnqueue"
\* would be fired: nobody is told of the response that is dropped.
SendAssocResp(ap, state, response) ==
    \/ /\ Len(responses[ap]) < MaxQueued
       /\ stationState' = [stationState EXCEPT ![ap] = state]
       /\ responses' = [responses EXCEPT ![ap] = Append(@, response)]
       /\ lost' = [lost EXCEPT ![ap] = "none"]
    \/ \E stale \in 1 .. Len(responses[ap]) :
          /\ stationState' = [stationState EXCEPT ![ap] = AfterTxFailed(state)]
          /\ responses' = [responses EXCEPT ![ap] =
                               Append(SubSeq(@, stale + 1, Len(@)), response)]
          /\ lost' = [lost EXCEPT ![ap] = "failed"]
    \/ /\ stationState' = [stationState EXCEPT ![ap] = state]
       /\ lost' = [lost EXCEPT ![ap] = "dropped"]
       /\ UNCHANGED responses

\* A refusal leaves the station disassociated.
ReceiveAssocRequest(ap) ==
    /\ IF ap \in refusing
       THEN /\ SendAssocResp(ap, "DISASSOC", [success |-> FALSE, aid |-> 0])
            /\ UNCHANGED staList
       ELSE /\ SendAssocResp(ap, RecordWaitAssocTxOk(ap), [success |-> TRUE, aid |-> Aid(ap)])
            /\ staList' = [staList EXCEPT ![ap] = Aid(ap)]
    /\ UNCHANGED refusing

TxOk(ap) ==
    /\ stationState' = [stationState EXCEPT ![ap] = AfterTxOk(@)]
    /\ responses' = [responses EXCEPT ![ap] = Tail(@)]
    /\ UNCHANGED <<refusing, staList, lost>>

\* A response is given up, or its lifetime ends in the queue: both are reported
\* as "DroppedMpdu", to which TxFailed is connected.
TxFailed(ap) ==
    /\ stationState' = [stationState EXCEPT ![ap] = AfterTxFailed(@)]
    /\ responses' = [responses EXCEPT ![ap] = Tail(@)]
    /\ lost' = [lost EXCEPT ![ap] = "failed"]
    /\ UNCHANGED <<refusing, staList>>

=============================================================================
