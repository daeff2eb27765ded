-------------------------- MODULE BlockAckHandshake --------------------------
(* Setting up and tearing down the block ack agreement of one destination    *)
(* and TID: ADDBA request and response, DELBA, their retransmissions, and    *)
(* the timers of QosTxop, none of which is ever cancelled.                   *)
(*                                                                           *)
(* Action frames wait in the queue of their sender, ahead of its data, and   *)
(* are exchanged one at a time: a frame is heard or lost, and so is its Ack. *)
(* Of the data only the sequence numbers matter, without their wrap.         *)
EXTENDS SequencesExt

CONSTANTS MaxRequests,       \* bound: ADDBA requests
          MaxSeq,            \* bound: sequence numbers of data
          MaxTries,          \* transmissions of a frame before it is discarded
          InactivityTimeout  \* whether BlockAckInactivityTimeout is positive

ASSUME HandshakeAssumption ==
    /\ {MaxRequests, MaxSeq, MaxTries} \subseteq Nat \ {0}
    /\ InactivityTimeout \in BOOLEAN

VARIABLES originator, recipient,
          data,              \* the next sequence number, and the oldest retry
          queue,             \* the action frames each side has to send
          exchange,          \* whose frame is on the air, whether it was heard
          requests,          \* how many ADDBA requests were created
          status             \* "aborted" after a failed assertion

vars == <<originator, recipient, data, queue, exchange, requests, status>>

Sides == {"originator", "recipient"}
Idle == [sender |-> "none", heard |-> FALSE]
OnAir(side) == exchange.sender = side
HeadOf(side) == Head(queue[side])

Frame(type, start) ==
    [type |-> type, start |-> start, tries |-> 1, delivered |-> FALSE, expired |-> FALSE]

\* The number of the first MPDU of the EDCA queue, given at its transmission.
FirstSeq == IF data.retry = {} THEN data.next ELSE Min(data.retry)

-----------------------------------------------------------------------------
\* CreateAgreement; "disturbed" is a history variable.
Create(o, start) ==
    [o EXCEPT !.state = "PENDING", !.start = start, !.timer = FALSE,
              !.blocked = TRUE, !.disturbed = FALSE]

\* DestroyAgreement: the inactivity timer is cancelled with the agreement, the
\* destination is left as it is, blocked or not.
Destroy(o) ==
    [o EXCEPT !.state = "none", !.timer = FALSE,
              !.disturbed = @ \/ o.state = "PENDING"]

\* Mutant of NoReply: the destination stays blocked.
NoReplyBlocked(o) ==
    IF o.state # "PENDING" THEN o
    ELSE [o EXCEPT !.state = "NO_REPLY", !.resets = @ + 1]

\* NotifyAgreementNoReply, where the agreement is still pending.
NoReply(o) ==
    IF o.state # "PENDING" THEN o
    ELSE [o EXCEPT !.state = "NO_REPLY", !.blocked = FALSE, !.resets = @ + 1]

\* Mutant of GotAddBaResponse: the first MPDU may be a retry.
GotAddBaResponseNextSeq(o) ==
    IF o.state = "none" THEN [o EXCEPT !.blocked = FALSE]
    ELSE [o EXCEPT !.state = "ESTABLISHED", !.start = data.next, !.blocked = FALSE,
                   !.timer = InactivityTimeout,
                   !.orphans = IF o.timer THEN @ + 1 ELSE @]

\* GotAddBaResponse and UpdateAgreement, from whatever state.  If the agreement
\* was established before, its inactivity timer is replaced, not cancelled.
GotAddBaResponse(o) ==
    IF o.state = "none" THEN [o EXCEPT !.blocked = FALSE]
    ELSE [o EXCEPT !.state = "ESTABLISHED", !.start = FirstSeq, !.blocked = FALSE,
                   !.timer = InactivityTimeout,
                   !.orphans = IF o.timer THEN @ + 1 ELSE @]

-----------------------------------------------------------------------------
\* NeedSetupBlockAck and SendAddBaRequest: the first frame is data for a
\* destination without an agreement, or with one to be reset.  The starting
\* sequence number asked for is that of the first MPDU.
SendAddBaRequest ==
    /\ exchange = Idle /\ queue["originator"] = <<>>
    /\ originator.state \in {"none", "RESET"} /\ ~originator.blocked
    /\ requests < MaxRequests
    /\ originator' = Create(originator, FirstSeq)
    /\ queue' = [queue EXCEPT !["originator"] = <<Frame("ADDBA_REQUEST", FirstSeq)>>]
    /\ exchange' = [sender |-> "originator", heard |-> FALSE]
    /\ requests' = requests + 1
    /\ UNCHANGED <<recipient, data, status>>

\* Data outside an agreement: one MPDU at a time, which afterwards is gone,
\* acknowledged or discarded, or to be retried.
SendNormal ==
    /\ exchange = Idle /\ queue["originator"] = <<>>
    /\ originator.state # "ESTABLISHED" /\ ~originator.blocked
    /\ data.next < MaxSeq
    /\ data' \in {[next |-> Max({FirstSeq + 1, data.next}), retry |-> left] : left \in {{}, {FirstSeq}}}
    /\ UNCHANGED <<originator, recipient, queue, exchange, requests, status>>

\* Data under the agreement, of which module BlockAckManager has the details:
\* what is left to be retried is no older than before.  EndReceiveAmpdu asserts
\* that there is an agreement when an A-MPDU arrives.
SendUnderAgreement ==
    /\ exchange = Idle /\ queue["originator"] = <<>>
    /\ originator.state = "ESTABLISHED" /\ ~originator.blocked
    /\ data.next < MaxSeq
    /\ \E sent \in 0 .. 1, left \in {{}} \cup {{n} : n \in originator.start .. data.next} :
            /\ \A n \in left, old \in data.retry : old <= n
            /\ \A n \in left : n < data.next + sent
            /\ data' = [next |-> data.next + sent, retry |-> left]
    /\ status' \in IF recipient.established = {} THEN {status, "aborted"} ELSE {status}
    /\ UNCHANGED <<originator, recipient, queue, exchange, requests>>

\* StartTransmission: the first action frame of the queue is sent, or sent again.
Transmit(side) ==
    /\ exchange = Idle /\ queue[side] # <<>>
    /\ exchange' = [sender |-> side, heard |-> FALSE]
    /\ UNCHANGED <<originator, recipient, data, queue, requests, status>>

-----------------------------------------------------------------------------
\* Mutant of WithResponse: the response to an earlier request stays queued.
WithResponseAdded(q) ==
    [q EXCEPT !["recipient"] = Append(@, Frame("ADDBA_RESPONSE", 0))]

\* SendAddBaResponse replaces the response to an earlier request.
WithResponse(q) == [q EXCEPT !["recipient"] = <<Frame("ADDBA_RESPONSE", 0)>>]

\* The frame on the air is heard.  A retransmission of one heard before is a
\* duplicate, but acknowledged.  DestroyBlockAckAgreement leaves a pending
\* agreement alone.
Hear ==
    LET side == exchange.sender
        f    == HeadOf(side)
        Got(type) == f.type = type /\ ~f.delivered
        seen == [queue EXCEPT ![side] = [@ EXCEPT ![1].delivered = TRUE]]
    IN  /\ exchange # Idle /\ ~exchange.heard
        /\ exchange' = [exchange EXCEPT !.heard = TRUE]
        /\ recipient' =
              CASE Got("ADDBA_REQUEST") -> [recipient EXCEPT !.pending = {f.start}, !.abandoned = FALSE]
                [] Got("DELBA") -> [recipient EXCEPT !.established = {}]
                [] OTHER -> recipient
        /\ queue' = IF Got("ADDBA_REQUEST") THEN WithResponse(seen) ELSE seen
        /\ originator' = IF Got("ADDBA_RESPONSE") THEN GotAddBaResponse(originator) ELSE originator
        /\ UNCHANGED <<data, requests, status>>

\* What the originator makes of an Ack: the wait for the ADDBA response begins,
\* or the agreement is destroyed, a second time.
WithAckedFrame(o, type) ==
    CASE type = "ADDBA_REQUEST" -> [o EXCEPT !.responses = @ + 1]
      [] type = "DELBA" -> Destroy(o)
      [] OTHER -> o

\* Mutant of Establish: any other agreement is erased after the insertion.
EstablishErased(r) == [r EXCEPT !.established = {}, !.pending = {}]

\* The agreement of a response that is acknowledged moves from the pending to
\* the established ones, in place of any other.
Establish(r) == [r EXCEPT !.established = r.pending, !.pending = {}]

\* NotifyReceivedNormalAck
Acked ==
    LET side == exchange.sender
        type == HeadOf(side).type
    IN  /\ exchange.heard
        /\ originator' = WithAckedFrame(originator, type)
        /\ IF type # "ADDBA_RESPONSE" THEN UNCHANGED <<recipient, status>>
           ELSE /\ recipient' = Establish(recipient)
                /\ status' = IF recipient.pending = {} THEN "aborted" ELSE status
        /\ queue' = [queue EXCEPT ![side] = Tail(@)]
        /\ exchange' = Idle
        /\ UNCHANGED <<data, requests>>

\* What is left of the two ends when a frame is gone without having been
\* acknowledged or discarded; history variables only.
ForgetsRequest(o, f) ==
    [o EXCEPT !.disturbed = @ \/ (f.type = "ADDBA_REQUEST" /\ o.state = "PENDING")]
ForgetsResponse(r, f) ==
    [r EXCEPT !.abandoned = @ \/ f.type = "ADDBA_RESPONSE"]

\* NormalAckTimeout: the frame is sent again, unless its lifetime is over, which
\* nobody is told.
Retry ==
    LET side == exchange.sender
        f    == HeadOf(side)
    IN  /\ exchange # Idle
        /\ f.tries < MaxTries
        /\ queue' = [queue EXCEPT ![side] =
                        IF f.expired THEN Tail(@)
                        ELSE [@ EXCEPT ![1] = [f EXCEPT !.tries = f.tries + 1]]]
        /\ originator' = IF f.expired THEN ForgetsRequest(originator, f) ELSE originator
        /\ recipient' = IF f.expired THEN ForgetsResponse(recipient, f) ELSE recipient
        /\ exchange' = Idle
        /\ UNCHANGED <<data, requests, status>>

\* NormalAckTimeout past the retry limit, and NotifyPacketDiscarded: whatever
\* the action frame, an agreement that is pending then gets no reply.
Discard ==
    LET side == exchange.sender
    IN  /\ exchange # Idle
        /\ originator' = IF side = "originator" THEN NoReply(originator) ELSE originator
        /\ recipient' = ForgetsResponse(recipient, HeadOf(side))
        /\ queue' = [queue EXCEPT ![side] = Tail(@)]
        /\ exchange' = Idle
        /\ UNCHANGED <<data, requests, status>>

\* The lifetime of a frame ends, of the oldest first.  NotifyDiscardedMpdu, which
\* is told, returns at once as this is not QoS data.  A frame on the air is
\* still sent.
Expire ==
    \E side \in Sides : \E i \in DOMAIN queue[side] :
        LET f == queue[side][i]
            sent == OnAir(side) /\ i = 1
        IN  /\ ~f.expired /\ \A j \in 1 .. i - 1 : queue[side][j].expired
            /\ queue' = [queue EXCEPT ![side] =
                            IF sent THEN [@ EXCEPT ![1].expired = TRUE] ELSE RemoveAt(@, i)]
            /\ originator' = IF sent THEN originator ELSE ForgetsRequest(originator, f)
            /\ recipient' = IF sent THEN recipient ELSE ForgetsResponse(recipient, f)
            /\ UNCHANGED <<data, exchange, requests, status>>

-----------------------------------------------------------------------------
AddBaResponseTimeout ==
    /\ originator.responses > 0
    /\ originator' = NoReply([originator EXCEPT !.responses = @ - 1])
    /\ UNCHANGED <<recipient, data, queue, exchange, requests, status>>

\* The timer may belong to an agreement that is gone.
ResetBa ==
    /\ originator.resets > 0
    /\ originator' =
          LET o == [originator EXCEPT !.resets = @ - 1]
          IN  IF o.state \in {"none", "ESTABLISHED"} THEN o
              ELSE [o EXCEPT !.state = "RESET", !.disturbed = @ \/ o.state = "PENDING"]
    /\ UNCHANGED <<recipient, data, queue, exchange, requests, status>>

\* BlockAckManager::InactivityTimeout and SendDelbaFrame.
DestroyInactive ==
    /\ \/ originator.timer /\ originator' = Destroy(originator)
       \/ originator.orphans > 0 /\ originator' = [Destroy(originator) EXCEPT !.orphans = @ - 1]
    /\ queue' = [queue EXCEPT !["originator"] = Append(@, Frame("DELBA", 0))]
    /\ UNCHANGED <<recipient, data, exchange, requests, status>>

Init ==
    /\ originator = [state |-> "none", start |-> 0, timer |-> FALSE, blocked |-> FALSE,
                     responses |-> 0, resets |-> 0, orphans |-> 0, disturbed |-> FALSE]
    /\ recipient = [pending |-> {}, established |-> {}, abandoned |-> FALSE]
    /\ data = [next |-> 0, retry |-> {}]
    /\ queue = [side \in Sides |-> <<>>]
    /\ exchange = Idle
    /\ requests = 0
    /\ status = "active"

\* A failed assertion stops the simulation.
Next ==
    /\ status = "active"
    /\ \/ SendAddBaRequest \/ SendNormal \/ SendUnderAgreement
       \/ Transmit("originator") \/ Transmit("recipient")
       \/ Hear \/ Acked \/ Retry \/ Discard \/ Expire
       \/ AddBaResponseTimeout \/ ResetBa \/ DestroyInactive

Spec == Init /\ [][Next]_vars

\* A side with a frame to send gets access to the channel, an Ack or its timeout
\* ends each exchange, and the timers of QosTxop expire.
Fairness ==
    /\ \A side \in Sides : WF_vars(Next /\ Transmit(side))
    /\ WF_vars(Next /\ (Acked \/ Retry \/ Discard))
    /\ WF_vars(Next /\ AddBaResponseTimeout)

FairSpec == Spec /\ Fairness

-----------------------------------------------------------------------------
\* However requests and late responses cross, neither end's window starts beyond
\* an MPDU the originator still has to send: such an MPDU would look old to the
\* recipient, and be dropped by it, or to the originator.
StartsCoverUnsent ==
    \A start \in recipient.pending \cup recipient.established
                 \cup IF originator.state = "ESTABLISHED" THEN {originator.start} ELSE {} :
        start <= FirstSeq

\* "The first ADDBA_RESPONSE frame that is acknowledged causes the Block Ack
\* agreement to be moved ...; the next one will find no pending agreement, thus
\* causing the simulation to abort": there never is a next one.
ResponseFindsPending ==
    \A i \in DOMAIN queue["recipient"] :
        i = 1 /\ recipient.pending # {}

\* When a response is missing the destination is "unblocked" and packets are
\* "sent again (under normal ack policy)": it never stays blocked, unless the
\* request has expired, or the agreement was reset or destroyed while pending.
BlockedIsUnblocked ==
    originator.blocked ~> (~originator.blocked \/ originator.disturbed \/ status = "aborted")

\* An agreement the originator uses is established at the recipient as well,
\* in the end, unless the response was given up without an Ack.
HalfOpenEnds ==
    originator.state = "ESTABLISHED" ~>
        \/ recipient.established # {} \/ recipient.abandoned
        \/ originator.state # "ESTABLISHED" \/ status = "aborted"

\* EndReceiveAmpdu asserts that the agreement of an A-MPDU is established.
AmpduFindsAgreement == status # "aborted"

=============================================================================
