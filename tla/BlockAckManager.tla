-------------------------- MODULE BlockAckManager --------------------------
(* The originator of one established block ack agreement: BlockAckManager's  *)
(* transmit window, in flight queue and BlockAckReq, the EDCA queue it       *)
(* shares with QosTxop, and the frame exchanges of HtFrameExchangeManager    *)
(* that drive it.  An operator maps the record ba to the one a method leaves *)
(* behind; the actions below are the events of the simulator.                *)
(*                                                                           *)
(* An MPDU is the order in which it takes its sequence number, so the EDCA   *)
(* queue, which is first in first out, and the in flight queue are sets kept *)
(* in the order of their elements.  An MSDU without a number leaves no trace *)
(* in the state: any amount of them may be queued behind the numbered ones.  *)
EXTENDS TransmitWindow, SequencesExt

CONSTANTS StartingSeq,      \* the sequence number of MPDU 0
          MaxMpdu,          \* bound: how many MPDUs may be numbered
          MaxAmpdu,         \* bound: MPDUs in an A-MPDU
          Setups            \* the configurations of the originator: see Setup

VARIABLE setup          \* the one this simulation has

RtsCts         == setup.rtsCts          \* whether RTS/CTS protects a PSDU: {TRUE, FALSE}
                                        \* where it depends on its size (NeedRts)
UseExplicitBar == setup.explicitBar     \* UseExplicitBarAfterMissedBlockAck
TxopLimited    == setup.txopLimited     \* whether the TXOP limit is positive
AckDistance    == setup.ackDistance     \* BaThreshold, as a number of MPDUs: those closer to
                                        \* the start of the window need no response yet
Setup == [rtsCts: SUBSET BOOLEAN \ {{}}, explicitBar: BOOLEAN, txopLimited: BOOLEAN,
          ackDistance: 0 .. WinSize]

ASSUME BlockAckManagerAssumption ==
    /\ StartingSeq \in SeqNos
    /\ MaxMpdu \in Nat /\ MaxAmpdu \in Nat \ {0}
    /\ Setups # {} /\ Setups \subseteq Setup

VARIABLES ba,               \* the agreement and its share of the queues
          nextMpdu,         \* MacTxMiddle's next sequence number, unwrapped
          expiredBelow,     \* MPDUs before this one are past their lifetime
          exchange,         \* m_psdu or m_mpdu and the response awaited
          txop,             \* whether the last frame exchange opened a TXOP
                            \* that the next one may continue
          overtaken         \* history: MPDUs that expired between the RTS and
                            \* the CTS of their first exchange

vars == <<setup, ba, nextMpdu, expiredBelow, exchange, txop, overtaken>>

Mpdus == 0 .. MaxMpdu - 1
SeqOfMpdu(m) == (StartingSeq + m) % SeqSpace
IsOldIn(w, m) == IsOld(SeqOfMpdu(m), w.winStart)
IsInWindow(w, m) == Distance(SeqOfMpdu(m), w.winStart) < WinSize
IsAcked(w, m) == At(w, Distance(SeqOfMpdu(m), w.winStart))

-----------------------------------------------------------------------------
\* Mutants of Discard: an MPDU sent only once is passed over, MPDUs that
\* become old stay in flight, no BlockAckReq is scheduled.
DiscardRetriesOnly(o, m) ==
    LET w    == AfterDiscarded(o.txWindow, SeqOfMpdu(m))
        gone == {n \in o.inFlight : IsOldIn(w, n)}
    IN  IF m \notin o.retry \/ IsOldIn(o.txWindow, m) THEN o
        ELSE [o EXCEPT !.txWindow = w, !.inFlight = @ \ gone,
                       !.queued = @ \ gone, !.bar = "always"]
DiscardKeepsInFlight(o, m) ==
    LET w == AfterDiscarded(o.txWindow, SeqOfMpdu(m))
    IN  IF m \notin o.retry \cup o.inFlight \/ IsOldIn(o.txWindow, m) THEN o
        ELSE [o EXCEPT !.txWindow = w, !.bar = "always"]
DiscardWithoutBar(o, m) ==
    LET w    == AfterDiscarded(o.txWindow, SeqOfMpdu(m))
        gone == {n \in o.inFlight : IsOldIn(w, n)}
    IN  IF m \notin o.retry \cup o.inFlight \/ IsOldIn(o.txWindow, m) THEN o
        ELSE [o EXCEPT !.txWindow = w, !.inFlight = @ \ gone, !.queued = @ \ gone]

\* NotifyDiscardedMpdu: the window moves beyond the MPDU, MPDUs that become
\* old leave both queues, and a BlockAckReq is scheduled to tell the recipient.
Discard(o, m) ==
    LET w    == AfterDiscarded(o.txWindow, SeqOfMpdu(m))
        gone == {n \in o.inFlight : IsOldIn(w, n)}
    IN  IF m \notin o.retry \cup o.inFlight \/ IsOldIn(o.txWindow, m)
        THEN o
        ELSE [o EXCEPT !.txWindow = w, !.inFlight = @ \ gone,
                       !.queued = @ \ gone, !.bar = "always"]

DequeueAndDiscard(o, m) == Discard([o EXCEPT !.queued = @ \ {m}], m)
DiscardAndDequeue(o, m) == LET d == Discard(o, m) IN [d EXCEPT !.queued = @ \ {m}]

\* HandleInFlightMpdu, for the two statuses that outlive the acknowledgments.
HandleInFlight(o, m, status) ==
    CASE m \notin o.inFlight -> o
      [] m \in o.inFlight \ o.queued -> [o EXCEPT !.inFlight = @ \ {m}]
      [] m \in o.inFlight \cap o.queued /\ IsOldIn(o.txWindow, m) ->
            [o EXCEPT !.inFlight = @ \ {m}, !.queued = @ \ {m}]
      [] m \in o.inFlight \cap o.queued /\ ~IsOldIn(o.txWindow, m) ->
            IF m < expiredBelow THEN DequeueAndDiscard(o, m)
            ELSE IF status = "STAY_INFLIGHT" THEN o
            ELSE [o EXCEPT !.retry = @ \cup {m}, !.inFlight = @ \ {m}]

ToRetransmit(o, m) == HandleInFlight(o, m, "TO_RETRANSMIT")

\* The loop of NeedBarRetransmission handles the front of the in flight queue
\* until that stays.
HandleIfFirst(o, m) ==
    IF \E n \in o.inFlight : n < m THEN o ELSE HandleInFlight(o, m, "STAY_INFLIGHT")

\* The MPDU is acknowledged: it leaves both queues and the window may advance.
Acknowledge(o, m) ==
    [o EXCEPT !.txWindow = AfterAcked(@, SeqOfMpdu(m)),
              !.inFlight = @ \ {m}, !.queued = @ \ {m}]

\* StorePacket
Store(o, m) ==
    IF IsOldIn(o.txWindow, m) THEN o
    ELSE [o EXCEPT !.txWindow = AfterTransmitted(@, SeqOfMpdu(m)),
                   !.inFlight = @ \cup {m}]

-----------------------------------------------------------------------------
\* The methods that are called for one MPDU after another, by name.
Do(method, o, m) ==
    CASE method = "Discard"           -> Discard(o, m)
      [] method = "DequeueAndDiscard" -> DequeueAndDiscard(o, m)
      [] method = "DiscardAndDequeue" -> DiscardAndDequeue(o, m)
      [] method = "ToRetransmit"      -> ToRetransmit(o, m)
      [] method = "HandleIfFirst"     -> HandleIfFirst(o, m)
      [] method = "Acknowledge"       -> Acknowledge(o, m)
      [] method = "Store"             -> Store(o, m)

\* Apply a method to the MPDUs of a set, one at a time in their order.
ForEach(method, o, M) ==
    LET after[n \in 0 .. MaxMpdu] ==
            IF n = 0 THEN o
            ELSE IF n - 1 \in M THEN Do(method, after[n - 1], n - 1)
            ELSE after[n - 1]
    IN  after[MaxMpdu]

\* WipeAllExpiredMpdus: all leave the EDCA queue, then each is reported.
Wipe(o) ==
    LET expired == {m \in o.queued : m < expiredBelow}
    IN  ForEach("Discard", [o EXCEPT !.queued = @ \ expired], expired)

NotifyMissedBlockAck(o) == ForEach("ToRetransmit", o, o.inFlight)

NotifyGotBlockAck(o, received) ==
    NotifyMissedBlockAck(ForEach("Acknowledge", o, o.inFlight \cap received))

\* NeedBarRetransmission drops MPDUs from the front of the in flight queue until
\* one is found that is neither old nor expired.
DropToFirstAlive(o) == ForEach("HandleIfFirst", o, o.inFlight)

\* PeekNextMpdu drops old MPDUs at the head of the EDCA queue, skips those in
\* flight, and returns none that lies beyond the transmit window.
DropOld(o) ==
    [o EXCEPT !.queued = {m \in @ : m \in o.retry \cup o.inFlight
                                      => ~IsOldIn(o.txWindow, m)}]
Available(o) ==
    {m \in o.queued \ o.inFlight : IsInWindow(o.txWindow, m)}
    \cup {m \in nextMpdu .. MaxMpdu - 1 : \A n \in nextMpdu .. m : IsInWindow(o.txWindow, n)}

-----------------------------------------------------------------------------
Idle == [step |-> "idle", method |-> "none", mpdus |-> {}]

\* TransmissionSucceeded opens or continues a TXOP if its limit is positive,
\* TransmissionFailed leaves it as it was before the exchange.
EndExchange(inTxop) == exchange' = Idle /\ txop' = inTxop

\* SendPsdu or SendMpdu: MPDUs leave for the air and become in flight.  With
\* method "none" no response is awaited, with "later" neither, but a
\* BlockAckReq is scheduled.
Transmit(o, psdu, method, inTxop) ==
    LET scheduled == IF method = "later" THEN [o EXCEPT !.bar = "always"] ELSE o
    IN  /\ ba' = ForEach("Store", scheduled, psdu)
        /\ IF method \in {"none", "later"} THEN EndExchange(TxopLimited)
           ELSE /\ exchange' = [step |-> "response", method |-> method, mpdus |-> psdu]
                /\ txop' = inTxop

\* StartTransmission: the TXOP continues, or its time is over and the next frame
\* is the first of another.
TxopStates == {txop, FALSE}

\* GetBar and SendMpduFromBaManager: the BlockAckReq goes before any data, with
\* the current start of the window.  One that is "ifData" waits for data in the
\* queue, and an MSDU without a number will do.
CanSendBar == exchange.step = "idle" /\ Wipe(ba).bar # "none"

SendBar ==
    /\ CanSendBar
    /\ txop' \in TxopStates
    /\ ba' = [Wipe(ba) EXCEPT !.bar = "none"]
    /\ exchange' = [step |-> "response", method |-> "bar", mpdus |-> {}]
    /\ UNCHANGED <<nextMpdu, expiredBelow, overtaken>>

\* IsResponseNeeded: some MPDU is far enough from the start of the window, or
\* no other one is queued, or this is the first frame of a TXOP and it is
\* bare, that is, not protected by RTS/CTS.
IsResponseNeeded(o, psdu, others, bare) ==
    \/ Distance(SeqOfMpdu(Max(psdu)), o.txWindow.winStart) >= AckDistance
    \/ ~others
    \/ bare

\* WifiDefaultAckManager::TryAddMpdu: where a response is needed, a lone MPDU
\* at the start of the window asks for a normal ack, an MPDU further on leaves
\* MPDUs before it unacknowledged and is followed by a BlockAckReq, whatever is
\* aggregated with it, and any other A-MPDU asks for a block ack.  It is asked
\* at each MPDU added: bareFirst is whether the first one, alone, is bare.
AckMethod(o, psdu, others, bareFirst, bare) ==
    LET first == Min(psdu)
        startsLate == SeqOfMpdu(first) # o.txWindow.winStart
    IN  CASE ~IsResponseNeeded(o, psdu, others, bare) -> "none"
          [] startsLate /\ IsResponseNeeded(o, {first}, others, bareFirst) -> "later"
          [] Cardinality(psdu) = 1 /\ SeqOfMpdu(first) = o.txWindow.winStart -> "ack"
          [] OTHER -> "blockack"

\* GetNextAmpdu: the first MPDUs that are available, as many as fit.
Psdus(available) ==
    {psdu \in SUBSET available :
        /\ Cardinality(psdu) \in 1 .. MaxAmpdu
        /\ \A m \in psdu, n \in available \ psdu : m < n}

\* Whether IsResponseNeeded finds more than one MPDU queued and not in flight:
\* those of the PSDU itself count, an MSDU without a number may be there or not.
OthersQueued(o, psdu) ==
    IF Cardinality((o.queued \cup psdu) \ o.inFlight) > 1 THEN {TRUE}
    ELSE {FALSE, Max(psdu \cup {nextMpdu - 1}) + 1 < MaxMpdu}

\* StartFrameExchange and SendDataFrame: new MPDUs take the next sequence
\* numbers.  A BlockAckReq is passed over if what is left of a TXOP is too
\* short for it.
CanSendData ==
    /\ exchange.step = "idle"
    /\ Wipe(ba).bar = "none" \/ txop
    /\ Available(DropOld(Wipe(ba))) # {}

SendData ==
    LET o == DropOld(Wipe(ba))
    IN  /\ CanSendData
        /\ \E psdu \in Psdus(Available(o)), inTxop \in TxopStates :
            \E others \in OthersQueued(o, psdu), rts \in RtsCts, rtsFirst \in RtsCts :
                LET taken   == [o EXCEPT !.queued = @ \cup psdu]
                    initial == TxopLimited /\ ~inTxop
                    method  == AckMethod(o, psdu, others, initial /\ ~rtsFirst, initial /\ ~rts)
                IN  /\ o.bar = "none" \/ inTxop
                    /\ IF Cardinality(psdu) = 1 THEN rtsFirst = rts ELSE rtsFirst => rts
                    /\ nextMpdu' = Max(psdu \cup {nextMpdu - 1}) + 1
                    /\ IF rts
                       THEN /\ ba' = taken
                            /\ exchange' = [step |-> "cts", method |-> method, mpdus |-> psdu]
                            /\ txop' = inTxop
                       ELSE Transmit(taken, psdu, method, inTxop)
        /\ UNCHANGED <<expiredBelow, overtaken>>

ReceiveCts ==
    /\ exchange.step = "cts"
    /\ Transmit(ba, exchange.mpdus, exchange.method, txop)
    /\ UNCHANGED <<nextMpdu, expiredBelow, overtaken>>

\* The MPDUs of the exchange that have never been transmitted.
New(o) == exchange.mpdus \ o.retry

\* ReleaseSequenceNumber, for each of those.
AfterRelease(new) == Min(new \cup {nextMpdu})

\* Mutant of CtsTimeout: retries give their sequence numbers back as well.
CtsTimeoutReleasesAll ==
    /\ exchange.step = "cts"
    /\ ba' = [ba EXCEPT !.queued = @ \ exchange.mpdus]
    /\ nextMpdu' = Min(exchange.mpdus \cup {nextMpdu})
    /\ expiredBelow' = Min({expiredBelow, nextMpdu'})
    /\ EndExchange(txop)
    /\ UNCHANGED overtaken

\* DoCtsTimeout: past the retry limit the MPDUs are dequeued and discarded.
\* Those never transmitted give their sequence numbers back in either case.
CtsTimeout ==
    LET new == New(ba)
    IN  /\ exchange.step = "cts"
        /\ \E o \in {ba, ForEach("DequeueAndDiscard", ba, exchange.mpdus)} :
                ba' = [o EXCEPT !.queued = @ \ new]
        /\ nextMpdu' = AfterRelease(new)
        /\ expiredBelow' = Min({expiredBelow, nextMpdu'})
        /\ overtaken' = overtaken \ new
        /\ EndExchange(txop)

\* NotifyReceivedNormalAck
ReceiveAck ==
    /\ exchange.step = "response" /\ exchange.method = "ack"
    /\ ba' = ForEach("Acknowledge", ba, exchange.mpdus)
    /\ EndExchange(TxopLimited)
    /\ UNCHANGED <<nextMpdu, expiredBelow, overtaken>>

\* NormalAckTimeout: past the retry limit the MPDU is discarded.
AckTimeout ==
    LET retried == [ba EXCEPT !.retry = @ \cup exchange.mpdus]
    IN  /\ exchange.step = "response" /\ exchange.method = "ack"
        /\ ba' \in {ForEach("DiscardAndDequeue", ba, exchange.mpdus),
                    ForEach("ToRetransmit", retried, exchange.mpdus)}
        /\ EndExchange(txop)
        /\ UNCHANGED <<nextMpdu, expiredBelow, overtaken>>

ReceiveBlockAck(received) ==
    /\ exchange.step = "response" /\ exchange.method \in {"blockack", "bar"}
    /\ ba' = NotifyGotBlockAck(ba, received)
    /\ EndExchange(TxopLimited)
    /\ UNCHANGED <<nextMpdu, expiredBelow, overtaken>>

\* MissedBlockAck: ask again with a BlockAckReq if anything is still in flight,
\* else leave one that waits for data; or send the data again, unless past the
\* retry limit.
BlockAckTimeout ==
    LET dropped == DropToFirstAlive(ba)
        bar     == IF dropped.inFlight # {} THEN "always" ELSE "ifData"
    IN  /\ exchange.step = "response" /\ exchange.method \in {"blockack", "bar"}
        /\ IF UseExplicitBar \/ exchange.method = "bar"
           THEN ba' = [dropped EXCEPT !.bar = bar]
           ELSE ba' \in {ForEach("DiscardAndDequeue", ba, exchange.mpdus),
                         NotifyMissedBlockAck(ba)}
        /\ EndExchange(txop)
        /\ UNCHANGED <<nextMpdu, expiredBelow, overtaken>>

\* NotifyInternalCollision: the MPDU the loser of the collision would have
\* sent has reached its retry limit.
DiscardOnCollision ==
    LET o == DropOld(ba)
        available == Available(o) \cap o.queued
    IN  /\ exchange.step = "idle" /\ available # {}
        /\ ba' = DequeueAndDiscard(o, Min(available))
        /\ UNCHANGED <<nextMpdu, expiredBelow, exchange, txop, overtaken>>

\* HasFramesToTransmit and Insert, whenever the upper layer enqueues a packet.
WipeExpired ==
    /\ ba' = Wipe(ba) /\ ba' # ba
    /\ overtaken' = IF exchange.step = "cts"
                    THEN overtaken \cup ((New(ba) \cap ba.queued) \ ba'.queued)
                    ELSE overtaken
    /\ UNCHANGED <<nextMpdu, expiredBelow, exchange, txop>>

\* The simulator's clock: MPDUs expire in the order they were enqueued.
Expire ==
    /\ expiredBelow' \in expiredBelow + 1 .. nextMpdu
    /\ UNCHANGED <<ba, nextMpdu, exchange, txop, overtaken>>

-----------------------------------------------------------------------------
Init ==
    /\ setup \in Setups
    /\ ba = [txWindow |-> InitWindow(StartingSeq),
             inFlight |-> {}, queued |-> {}, retry |-> {}, bar |-> "none"]
    /\ nextMpdu = 0
    /\ expiredBelow = 0
    /\ exchange = Idle
    /\ txop = FALSE
    /\ overtaken = {}

\* The steps the originator takes by itself, whatever is received.
Originate == \/ SendBar \/ SendData \/ CtsTimeout \/ AckTimeout \/ BlockAckTimeout
             \/ DiscardOnCollision \/ WipeExpired \/ Expire

Respond == ReceiveCts \/ ReceiveAck \/ \E received \in SUBSET ba.inFlight : ReceiveBlockAck(received)

Next == (Originate \/ Respond) /\ UNCHANGED setup

ReceiveSomeBlockAck == \E received \in SUBSET ba.inFlight : ReceiveBlockAck(received)
AwaitsBlockAck == exchange.step = "response" /\ exchange.method \in {"blockack", "bar"}
Proceed == exchange.step # "idle" /\ exchange' # exchange

\* Channel access is granted while there is something to send, a response or
\* its timeout comes, the clock moves on (weak fairness) and neither every CTS
\* nor every BlockAck is lost (strong fairness).  The conditions under which these are enabled
\* are spelled out, as TLC is slow to find ENABLED of the actions above.
Fairness ==
    /\ []<>~(CanSendBar \/ CanSendData) \/ []<><<SendBar \/ SendData>>_vars
    /\ []<>(exchange.step = "idle") \/ []<><<Proceed>>_vars
    /\ []<>(expiredBelow = nextMpdu) \/ []<><<Expire>>_vars
    /\ <>[](exchange.step # "cts") \/ []<><<ReceiveCts>>_vars
    /\ <>[]~AwaitsBlockAck \/ []<><<ReceiveSomeBlockAck>>_vars

Spec == Init /\ [][Next]_vars
FairSpec == Spec /\ Fairness

-----------------------------------------------------------------------------
\* "We cannot be notified of the acknowledgment of an MPDU which is beyond the
\* transmit window": every MPDU in flight is within it, and none has been
\* acknowledged before.
InFlightWithinWindow ==
    \A m \in ba.inFlight :
        /\ IsInWindow(ba.txWindow, m)
        /\ ~IsAcked(ba.txWindow, m)

\* MPDUs within the window that the originator has forgotten: no response and
\* no timeout is ever about them, so that the window cannot move beyond them.
HoldUp ==
    {m \in Mpdus : /\ m \in nextMpdu - WinSize .. nextMpdu - 1
                   /\ IsInWindow(ba.txWindow, m)
                   /\ m \notin ba.queued \cup ba.inFlight
                   /\ ~IsAcked(ba.txWindow, m)}

\* NotifyDiscardedMpdu makes "the transmit window advance beyond the discarded
\* frame": between exchanges, an MPDU that has left the EDCA queue without an
\* acknowledgment does not hold up the window.  It does in one way only: the
\* MPDU has expired between an RTS and its CTS.
OnlyOvertakenHoldUp == exchange.step = "idle" => HoldUp \subseteq overtaken

\* A sequence number that has been on the air stands for that MPDU ever after:
\* failed RTS/CTS exchanges only give back numbers above all of those.
NumbersNotReused == \A m \in ba.retry \cup ba.inFlight : m < nextMpdu

\* The window never closes for good: however frames are lost, every MPDU the
\* upper layer can supply is given a sequence number in the end, provided that
\* none expires between an RTS and its CTS.
AllNumbered == [](overtaken = {}) => <>[](nextMpdu = MaxMpdu)

=============================================================================
