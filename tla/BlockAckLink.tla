---------------------------- MODULE BlockAckLink ----------------------------
(* One block ack agreement from end to end: the originator, the recipient    *)
(* and the air between them, where any frame of an exchange, its response    *)
(* included, may be lost.  Frames of one exchange arrive in order and none   *)
(* outlives the exchange, as the originator's timeout is longer than they    *)
(* last.                                                                     *)
EXTENDS BlockAckManager

CONSTANT U16            \* the number of values of a uint16_t

VARIABLES scoreboard, winStartB, bufferedMpdus, forwardedUp, status,
          airMpdus,     \* the MPDUs on their way to the recipient
          airBars,      \* the start a BlockAckReq on its way asks for
          heard,        \* whether the recipient owes a response
          acked,        \* history: what was acknowledged to the originator
          delivered     \* history: what the recipient has handed up

Recipient == INSTANCE RecipientBlockAckAgreement
                WITH Mpdu <- Mpdus, SeqNumber <- [m \in Mpdus |-> SeqOfMpdu(m)]

recipientVars == <<scoreboard, winStartB, bufferedMpdus, forwardedUp, status>>
ASSUME LinkAssumption == Recipient!RecipientAssumption

airVars == <<airMpdus, airBars, heard>>
linkVars == <<vars, recipientVars, airVars, acked, delivered>>

AirIsFree == airMpdus = {} /\ airBars = {}

-----------------------------------------------------------------------------
\* ForwardPsduDown: what a data frame carries is what the exchange was set up
\* for, or becomes in flight at once.
LinkSendData ==
    /\ AirIsFree
    /\ SendData \/ ReceiveCts
    /\ airMpdus' = IF exchange.step = "cts" THEN exchange.mpdus
                   ELSE ba'.inFlight \ ba.inFlight
    /\ heard' = FALSE
    /\ UNCHANGED <<airBars, recipientVars, acked, delivered>>

LinkSendBar ==
    /\ AirIsFree
    /\ SendBar
    /\ airBars' = {ba'.txWindow.winStart}
    /\ heard' = FALSE
    /\ UNCHANGED <<airMpdus, recipientVars, acked, delivered>>

\* HtFrameExchangeManager::ReceiveMpdu at the recipient, for the next MPDU ...
Hear ==
    /\ airMpdus # {}
    /\ Recipient!NotifyReceivedMpdu(Min(airMpdus))
    /\ airMpdus' = airMpdus \ {Min(airMpdus)}
    /\ heard' = TRUE
    /\ delivered' = delivered \o forwardedUp'
    /\ UNCHANGED <<vars, airBars, acked>>

\* ... and for a BlockAckReq.
HearBar ==
    /\ \E ssn \in airBars : Recipient!NotifyReceivedBar(ssn)
    /\ airBars' = {}
    /\ heard' = TRUE
    /\ delivered' = delivered \o forwardedUp'
    /\ UNCHANGED <<vars, airMpdus, acked>>

Lose ==
    /\ ~AirIsFree
    /\ IF airMpdus # {} THEN airMpdus' = airMpdus \ {Min(airMpdus)} /\ UNCHANGED airBars
                        ELSE airBars' = {} /\ UNCHANGED airMpdus
    /\ UNCHANGED <<vars, recipientVars, heard, acked, delivered>>

\* The response to what was heard: SendNormalAck, or SendBlockAck with the
\* bitmap of the scoreboard.
Reported == {m \in Mpdus : SeqOfMpdu(m) \in Recipient!BlockAckBitmap}

HearResponse ==
    /\ AirIsFree /\ heard
    /\ \/ ReceiveAck /\ acked' = acked \cup exchange.mpdus
       \/ ReceiveBlockAck(Reported) /\ acked' = acked \cup (ba.inFlight \cap Reported)
    /\ heard' = FALSE
    /\ UNCHANGED <<airMpdus, airBars, recipientVars, delivered>>

\* No response, or a lost one.
Timeout ==
    /\ AirIsFree
    /\ AckTimeout \/ BlockAckTimeout \/ CtsTimeout
    /\ heard' = FALSE
    /\ UNCHANGED <<airMpdus, airBars, recipientVars, acked, delivered>>

Local ==
    /\ DiscardOnCollision \/ WipeExpired \/ Expire
    /\ UNCHANGED <<airVars, recipientVars, acked, delivered>>

LinkInit ==
    /\ Init
    /\ Recipient!InitAt(StartingSeq)
    /\ airMpdus = {} /\ airBars = {} /\ heard = FALSE
    /\ acked = {} /\ delivered = <<>>

\* A failed assertion at the recipient stops the simulation.
LinkNext ==
    /\ status = "active"
    /\ \/ LinkSendData \/ LinkSendBar \/ Hear \/ HearBar \/ Lose
       \/ HearResponse \/ Timeout \/ Local
    /\ UNCHANGED setup

LinkSpec == LinkInit /\ [][LinkNext]_linkVars

-----------------------------------------------------------------------------
\* The agreement, with losses, retransmissions, discards and BlockAckReqs,
\* delivers in order and without duplicates.
Promise == INSTANCE InOrderDelivery WITH Mpdu <- Mpdus
DeliversInOrder == Promise!Spec

\* An MPDU the originator was told is received, and has dropped from its
\* queues for good, has been handed up or is waiting in the recipient's buffer.
NothingAckedIsLost ==
    status = "active" =>
        acked \subseteq ToSet(delivered) \cup bufferedMpdus

\* What the originator still has to deliver, and would send, the recipient
\* would not drop as old.
PendingIsWelcome ==
    status = "active" =>
        \A m \in ba.queued :
            /\ IsInWindow(ba.txWindow, m)
            /\ m \notin ToSet(delivered)
            => ~Recipient!IsOld(SeqOfMpdu(m), winStartB)

\* When the originator has nothing left to send, no BlockAckReq included, no
\* MPDU is left waiting in the recipient's buffer for one that will never come,
\* unless an MPDU expired between its RTS and its CTS.
NothingLeftWaiting ==
    /\ overtaken = {}
    /\ status = "active" /\ exchange = Idle /\ AirIsFree
    /\ ba.queued = {} /\ ba.inFlight = {} /\ ba.bar = "none"
    => bufferedMpdus = {}

\* A BlockAckReq goes before any data of a new TXOP, so that with a TXOP limit
\* of 0 what is on its way is no further than a window ahead of the next MPDU the
\* recipient waits for: the recipient never lets one pass that it was not told
\* to, and nothing new looks old to it.
RecipientWithinReach ==
    ~TxopLimited =>
    \A seq \in {SeqOfMpdu(m) : m \in airMpdus} \cup airBars :
        \/ Recipient!IsOld(seq, winStartB)
        \/ Recipient!Distance(seq, winStartB) <= WinSize

\* GetDistance asserts that its operands are sequence numbers.
NoAssertFails == status # "aborted"

=============================================================================
