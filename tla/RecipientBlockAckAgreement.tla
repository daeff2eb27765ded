--------------------- MODULE RecipientBlockAckAgreement ---------------------
(* The recipient's side of a block ack agreement: the scoreboard it answers  *)
(* block acks from and the buffer in which MPDUs wait until every earlier    *)
(* one has been received or given up.                                        *)
(*                                                                           *)
(* The two halves have windows of their own (winStartR in the scoreboard,    *)
(* winStartB here), moved by the same frames under different conditions.     *)
(* Asserts are those of a build that has them on: a false one stops the      *)
(* program, which is status "aborted".                                       *)
EXTENDS BlockAckWindow, Ordering, Sequences

CONSTANTS Mpdu,     \* the MPDUs an originator may send
          SeqNumber,    \* the sequence number of each
          U16       \* the number of values of a uint16_t, 65536 in the code

\* An assumption of those who extend or instantiate this module.
RecipientAssumption ==
    /\ SeqNumber \in [Mpdu -> SeqNos]
    /\ U16 \in Nat /\ SeqSpace <= U16 /\ U16 % SeqSpace = 0

VARIABLES scoreboard,       \* m_scoreboard, a window starting at WinStartR
          winStartB,        \* m_winStartB
          bufferedMpdus,    \* the values of the map m_bufferedMpdus
          forwardedUp,      \* what the last call handed to MacRxMiddle, in order
          status            \* "active", "aborted" or "destroyed"

recipientVars == <<scoreboard, winStartB, bufferedMpdus, forwardedUp, status>>

-----------------------------------------------------------------------------
\* Distance of an MPDU from a sequence number, and the map's order by it.
Ahead(m, start) == Distance(SeqNumber[m], start)

\* Mutant of InOrder: sequence numbers are compared without regard to start.
InOrderOfSeqNumber(M, start) == Ordered(M, SeqNumber)

InOrder(M, start) == Ordered(M, [m \in M |-> Ahead(m, start)])

ScoreboardAfterMpdu(seq) ==
    LET distance == Distance(seq, scoreboard.winStart)
    IN  CASE distance < WinSize -> Mark(scoreboard, distance)
          [] distance \in WinSize .. SeqHalf - 1 ->
                Mark(Advance(scoreboard, distance - WinSize + 1), WinSize - 1)
          [] OTHER -> scoreboard

\* Mutant of ScoreboardAfterBar: a start past the window's end is ignored.
ScoreboardAfterBarIfWithin(ssn) ==
    LET distance == Distance(ssn, scoreboard.winStart)
    IN  IF distance \in 1 .. WinSize - 1 THEN Advance(scoreboard, distance) ELSE scoreboard

ScoreboardAfterBar(ssn) ==
    LET distance == Distance(ssn, scoreboard.winStart)
    IN  CASE distance \in 1 .. WinSize - 1 -> Advance(scoreboard, distance)
          [] distance \in WinSize .. SeqHalf - 1 -> InitWindow(ssn)
          [] OTHER -> scoreboard

\* Insertion into the map keeps an MPDU that has the same sequence number.
Insert(m) == IF \E b \in bufferedMpdus : SeqNumber[b] = SeqNumber[m]
             THEN bufferedMpdus ELSE bufferedMpdus \cup {m}

\* Mutant of Release: PassBufferedMpdusUntilFirstLost is not called.
ReleaseLessThan(buffer, newStart) ==
    LET early == {m \in buffer : Ahead(m, winStartB) < Distance(newStart, winStartB)}
    IN  /\ forwardedUp' = InOrder(early, winStartB)
        /\ bufferedMpdus' = buffer \ early
        /\ winStartB' = newStart

\* PassBufferedMpdusWithSeqNumberLessThan(newStart), with nothing to pass when
\* newStart is winStartB, followed by PassBufferedMpdusUntilFirstLost.
Release(buffer, newStart) ==
    LET early == {m \in buffer : Ahead(m, winStartB) < Distance(newStart, winStartB)}
        rest  == buffer \ early
        run   == FirstGap({Ahead(m, newStart) : m \in rest} \cap Offsets)
        next  == {m \in rest : Ahead(m, newStart) < run}
    IN  /\ forwardedUp' = InOrder(early, winStartB) \o InOrder(next, newStart)
        /\ bufferedMpdus' = rest \ next
        /\ winStartB' = Plus(newStart, run)

Keep == forwardedUp' = <<>> /\ UNCHANGED <<winStartB, bufferedMpdus>>

-----------------------------------------------------------------------------
\* NotifyReceivedMpdu for an MPDU within the reordering window, ...
ReceiveWithinWindow(m) ==
    /\ Ahead(m, winStartB) < WinSize
    /\ scoreboard' = ScoreboardAfterMpdu(SeqNumber[m])
    /\ Release(Insert(m), winStartB)
    /\ UNCHANGED status

\* Mutant of ReceiveBeyondWindow: the window ends one past the MPDU.
ReceiveBeyondWindowOneTooFar(m) ==
    LET newStart == (SeqNumber[m] - WinSize + 2) % U16
    IN  /\ Ahead(m, winStartB) \in WinSize .. SeqHalf - 1
        /\ newStart \in SeqNos
        /\ scoreboard' = ScoreboardAfterMpdu(SeqNumber[m])
        /\ Release(Insert(m), newStart)
        /\ UNCHANGED status

\* ... for one past its end, which drags the window along to end at it.  The
\* new start is computed in a uint16_t; GetDistance asserts it is below
\* SeqSpace as soon as it compares it with the first MPDU of the buffer.
ReceiveBeyondWindow(m) ==
    LET newStart == (SeqNumber[m] - WinSize + 1) % U16
    IN  /\ Ahead(m, winStartB) \in WinSize .. SeqHalf - 1
        /\ IF newStart \in SeqNos
           THEN /\ scoreboard' = ScoreboardAfterMpdu(SeqNumber[m])
                /\ Release(Insert(m), newStart)
                /\ UNCHANGED status
           ELSE /\ status' = "aborted"
                /\ Keep /\ UNCHANGED scoreboard

\* ... and for an old one, which only the scoreboard may take note of.
ReceiveOld(m) ==
    /\ IsOld(SeqNumber[m], winStartB)
    /\ scoreboard' = ScoreboardAfterMpdu(SeqNumber[m])
    /\ Keep /\ UNCHANGED status

NotifyReceivedMpdu(m) ==
    /\ status = "active"
    /\ ReceiveWithinWindow(m) \/ ReceiveBeyondWindow(m) \/ ReceiveOld(m)

NotifyReceivedBar(ssn) ==
    /\ status = "active"
    /\ scoreboard' = ScoreboardAfterBar(ssn)
    /\ IF Distance(ssn, winStartB) \in 1 .. SeqHalf - 1
       THEN Release(bufferedMpdus, ssn)
       ELSE Keep
    /\ UNCHANGED status

\* HtFrameExchangeManager::DestroyBlockAckAgreement: Flush, then erase.  What
\* the flush leaves in bufferedMpdus is lost.
Destroy ==
    /\ status = "active"
    /\ Release(bufferedMpdus, scoreboard.winStart)
    /\ status' = "destroyed"
    /\ UNCHANGED scoreboard

\* FillBlockAckBitmap: the sequence numbers a BlockAck reports as received.
BlockAckBitmap == {Plus(scoreboard.winStart, d) : d \in Marked(scoreboard)}

-----------------------------------------------------------------------------
InitAt(startingSeq) ==
    /\ scoreboard = InitWindow(startingSeq)
    /\ winStartB = startingSeq
    /\ bufferedMpdus = {}
    /\ forwardedUp = <<>>
    /\ status = "active"

RecipientInit == \E startingSeq \in SeqNos : InitAt(startingSeq)

\* What the recipient relies on: an originator whose window has not run on
\* half the sequence space ahead of it, so that both windows tell old from new
\* in the same way.
InReach(seq) ==
    \/ IsOld(seq, winStartB)
    \/ Distance(seq, scoreboard.winStart) < SeqHalf

Receive == \E m \in Mpdu : InReach(SeqNumber[m]) /\ NotifyReceivedMpdu(m)
ReceiveBar == \E ssn \in SeqNos : InReach(ssn) /\ NotifyReceivedBar(ssn)

RecipientNext == Receive \/ ReceiveBar \/ Destroy

RecipientSpec == RecipientInit /\ [][RecipientNext]_recipientVars

-----------------------------------------------------------------------------
\* "There cannot be old MPDUs in the buffer": whatever mixture of MPDUs and
\* BARs arrives, what stays buffered lies within the window, past its first
\* MPDU, and no two buffered MPDUs have one sequence number.
BufferWithinWindow ==
    status = "active" =>
        /\ \A m \in bufferedMpdus : Ahead(m, winStartB) \in 1 .. WinSize - 1
        /\ \A m, n \in bufferedMpdus : SeqNumber[m] = SeqNumber[n] => m = n

\* The two windows never drift apart: the buffer's is at most one window ahead
\* of the scoreboard's and never behind it.
WindowsTogether ==
    status = "active" => Distance(winStartB, scoreboard.winStart) <= WinSize

\* A BlockAck never claims an MPDU that the recipient neither holds nor has
\* let pass: the originator drops an acknowledged MPDU for good.
AckedIsHeld ==
    status = "active" =>
        \A seq \in BlockAckBitmap :
            \/ \E m \in bufferedMpdus : SeqNumber[m] = seq
            \/ Distance(seq, scoreboard.winStart)
                 < Distance(winStartB, scoreboard.winStart)

\* MPDUs go up in increasing order of sequence number, each behind the window
\* the step leaves, which moves by at most half the space: what it leaves behind
\* is old to it, and no later step can send it up.
ForwardsInOrder ==
    [][status' = "active" =>
          /\ Distance(winStartB', winStartB) <= SeqHalf
          /\ \A i \in DOMAIN forwardedUp' :
                /\ Ahead(forwardedUp'[i], winStartB) < Distance(winStartB', winStartB)
                /\ i > 1 => Ahead(forwardedUp'[i - 1], winStartB)
                              < Ahead(forwardedUp'[i], winStartB)]_recipientVars

=============================================================================
