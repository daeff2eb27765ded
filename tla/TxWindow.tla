------------------------------ MODULE TxWindow ------------------------------
(* The transmit window of OriginatorBlockAckAgreement: what it promises, in  *)
(* terms of offsets from its start, with no ring underneath.                 *)
EXTENDS SequenceSpace

VARIABLES start,    \* the sequence number the window starts at
          acked     \* offsets within the window of acknowledged MPDUs

vars == <<start, acked>>

Init == start \in SeqNos /\ acked = {}

\* The window starts n further on, and then at the first MPDU that has not
\* been acknowledged.
SlideTo(n, A) ==
    LET rest == Drop(A, n)
        gap  == FirstGap(rest)
    IN  /\ start' = Plus(start, n + gap)
        /\ acked' = Drop(rest, gap)

\* Transmitting past the end drags the window along.
Transmit(seq) ==
    /\ Distance(seq, start) \in WinSize .. SeqHalf - 1
    /\ SlideTo(Distance(seq, start) - WinSize + 1, acked)

Ack(seq) ==
    /\ Distance(seq, start) \in Offsets
    /\ SlideTo(0, acked \cup {Distance(seq, start)})

\* A discarded MPDU takes all before it out of the window.
Discard(seq) ==
    /\ ~IsOld(seq, start)
    /\ SlideTo(Distance(seq, start) + 1, acked)

Restart == start' \in SeqNos /\ acked' = {}

Next == \/ \E seq \in SeqNos : Transmit(seq) \/ Ack(seq) \/ Discard(seq)
        \/ Restart

Spec == Init /\ [][Next]_vars

=============================================================================
