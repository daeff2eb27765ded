-------------------- MODULE OriginatorBlockAckAgreement --------------------
(* The transmit window kept by OriginatorBlockAckAgreement, driven by the    *)
(* three notifications BlockAckManager sends it, in any order.               *)
EXTENDS TransmitWindow

VARIABLE txWindow       \* m_txWindow

InitTxWindow(startingSeq) == txWindow' = InitWindow(startingSeq)

NotifyTransmittedMpdu(seq) == txWindow' = AfterTransmitted(txWindow, seq)

NotifyAckedMpdu(seq) ==
    CanAck(txWindow, seq) /\ txWindow' = AfterAcked(txWindow, seq)

NotifyDiscardedMpdu(seq) == txWindow' = AfterDiscarded(txWindow, seq)

Init == \E startingSeq \in SeqNos : txWindow = InitWindow(startingSeq)

Next == \E seq \in SeqNos : \/ InitTxWindow(seq)
                            \/ NotifyTransmittedMpdu(seq)
                            \/ NotifyAckedMpdu(seq)
                            \/ NotifyDiscardedMpdu(seq)

Spec == Init /\ [][Next]_txWindow

-----------------------------------------------------------------------------
TypeOK == txWindow \in Windows

\* Outside the methods the window starts at an MPDU that is not acknowledged:
\* every notification that may acknowledge or uncover its head moves it on, so
\* a BlockAckReq never asks for a sequence number the originator is done with.
StartsUnacked == ~At(txWindow, 0)

\* The ring, with its head and its clearing loop, is the sliding window that
\* TxWindow promises, flags of the cells reused after a wrap included.
Abstract == INSTANCE TxWindow WITH start <- txWindow.winStart,
                                   acked <- Marked(txWindow)
ImplementsTxWindow == Abstract!Spec

=============================================================================
