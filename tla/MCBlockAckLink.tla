--------------------------- MODULE MCBlockAckLink ---------------------------
EXTENDS BlockAckLink

SetupOf(rtsCts, explicitBar, txopLimited, ackDistance) ==
    [rtsCts |-> rtsCts, explicitBar |-> explicitBar,
     txopLimited |-> txopLimited, ackDistance |-> ackDistance]

\* Data at once in TXOPs, BlockAckReqs after missed BlockAcks; and one
\* exchange per channel access behind RTS/CTS, data sent again.
InTxop == SetupOf({FALSE}, TRUE, TRUE, 0)
McSetups == {InTxop, SetupOf({TRUE}, FALSE, FALSE, 1)}
McSetupsTxop == {InTxop}

=============================================================================
