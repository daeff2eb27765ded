------------------------- MODULE MCBlockAckManager -------------------------
(* MPDUs 0 to 4 with a window of 3 that wraps around the sequence space.     *)
EXTENDS BlockAckManager

\* RTS/CTS or none from one PSDU to the next: in TXOPs, with BlockAckReqs after
\* missed BlockAcks; and one exchange per channel access, data sent again.
McSetups ==
    {[rtsCts |-> {TRUE, FALSE}, explicitBar |-> b, txopLimited |-> b, ackDistance |-> 1] :
        b \in BOOLEAN}

=============================================================================
