------------------------ MODULE MCBlockAckAgreements ------------------------
(* A sequence space of 24 numbers and windows of 4 of them; to the recipient *)
(* an MPDU is its sequence number.                                           *)
EXTENDS BlockAckAgreements

McMpdu == SeqNos
McSeqNumber == [m \in McMpdu |-> m]

=============================================================================
