------------------------- MODULE BlockAckAgreements -------------------------
(* The two ends of block ack agreements, each under any caller: the          *)
(* notifications an originator's transmit window may get in any order, and   *)
(* the MPDUs and BlockAckReqs a recipient may receive.  A station has both   *)
(* kinds and they share no state: one moves while the other is at rest.      *)
EXTENDS OriginatorBlockAckAgreement, RecipientBlockAckAgreement

VARIABLE end            \* "originator" or "recipient", never changes

ASSUME AgreementsAssumption == RecipientAssumption

agreementVars == <<end, txWindow, recipientVars>>

AtRest == InitWindow(0)

AgreementsInit ==
    \/ end = "originator" /\ Init /\ InitAt(0)
    \/ end = "recipient" /\ txWindow = AtRest /\ RecipientInit

OriginatorMoves ==
    /\ end = "originator"
    /\ Next
    /\ UNCHANGED <<end, recipientVars>>

RecipientMoves ==
    /\ end = "recipient"
    /\ RecipientNext
    /\ UNCHANGED <<end, txWindow>>

AgreementsNext == OriginatorMoves \/ RecipientMoves

AgreementsSpec == AgreementsInit /\ [][AgreementsNext]_agreementVars

=============================================================================
