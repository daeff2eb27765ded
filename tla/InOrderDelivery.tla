-------------------------- MODULE InOrderDelivery --------------------------
(* What a block ack agreement promises the layer above the recipient: MPDUs  *)
(* arrive in the order in which they were numbered, each at most once.  Some *)
(* may be missing: the originator may give up on an MPDU.                    *)
EXTENDS Integers, Sequences

CONSTANT Mpdu           \* a set of integers, in the order of their numbers

VARIABLE delivered      \* the MPDUs handed to MacRxMiddle so far

Increasing(s) == \A i, j \in DOMAIN s : i < j => s[i] < s[j]

\* One frame received may release several MPDUs.
Deliver ==
    /\ Len(delivered) <= Len(delivered')
    /\ delivered = SubSeq(delivered', 1, Len(delivered))
    /\ delivered' \in Seq(Mpdu)
    /\ Increasing(delivered')

Init == delivered = <<>>
Spec == Init /\ [][Deliver]_delivered

=============================================================================
