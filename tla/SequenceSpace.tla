--------------------------- MODULE SequenceSpace ---------------------------
(* Arithmetic on 802.11 sequence numbers and on offsets within a window of   *)
(* them.  SeqSpace is SEQNO_SPACE_SIZE (4096 in the code): half of the space *)
(* after a sequence number is "new", the other half is "old".  WinSize is    *)
(* the buffer size both ends agreed on, which SetBufferSize asserts to be at *)
(* most 256.                                                                 *)
EXTENDS Integers

CONSTANTS SeqSpace, WinSize

ASSUME SeqSpaceAssumption == SeqSpace \in Nat /\ SeqSpace % 2 = 0
ASSUME WinSizeAssumption == WinSize \in Nat \ {0} /\ 4 * WinSize <= SeqSpace

SeqNos == 0 .. SeqSpace - 1

\* SEQNO_SPACE_HALF_SIZE
SeqHalf == SeqSpace \div 2

\* BlockAckAgreement::GetDistance, for operands that its assertion accepts.
Distance(seq, start) == (seq - start + SeqSpace) % SeqSpace

\* QosUtilsIsOldPacket, and every "distance >= SEQNO_SPACE_HALF_SIZE" test.
IsOld(seq, start) == Distance(seq, start) >= SeqHalf

Plus(seq, n) == (seq + n) % SeqSpace

-----------------------------------------------------------------------------
\* The distances from its start that a window covers.
Offsets == 0 .. WinSize - 1

\* The least offset that is not in A, WinSize when A holds them all.
FirstGap(A) == CHOOSE n \in 0 .. WinSize :
                  n \notin A /\ \A m \in Offsets : m < n => m \in A

\* The offsets of A as seen from a window start n further on.
Drop(A, n) == {d \in Offsets : d + n \in A}

=============================================================================
