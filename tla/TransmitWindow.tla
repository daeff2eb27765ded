--------------------------- MODULE TransmitWindow ---------------------------
(* What the notifications of OriginatorBlockAckAgreement make of its window: *)
(* the operators map a window to the one the method leaves.                  *)
EXTENDS BlockAckWindow

\* AdvanceTxWindow: while the head is acknowledged, advance by one.
AdvanceTxWindow(w) == Clear(w, FirstGap(Marked(w)))

\* GetStartingSequence
StartingSequence(w) == w.winStart

AfterTransmitted(w, seq) ==
    LET distance == Distance(seq, w.winStart)
    IN  IF distance \in WinSize .. SeqHalf - 1
        THEN AdvanceTxWindow(Advance(w, distance - WinSize + 1))
        ELSE w

\* NotifyAckedMpdu asserts (in At) that the MPDU is within the window or old.
CanAck(w, seq) == Distance(seq, w.winStart) \in Offsets \/ IsOld(seq, w.winStart)

AfterAcked(w, seq) ==
    IF IsOld(seq, w.winStart)
    THEN w
    ELSE AdvanceTxWindow(Mark(w, Distance(seq, w.winStart)))

\* Mutant of AfterDiscarded: AdvanceTxWindow is not called.
AfterDiscardedStopsThere(w, seq) ==
    IF IsOld(seq, w.winStart) THEN w ELSE Advance(w, Distance(seq, w.winStart) + 1)

AfterDiscarded(w, seq) ==
    IF IsOld(seq, w.winStart)
    THEN w
    ELSE AdvanceTxWindow(Advance(w, Distance(seq, w.winStart) + 1))

=============================================================================
