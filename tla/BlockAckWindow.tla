--------------------------- MODULE BlockAckWindow ---------------------------
(* The class BlockAckWindow: one flag for each of WinSize consecutive        *)
(* sequence numbers, kept in a ring whose cell "head" holds the flag of      *)
(* winStart.  An operator maps a window to the one its method leaves behind. *)
EXTENDS SequenceSpace

Windows == [winStart: SeqNos, head: Offsets, window: [Offsets -> BOOLEAN]]

InitWindow(winStart) ==
    [winStart |-> winStart, head |-> 0, window |-> [i \in Offsets |-> FALSE]]

\* The cell of the flag at a distance from winStart.
Cell(w, distance) == (w.head + distance) % WinSize

At(w, distance) == w.window[Cell(w, distance)]

Mark(w, distance) == [w EXCEPT !.window[Cell(w, distance)] = TRUE]

\* The offsets whose flag is set.
Marked(w) == {d \in Offsets : At(w, d)}

\* The loop of Advance: clear the cell under the head and move the head on,
\* count times.
Clear(w, count) ==
    [winStart |-> Plus(w.winStart, count),
     head     |-> Cell(w, count),
     window   |-> [i \in Offsets |->
                     w.window[i] /\ \A d \in Offsets : d < count => i # Cell(w, d)]]

\* Mutant of Advance: the head moves on but leaves flags set behind it.
AdvanceWithoutClearing(w, count) ==
    [w EXCEPT !.winStart = Plus(@, count), !.head = Cell(w, count)]

Advance(w, count) ==
    IF count >= WinSize THEN InitWindow(Plus(w.winStart, count))
                        ELSE Clear(w, count)

=============================================================================
