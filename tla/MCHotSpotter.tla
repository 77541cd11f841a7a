---------------------------- MODULE MCHotSpotter ----------------------------
(* HotSpotter on small instances: files of frames of two rows.              *)
EXTENDS HotSpotter

\* n frames, with a blank line after the rows in blanks, and damaged rows.
DamagedFileOf(n, blanks, damaged) ==
    FlattenSeq([k \in 1..2 * n |->
        LET r == [frame |-> (k + 1) \div 2, row |-> 1 + ((k + 1) % 2), whole |-> k \notin damaged]
        IN  IF k \in blanks THEN <<r, Blank>> ELSE <<r>>])
FileOf(n, blanks) == DamagedFileOf(n, blanks, {})

Damaged ==
    {DamagedFileOf(size_, blanks, damaged) : blanks \in {{}, {2, 3}},
        damaged \in {d \in SUBSET (1..2 * size_) : Cardinality(d) \in 1..2 * (size_ - END_FRAME)}}

\* Files that fit: at least END_FRAME frames and no more than the buffer holds,
\* and some that end in the middle of a frame; damaged files that still have
\* the rows of END_FRAME frames.
Fitting ==
    {FileOf(n, blanks) : n \in END_FRAME..size_, blanks \in {{}, {1}, {2, 4, 6}, {2, 5}, 1..9}}
    \cup Damaged
TooShort == {FileOf(END_FRAME - 1, {}), Missing}
TooLong == {FileOf(size_ + 1, {})}
=============================================================================
