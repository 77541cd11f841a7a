-------------------------- MODULE MCBodyExtraction --------------------------
(* BodyExtraction on frames of five columns and two rows: room for three    *)
(* bodies, and for a column heat with two peaks.                             *)
EXTENDS BodyExtraction

\* The temperatures of a column, above the background.
ColumnHeats == {<<0, 0>>, <<0, 1>>, <<1, 0>>, <<1, 1>>, <<1, 3>>, <<3, 0>>, <<3, 3>>}

Frame(columns) == [p \in Pixels |-> columns[p[1]][p[2]]]
SmallFrames == {Frame(columns) : columns \in [1..Cols -> ColumnHeats]}

\* Every column has a temperature of its own: a low histogram with one mode.
Spread == {Frame([x \in 1..Cols |-> <<heat[x], heat[x]>>]) :
            heat \in {f \in [1..Cols -> 0..4] : \A x, y \in 1..Cols : f[x] = f[y] => x = y}}

AllFrames == SmallFrames \cup Spread

\* The empty doorway: even, or a little warmer in three pixels.
Doorway ==
    {[p \in Pixels |-> 0], [p \in Pixels |-> IF p[1] = 1 \/ p = <<2, 1>> THEN 1 ELSE 0]}

\* One column is too warm for the histogram.
HotFrames == {Frame([x \in 1..Cols |-> IF x = c THEN <<6, 6>> ELSE <<0, 0>>]) : c \in 1..Cols}

\* The doorway is warmer at one end.
WarmEnd == [p \in Pixels |-> IF p[1] = 1 THEN 3 ELSE 2]
=============================================================================
