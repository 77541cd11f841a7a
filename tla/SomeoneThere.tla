---------------------------- MODULE SomeoneThere ----------------------------
(***************************************************************************)
(* check_by_histogram of src/src/OccupancyCounter.cpp (94-277): whether a  *)
(* frame shows somebody, from the histogram of its temperatures above the  *)
(* background.  h[i] is how many pixels are in bin i.                      *)
(***************************************************************************)
EXTENDS Integers, Sequences, SequencesExt, FiniteSetsExt

CONSTANTS
    histSize,       \* bins, of one unit each: 50
    Zero            \* the bin of the difference 0: 10, the histogram starts at -10

ASSUME HistogramAssumption == Zero \in Nat \ {0} /\ histSize \in Nat /\ Zero < histSize

Histograms == [0..histSize - 1 -> Nat]

\* The loop over the bins (171-206): the bin before, whether the histogram was
\* last rising (1) or falling (-1), how high the present pulse is, the pulses
\* that ended and the highest bin.
Start(h) == [pre |-> h[0], status |-> 0, amp |-> -1, pulses |-> <<>>, top |-> 0]

\* Mutant of Ends: a pulse ends as soon as the histogram falls.
M_EndsEarly(s, val) == val < s.pre /\ s.status = 1

\* A pulse ends where the histogram, having fallen, rises again.
Ends(s, val) == val > s.pre /\ s.status = -1

Bin(s, val, i) ==
    LET amp == Max({val, IF Ends(s, val) THEN -1 ELSE s.amp})
    IN  [pre |-> val,
         status |-> IF val > s.pre THEN 1 ELSE IF val < s.pre THEN -1 ELSE s.status,
         amp |-> amp,
         pulses |-> IF Ends(s, val) THEN Append(s.pulses, [end |-> i - 1, amp |-> s.amp])
                    ELSE s.pulses,
         top |-> Max({s.top, amp})]

Walk(h) == FoldLeft(LAMBDA s, i : Bin(s, h[i], i), Start(h), [i \in 1..histSize - 1 |-> i])

\* new_peaks: a pulse that is falling at the last bin ends there (207-213).
new_peaks(h) ==
    LET s == Walk(h)
    IN  IF s.status = -1 THEN Append(s.pulses, [end |-> histSize, amp |-> s.amp]) ELSE s.pulses

\* The first of the highest pulses; 0 when the highest bin is in no pulse that
\* ended (230-239).
new_max_pulse_index(h) ==
    LET highest == {i \in DOMAIN new_peaks(h) : new_peaks(h)[i].amp = Walk(h).top}
    IN  IF highest = {} THEN 0 ELSE Min(highest)

new_distribution_width(h) ==
    LET m == new_max_pulse_index(h)
    IN  IF m = 0 THEN 0 ELSE Last(new_peaks(h)).end - new_peaks(h)[m].end - 1

\* global_max_amplitude: the highest bin, -10 when all are empty (133-168).
global_max_amplitude(h) == IF \A i \in DOMAIN h : h[i] = 0 THEN -10 ELSE Max({h[i] : i \in DOMAIN h})

\* background_amp after one of the first frames, in which nobody is seen; a
\* frame whose pixels are all equal does not count (251-254).
Learnt(amp, h, pixels) ==
    LET g == global_max_amplitude(h) IN IF amp < g /\ g # pixels THEN g ELSE amp

\* hist_passed: beside the highest pulse there is a warmer one of two pixels, or
\* there is no warmer one and the highest is far below that of the empty
\* doorway (257-276).
hist_passed(h, background_amp) ==
    LET warmer == {i \in DOMAIN new_peaks(h) : i > new_max_pulse_index(h)}
    IN  IF new_distribution_width(h) > 0
        THEN \E i \in warmer : new_peaks(h)[i].amp >= 2
        ELSE 10 * Walk(h).top <= 3 * background_amp
=============================================================================
