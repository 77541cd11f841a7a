--------------------------- MODULE BodyExtraction ---------------------------
(***************************************************************************)
(* Finding bodies in a frame: what process_frame of                        *)
(* src/src/OccupancyCounter.cpp (1328-1391) does before it stores them.    *)
(* From the first frames is_someone_there learns how the empty doorway     *)
(* looks; a later frame is only searched when it finds somebody there.     *)
(* extract_body cuts the frame, less its background, at a temperature;     *)
(* connected pixels make contours, the two biggest ones are bodies; while  *)
(* there is only one and it is too big the cut is raised.  Then the bodies *)
(* get a centre from the heat of the columns, cold ones are erased, and    *)
(* each gets a side.                                                       *)
(*                                                                         *)
(* pc: learn    the first frames                                           *)
(*     look     is_someone_there                                           *)
(*     cut      threshold_ and the start of connectedC                     *)
(*     scan     connectedC looks for a pixel nobody has reached            *)
(*     bfs      the pixels connected to it                                 *)
(*     pick     convert_contour_to_body; return or raise the cut           *)
(*     centre   extract_body has returned: find_body_center                *)
(*     filter   filter_by_body_temperature                                 *)
(*     sides    assign_side_to_bodies                                      *)
(*     done     the bodies are stored; nobody: there are none              *)
(*     crashed  a value was read from an empty vector                      *)
(*                                                                         *)
(* Columns are numbered from 1.  Pixels colder than the background, which  *)
(* subtract_ raises to 0, are left out.                                    *)
(***************************************************************************)
EXTENDS SomeoneThere, FiniteSets

CONSTANTS
    Cols, Rows,         \* the size of a frame
    Frames,             \* the frames, less the background
    EmptyFrames,        \* the first frames, less the background
    BACKGROUND_FRAMES,  \* how many these are: 250
    Background,         \* what the sensor sees of the empty doorway
    BodyWarmth,         \* of a body, above the background: the literal 4 of line 1341
    CheckLen,           \* columns find_frame_side compares: 4 of 8
    MIN_BODY_DIFF,
    MIN_BODY_AREA, MAX_BODY_AREA,   \* in percent of the frame
    MaxIndex            \* the cut is raised up to 10 times

Pixels == (1..Cols) \X (1..Rows)

LEFTSIDE == "LEFTSIDE"
RIGHTSIDE == "RIGHTSIDE"
UNKNOWNSIDE == "UNKNOWNSIDE"

ASSUME BodyAssumption ==
    /\ Cols \in Nat \ {0} /\ Rows \in Nat \ {0}
    /\ Frames \cup EmptyFrames \subseteq [Pixels -> 0..255]
    /\ EmptyFrames # {} /\ BACKGROUND_FRAMES \in Nat \ {0}
    /\ Background \in [Pixels -> 0..255]
    /\ BodyWarmth \in Nat /\ CheckLen \in 1..Cols \div 2
    /\ MIN_BODY_DIFF \in Nat /\ MaxIndex \in Nat
    /\ MIN_BODY_AREA \in 1..100 /\ MAX_BODY_AREA \in 1..100

VARIABLES
    diffs,          \* the frame less its background
    frameN,         \* how many of the first frames have been seen
    background_amp, \* the height of the histogram of the empty doorway
    index,          \* how often the cut was raised
    status,         \* of a pixel: 0 unseen, 1 in the queue, 2 in a contour
    q,              \* the queue of bfs
    result,         \* the contour bfs has found so far
    contours,       \* the contours of this cut
    found_bodies,   \* the bodies of this cut
    pc

bvars == <<frameN, background_amp>>
vars == <<diffs, bvars, index, status, q, result, contours, found_bodies, pc>>

Init ==
    /\ diffs \in EmptyFrames
    /\ frameN = 0 /\ background_amp = 0
    /\ index = 0
    /\ status = [p \in Pixels |-> 0]
    /\ q = <<>> /\ result = <<>> /\ contours = <<>> /\ found_bodies = <<>>
    /\ pc = "learn"

\* calcHist: the differences from histSize - Zero on are in no bin.
Histogram(d) == [i \in 0..histSize - 1 |-> Cardinality({p \in Pixels : d[p] = i - Zero})]

\* One of the first frames, in which nobody is looked for.
Learn ==
    /\ pc = "learn"
    /\ frameN < BACKGROUND_FRAMES
    /\ frameN' = frameN + 1
    /\ background_amp' = Learnt(background_amp, Histogram(diffs), Cols * Rows)
    /\ IF frameN' < BACKGROUND_FRAMES
       THEN diffs' \in EmptyFrames /\ UNCHANGED pc
       ELSE diffs' \in Frames /\ pc' = "look"
    /\ UNCHANGED <<index, status, q, result, contours, found_bodies>>

\* is_someone_there
Look ==
    /\ pc = "look"
    /\ pc' = IF hist_passed(Histogram(diffs), background_amp) THEN "cut" ELSE "nobody"
    /\ UNCHANGED <<diffs, bvars, index, status, q, result, contours, found_bodies>>

\* threshold_: the pixels at or above the cut.
Masked(i) == {p \in Pixels : diffs[p] >= MIN_BODY_DIFF + i}

\* The order in which loops over columns, then rows, reach pixels, and the
\* pixels of S in that order.
Before(p, r) == p[1] < r[1] \/ (p[1] = r[1] /\ p[2] < r[2])

InOrder(S) ==
    [k \in 1..Cardinality(S) |-> CHOOSE p \in S : Cardinality({r \in S : Before(r, p)}) = k - 1]

Adjacent(p, r) == p # r /\ p[1] - r[1] \in -1..1 /\ p[2] - r[2] \in -1..1

Cut ==
    /\ pc = "cut"
    /\ status' = [p \in Pixels |-> 0]
    /\ contours' = <<>>
    /\ pc' = "scan"
    /\ UNCHANGED <<diffs, bvars, index, q, result, found_bodies>>

\* connectedC: bfs starts at the next pixel of the mask that is unseen.
Scan ==
    /\ pc = "scan"
    /\ LET unseen == {p \in Masked(index) : status[p] = 0}
       IN  IF unseen = {}
           THEN pc' = "pick" /\ UNCHANGED <<status, q, result>>
           ELSE LET first == CHOOSE p \in unseen : \A r \in unseen \ {p} : Before(p, r)
                IN  /\ q' = <<first>>
                    /\ status' = [status EXCEPT ![first] = 1]
                    /\ result' = <<>>
                    /\ pc' = "bfs"
    /\ UNCHANGED <<diffs, bvars, index, contours, found_bodies>>

\* Mutant of Reached: pixels that touch at a corner are not connected.
M_ReachedCross(p) ==
    {r \in Masked(index) : Adjacent(p, r) /\ (p[1] = r[1] \/ p[2] = r[2]) /\ status[r] = 0}

\* The neighbours of p that bfs puts in the queue.
Reached(p) == {r \in Masked(index) : Adjacent(p, r) /\ status[r] = 0}

\* bfs takes a pixel from the queue.
Visit ==
    /\ pc = "bfs"
    /\ q # <<>>
    /\ LET p == Head(q)
       IN  IF status[p] = 1
           THEN /\ status' = [r \in Pixels |-> IF r = p THEN 2
                                               ELSE IF r \in Reached(p) THEN 1 ELSE status[r]]
                /\ result' = Append(result, p)
                /\ q' = Tail(q) \o InOrder(Reached(p))
           ELSE q' = Tail(q) /\ UNCHANGED <<status, result>>
    /\ UNCHANGED <<diffs, bvars, index, contours, found_bodies, pc>>

Found ==
    /\ pc = "bfs"
    /\ q = <<>>
    /\ contours' = IF Len(result) > 0 THEN Append(contours, result) ELSE contours
    /\ pc' = "scan"
    /\ UNCHANGED <<diffs, bvars, index, status, q, result, found_bodies>>

\* Areas are compared in hundredths of a pixel.
Small(c) == 100 * Len(c) < MIN_BODY_AREA * Cols * Rows
TooBig(c) == 100 * Len(c) > MAX_BODY_AREA * Cols * Rows

\* Mutant of Bigger: the biggest contour so far is forgotten when a bigger one
\* comes.
M_Bigger(two, c) ==
    IF Small(c) THEN two
    ELSE IF Len(c) > Len(two[1]) THEN <<c, two[2]>>
    ELSE IF Len(c) > Len(two[2]) THEN <<two[1], c>>
    ELSE two

\* The two biggest contours, after one more.
Bigger(two, c) ==
    IF Small(c) THEN two
    ELSE IF Len(c) > Len(two[1]) THEN <<c, two[1]>>
    ELSE IF Len(c) > Len(two[2]) THEN <<two[1], c>>
    ELSE two

Middle(minx, maxx) == (minx + maxx) \div 2

\* initBody: the middle of the columns the contour spans, rounded down.
Body(c) ==
    LET columns == {c[i][1] : i \in DOMAIN c}
        minx == CHOOSE x \in columns : \A y \in columns : x <= y
        maxx == CHOOSE x \in columns : \A y \in columns : x >= y
    IN  [cx |-> Middle(minx, maxx), contour |-> c, side |-> UNKNOWNSIDE]

convert_contour_to_body(found) ==
    LET two == FoldLeft(Bigger, <<<<>>, <<>>>>, found)
        big == Cardinality({i \in 1..2 : Len(two[i]) > 0})
    IN  [i \in 1..big |-> Body(two[i])]

\* Mutant of Enough: a body that is too big will do.
M_EnoughAny(bodies) == TRUE

\* extract_body returns: nobody, two bodies, or one that is not too big.
Enough(bodies) == Len(bodies) # 1 \/ ~TooBig(bodies[1].contour)

Pick ==
    /\ pc = "pick"
    /\ found_bodies' = convert_contour_to_body(contours)
    /\ IF Enough(found_bodies') \/ index = MaxIndex
       THEN /\ pc' = IF found_bodies' = <<>> THEN "done" ELSE "centre"
            /\ UNCHANGED index
       ELSE pc' = "cut" /\ index' = index + 1
    /\ UNCHANGED <<diffs, bvars, status, q, result, contours>>
-----------------------------------------------------------------------------
SumOver(d, S) == MapThenSumSet(LAMBDA p : d[p], S)

\* The frame as the sensor sent it.
frame == [p \in Pixels |-> Background[p] + diffs[p]]

\* hist_result of find_body_center: the heat of each column.
Hist == [x \in 1..Cols |-> SumOver(frame, {p \in Pixels : p[1] = x})]

\* 1, -1 or 0: how the histogram goes from column x - 1 to x.
Sign(h, x) == IF h[x] > h[x - 1] THEN 1 ELSE IF h[x] < h[x - 1] THEN -1 ELSE 0

\* Mutant of Trend: a column as warm as the one before resets status.
M_TrendReset(h, x) == IF x < 2 THEN 0 ELSE Sign(h, x)

\* status of find_body_center after column x: the last change.
Trend(h, x) ==
    LET changes == {y \in 2..x : h[y] # h[y - 1]}
    IN  IF changes = {} THEN 0 ELSE Sign(h, Max(changes))

\* The columns at which status changes from -s to s.
Turns(h, s) == {x \in 2..Cols : Sign(h, x) = s /\ Trend(h, x - 1) = -s}
dec_incs == Turns(Hist, 1)
inc_decs == Turns(Hist, -1)

\* inc_decs, with an end of the frame when the heat only rises or only falls.
Peaks ==
    IF inc_decs # {} THEN inc_decs
    ELSE CASE Trend(Hist, Cols) = 1 -> {Cols}
           [] Trend(Hist, Cols) = -1 -> {1}
           [] OTHER -> {}

\* found_bodies after find_body_center.
Centred ==
    LET gap == Min(dec_incs)
        peak == Min(Peaks)
    IN  CASE Len(found_bodies) = 2 /\ Cardinality(dec_incs) = 1 ->
                [found_bodies EXCEPT ![1].cx = gap - 1, ![2].cx = gap + 1]
          [] Len(found_bodies) = 1 /\ Cardinality(Peaks) = 1 ->
                [found_bodies EXCEPT ![1].cx = peak]
          [] OTHER -> found_bodies

\* find_body_center.  With one body and columns of equal heat it reads the
\* first element of an empty vector.
Centre ==
    /\ pc = "centre"
    /\ IF Len(found_bodies) = 1 /\ Peaks = {}
       THEN pc' = "crashed" /\ UNCHANGED found_bodies
       ELSE pc' = "filter" /\ found_bodies' = Centred
    /\ UNCHANGED <<diffs, bvars, index, status, q, result, contours>>

\* The truncated mean of d over S.
Mean(d, S) == SumOver(d, S) \div Cardinality(S)

min_body_temp_ == Mean(Background, Pixels) + BodyWarmth

\* filter_by_body_temperature
Filter ==
    /\ pc = "filter"
    /\ found_bodies' =
            SelectSeq(found_bodies, LAMBDA b : Mean(frame, ToSet(b.contour)) > min_body_temp_)
    /\ pc' = "sides"
    /\ UNCHANGED <<diffs, bvars, index, status, q, result, contours>>

\* Mutant of RightColumns: > for >=.
M_RightColumns(k) == {p \in Pixels : p[1] > k /\ p[1] > Cols - k + 1}

\* The k columns at either end.
LeftColumns(k) == {p \in Pixels : p[1] <= k}
RightColumns(k) == {p \in Pixels : p[1] > k /\ p[1] > Cols - k}

\* avg_left_heat - avg_right_heat; the averages are truncated.
Lean(d, k) ==
    (SumOver(d, LeftColumns(k)) \div (k * Rows)) - (SumOver(d, RightColumns(k)) \div (k * Rows))

\* find_frame_side: the fewest columns whose averages differ by 1.25, that is
\* by 2, decide.
SideOf(d) ==
    LET clear == {k \in 1..CheckLen : Lean(d, k) \notin -1..1}
    IN  IF clear = {} THEN UNKNOWNSIDE
        ELSE IF Lean(d, Min(clear)) > 0 THEN LEFTSIDE ELSE RIGHTSIDE

\* assign_side_to_bodies
AssignSides ==
    /\ pc = "sides"
    /\ found_bodies' =
            [i \in DOMAIN found_bodies |->
                [found_bodies[i] EXCEPT !.side =
                    IF Len(found_bodies) = 1 THEN SideOf(diffs)
                    ELSE IF found_bodies[i].cx - 1 <= Cols \div 2 THEN LEFTSIDE ELSE RIGHTSIDE]]
    /\ pc' = "done"
    /\ UNCHANGED <<diffs, bvars, index, status, q, result, contours>>

Next == Learn \/ Look \/ Cut \/ Scan \/ Visit \/ Found \/ Pick \/ Centre \/ Filter \/ AssignSides

Spec == Init /\ [][Next]_vars
-----------------------------------------------------------------------------
Points(c) == {c[i] : i \in DOMAIN c}

TypeOK ==
    /\ index \in 0..MaxIndex
    /\ status \in [Pixels -> 0..2]
    /\ Points(q) \subseteq Pixels /\ Points(result) \subseteq Pixels
    /\ \A c \in ToSet(contours) : c # <<>> /\ Points(c) \subseteq Pixels
    /\ Len(found_bodies) <= 2 /\ \A b \in ToSet(found_bodies) : b.cx \in 1..Cols + 1
    /\ frameN \in 0..BACKGROUND_FRAMES /\ background_amp \in 0..Cols * Rows
    /\ pc \in {"learn", "look", "nobody", "cut", "scan", "bfs", "pick", "centre", "filter",
               "sides", "done", "crashed"}

\* The temperatures at which more pixels are than at those next to them: lo to
\* hi, when as many are at each.
Counts(t) == Cardinality({p \in Pixels : diffs[p] = t})
Warmest == Max({diffs[p] : p \in Pixels})
Modes == {m \in (0..Warmest) \X (0..Warmest) :
            /\ m[1] <= m[2] /\ \A t \in m[1]..m[2] : Counts(t) = Counts(m[1])
            /\ Counts(m[1] - 1) < Counts(m[1]) /\ Counts(m[2] + 1) < Counts(m[2])}

\* A frame is searched just when somebody warmer than the doorway stands out:
\* two pixels make a second mode above the main one, or the one mode is low
\* because temperatures spread (257-276); whatever the shape of the histogram
\* and with no trace of the pulses before.
SearchedIfSomeoneStandsOut ==
    pc \in {"cut", "nobody"} /\ index = 0 =>
        LET top == Max({Counts(m[1]) : m \in Modes})
            main == CHOOSE m \in Modes :
                        /\ Counts(m[1]) = top
                        /\ \A n \in Modes : Counts(n[1]) = top => m[1] <= n[1]
            warmer == {m \in Modes : m[1] > main[2]}
        IN  pc = "cut" <=>
                IF warmer # {} THEN \E m \in warmer : Counts(m[1]) >= 2
                ELSE 10 * top <= 3 * background_amp

\* A set of pixels that cannot be split in two that do not touch.
IsConnected(S) ==
    \A T \in (SUBSET S) \ {{}, S} : \E p \in T, r \in S \ T : Adjacent(p, r)

\* The contours are the connected components of the mask: each in one piece,
\* no two touch, every pixel of the mask is in one of them, and in it once
\* (1094-1161).
ContoursAreComponents ==
    pc = "pick" =>
        /\ UNION {Points(c) : c \in ToSet(contours)} = Masked(index)
        /\ \A i \in DOMAIN contours :
              /\ IsConnected(Points(contours[i]))
              /\ Cardinality(Points(contours[i])) = Len(contours[i])
              /\ \A j \in DOMAIN contours \ {i} : \A p \in Points(contours[i]) :
                    \A r \in Points(contours[j]) : p # r /\ ~Adjacent(p, r)

\* The bodies are the two biggest contours: the bigger one first, none too
\* small, and no contour left out is bigger than one taken (1017-1048).
BodiesAreTheBiggest ==
    pc = "centre" =>
        LET taken == {b.contour : b \in ToSet(found_bodies)}
            fit == {c \in ToSet(contours) : ~Small(c)}
            left == fit \ taken
        IN  /\ taken \subseteq fit
            /\ Len(found_bodies) = Cardinality(taken)
            /\ left # {} => Len(found_bodies) = 2
            /\ \A b \in taken, c \in left : Len(c) <= Len(b)
            /\ Len(found_bodies) = 2 =>
                  Len(found_bodies[1].contour) >= Len(found_bodies[2].contour)

\* The big components of the mask at cut i, and whether there is just one and
\* it is too big.
Components(i) ==
    {S \in SUBSET Masked(i) : S # {} /\ IsConnected(S)
        /\ \A p \in S, r \in Masked(i) \ S : ~Adjacent(p, r)}
OneTooBig(i) ==
    LET fit == {S \in Components(i) : 100 * Cardinality(S) >= MIN_BODY_AREA * Cols * Rows}
    IN  Cardinality(fit) = 1 /\ \A S \in fit : 100 * Cardinality(S) > MAX_BODY_AREA * Cols * Rows

\* The cut that is used is the lowest one that does not leave a single body that
\* is too big, or the last one (1201-1217).
LowestCutIsUsed ==
    pc = "centre" =>
        /\ \A i \in 0..index - 1 : OneTooBig(i)
        /\ index < MaxIndex => ~OneTooBig(index)

\* No column is colder than one on either side of it.
SinglePeaked(h) ==
    \A x, y, z \in 1..Cols : x < y /\ y < z => ~(h[y] < h[x] /\ h[y] < h[z])

\* When the heat of the columns has one peak, a lone body is placed in the
\* warmest column or right behind the last such one (1231-1300).
CentreIsAtThePeak ==
    pc = "filter" /\ Len(found_bodies) = 1 /\ SinglePeaked(Hist) =>
        LET warmest == {x \in 1..Cols : \A y \in 1..Cols : Hist[y] <= Hist[x]}
            cx == found_bodies[1].cx
        IN  cx \in warmest \/ cx - 1 \in warmest

Mirrored(d) == [p \in Pixels |-> d[<<Cols + 1 - p[1], p[2]>>]]
OtherSide(side) ==
    CASE side = LEFTSIDE -> RIGHTSIDE [] side = RIGHTSIDE -> LEFTSIDE [] OTHER -> UNKNOWNSIDE

\* A frame seen in a mirror has the other side, so that nobody's direction
\* depends on which way the sensor is turned (937-976).
SidesAreSymmetric == pc = "sides" => SideOf(Mirrored(diffs)) = OtherSide(SideOf(diffs))

\* A lone body always has a centre (1284-1290).
CentreIsDefined == pc # "crashed"
=============================================================================
