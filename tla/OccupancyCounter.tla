-------------------------- MODULE OccupancyCounter --------------------------
(***************************************************************************)
(* The tracker of src/src/OccupancyCounter.cpp: process_frame stores what  *)
(* was seen in a frame in a ring of past frames, matches the bodies of an  *)
(* EARLIER frame (5 frames back, so that a glitch can be recognised by its *)
(* neighbours) with the people being tracked, derives walking directions,  *)
(* and counts and forgets people that were not seen for a while.           *)
(*                                                                         *)
(* One action, ProcessFrame, is one call of process_frame.  Its input is   *)
(* what image processing extracts from a frame: the warmer side of the     *)
(* doorway and the centres of at most two bodies.                          *)
(*                                                                         *)
(* Data left out: pixels, temperatures, contours and logging.  A           *)
(* trajectory keeps the side of each body and not its cx: the "distances"  *)
(* of lines 769-774 are signed and to the same point, so comparing them    *)
(* compares the cx of the two bodies of the frame.  status_ is left out:   *)
(* it is set to LEFT only right before the person is erased (509-510).     *)
(***************************************************************************)
EXTENDS Integers, Sequences, FiniteSets, FiniteSetsExt

CONSTANTS
    HISTORY_LENGTH,     \* size of the ring frames[] (10000)
    WINDOW_SIZE,        \* how far correct_frame looks for a valid frame (10)
    TRAJECTORY_LENGTH,  \* entries after which a trajectory is cut (100000)
    DETECTION_DELAY,    \* frames without a match before a person is dropped (3)
    BACKGROUND_FRAMES,  \* frames averaged into the background (250)
    START_FRAME,        \* first frame processed; 0 in live mode
    END_FRAME,          \* last frame processed when reading a file (20000)
    OPOSITE_DIRECTION,  \* left to right enters rather than leaves
    MatchDelay,         \* the literal 5 of lines 505, 616 and 617
    LookBack,           \* frames create_new_person looks at: 11 (count <= 10)
    Cols,               \* columns of a frame
    PeopleAtStart,      \* the count given with -p
    Scenes              \* the inputs: what a frame may show

LEFTSIDE == "LEFTSIDE"
RIGHTSIDE == "RIGHTSIDE"
UNKNOWNSIDE == "UNKNOWNSIDE"
FrameSide == {LEFTSIDE, RIGHTSIDE, UNKNOWNSIDE}
Direction == {"UNKNOWNDIR", "LtoR", "RtoL"}
Counted == {"NOTYET", "LR", "RL"}

\* A scene: the side of find_frame_side, the cx of each body found.
IsScene(s) == s.side \in FrameSide /\ s.cxs \in Seq(Nat) /\ Len(s.cxs) <= 2

ASSUME TrackerAssumption ==
    /\ {HISTORY_LENGTH, WINDOW_SIZE, TRAJECTORY_LENGTH, DETECTION_DELAY,
        BACKGROUND_FRAMES, START_FRAME, END_FRAME, MatchDelay, LookBack, Cols} \subseteq Nat
    /\ HISTORY_LENGTH > LookBack + MatchDelay
    /\ HISTORY_LENGTH > WINDOW_SIZE + MatchDelay + 1
    /\ MatchDelay > 0 /\ TRAJECTORY_LENGTH > 0
    /\ OPOSITE_DIRECTION \in BOOLEAN
    /\ PeopleAtStart \in Int
    /\ \A s \in Scenes : IsScene(s)

VARIABLES
    frameN,         \* the frame the next call processes
    frames,         \* the ring of past frames
    people,         \* the tracked persons by static_id, i.e. in vector order
    capacity,       \* allocated room of the vector people
    total_people,   \* the next static_id
    people_inside,  \* the occupancy count
    wentLR, wentRL  \* history: the static_ids counted in each direction

vars == <<frameN, frames, people, capacity, total_people, people_inside, wentLR, wentRL>>

\* frames[] belongs to a static object: zeroed before main() runs.
NoFrameYet == [frameN |-> 0, side |-> LEFTSIDE, valid |-> FALSE, found_bodies |-> <<>>]

Init ==
    /\ frameN = START_FRAME
    /\ frames = [i \in 0..HISTORY_LENGTH-1 |-> NoFrameYet]
    /\ people = <<>>
    /\ capacity = 0
    /\ total_people = 0
    /\ people_inside = PeopleAtStart
    /\ wentLR = {}
    /\ wentRL = {}
-----------------------------------------------------------------------------
(* Trajectories, a map from frame number to what was seen.                 *)

\* m[k] = v
Record(m, k, v) == [i \in DOMAIN m \cup {k} |-> IF i = k THEN v ELSE m[i]]

First(p) == p.trajectory[Min(DOMAIN p.trajectory)]    \* trajectory.begin()->second.side
LastKey(p) == Max(DOMAIN p.trajectory)                \* trajectory.rbegin()->first
Last(p) == p.trajectory[LastKey(p)]                   \* trajectory.rbegin()->second.side

Opposite(s, t) == {s, t} = {LEFTSIDE, RIGHTSIDE}
Origin(d) == IF d = "LtoR" THEN LEFTSIDE ELSE RIGHTSIDE
-----------------------------------------------------------------------------
(* The ring.                                                               *)

\* The slot c frames before frame n, and the slot after it.
Back(n, c) == (n - c) % HISTORY_LENGTH
Slot(n) == n % HISTORY_LENGTH

NumBodies(frame) == Len(frame.found_bodies)

\* assign_side_to_bodies: a lone body has the side of the frame, two bodies
\* have the half of the frame their centre lies in.
BodiesOf(scene) ==
    [k \in 1..Len(scene.cxs) |->
        [cx |-> scene.cxs[k],
         side |-> IF Len(scene.cxs) = 1 THEN scene.side
                  ELSE IF scene.cxs[k] <= Cols \div 2 THEN LEFTSIDE ELSE RIGHTSIDE]]

\* check_by_histogram sees nobody while the background is being learned.
SeesPeople(n) == n >= BACKGROUND_FRAMES + START_FRAME

\* The Frame that process_frame stores.
FrameOf(n, scene) ==
    [frameN |-> n, side |-> scene.side, valid |-> TRUE,
     found_bodies |-> IF SeesPeople(n) THEN BodiesOf(scene) ELSE <<>>]

\* correct_frame: the nearest valid slot before idx, at most WINDOW_SIZE + 1 back.
PreviousValid(ring, idx) ==
    LET valid == {c \in 1..WINDOW_SIZE : ring[Back(idx, c)].valid}
    IN Back(idx, IF valid = {} THEN WINDOW_SIZE + 1 ELSE Min(valid))

\* Mutant of IsGlitch: correct_frame accepts every frame.
M_IsGlitchNever(ring, idx) == FALSE

\* correct_frame: the number of bodies differs from the next frame although
\* the frames around agree.
IsGlitch(ring, idx) ==
    LET next == NumBodies(ring[Slot(idx + 1)])
    IN /\ NumBodies(ring[idx]) # next
       /\ NumBodies(ring[PreviousValid(ring, idx)]) = next

\* correct_frame, the answer and the effect.
IsCorrect(ring, idx) == ring[idx].valid /\ ~IsGlitch(ring, idx)
Corrected(ring, idx) == [ring EXCEPT ![idx].valid = IsCorrect(ring, idx)]

\* The side create_new_person falls back on: the last known one before key.
SideBefore(ring, key) ==
    LET known == {c \in 1..LookBack : /\ ring[Back(key, c)].valid
                                      /\ ring[Back(key, c)].side # UNKNOWNSIDE}
    IN IF known = {} THEN UNKNOWNSIDE ELSE ring[Back(key, Min(known))].side
-----------------------------------------------------------------------------
(* Matching.  T is the tracker: [people, total_people, capacity].          *)

\* T with other people.
With(T, P) == [people |-> P, total_people |-> T.total_people, capacity |-> T.capacity]

NewPerson(side, key) ==
    [trajectory |-> [k \in {key} |-> side], direction_ |-> "UNKNOWNDIR",
     counted_ |-> "NOTYET", start |-> side]

\* The capacity after a push_back on a vector of size n.
Grown(n, c) == IF n < c THEN c ELSE IF c = 0 THEN 1 ELSE 2 * c

\* create_new_person
Create(T, ring, b, key) ==
    LET side == IF b.side = UNKNOWNSIDE THEN SideBefore(ring, key) ELSE b.side
    IN IF side = UNKNOWNSIDE THEN T
       ELSE [people |-> Record(T.people, T.total_people, NewPerson(side, key)),
             total_people |-> T.total_people + 1,
             capacity |-> Grown(Cardinality(DOMAIN T.people), T.capacity)]

\* people.at(i).trajectory[key] = b
Extend(T, i, b, key) ==
    With(T, Record(T.people, i, [T.people[i] EXCEPT !.trajectory = Record(@, key, b.side)]))

is_match(p, b) ==
    \/ p.direction_ = "UNKNOWNDIR"
    \/ p.direction_ = "LtoR" /\ b.side = RIGHTSIDE
    \/ p.direction_ = "RtoL" /\ b.side = LEFTSIDE

Undirected(T) == {i \in DOMAIN T.people : T.people[i].direction_ = "UNKNOWNDIR"}

\* One body, one person (630-638).
OneOne(T, ring, b, f) ==
    LET i == Min(DOMAIN T.people)
    IN IF is_match(T.people[i], b) THEN Extend(T, i, b, f.frameN)
       ELSE Create(T, ring, b, f.frameN)

\* Mutant of TwoOne: every candidate gets the body, if for else if.
M_TwoOneAll(T, ring, b, n) ==
    LET ids == DOMAIN T.people
        candidates == {i \in Undirected(T) : First(T.people[i]) # b.side}
        given(i) == [T.people[i] EXCEPT !.trajectory = Record(@, n, b.side)]
    IN With(T, [i \in ids |-> IF i \in candidates THEN given(i) ELSE T.people[i]])

\* One body, two persons (640-696): the first candidate gets the body.
TwoOne(T, ring, b, n) ==
    LET ids == DOMAIN T.people
        candidates ==
            IF Undirected(T) = ids THEN {i \in ids : First(T.people[i]) # b.side}
            ELSE IF Undirected(T) = {} THEN {i \in ids : is_match(T.people[i], b)}
            ELSE Undirected(T)
    IN IF candidates # {} THEN Extend(T, Min(candidates), b, n)
       ELSE IF Undirected(T) = {} THEN Create(T, ring, b, n) ELSE T

\* Two bodies, one person (707-761): one body is the person, the other one a
\* newcomer.  The index of the newcomer, or 0 when neither fits.
Newcomer(p, bs) ==
    IF p.direction_ = "UNKNOWNDIR"
    THEN IF Opposite(bs[1].side, First(p)) THEN 2
         ELSE IF Opposite(bs[2].side, First(p)) THEN 1 ELSE 0
    ELSE IF bs[2].side = Origin(p.direction_) THEN 2
         ELSE IF bs[1].side = Origin(p.direction_) THEN 1 ELSE 0

OneTwo(T, ring, bs, n) ==
    LET i == Min(DOMAIN T.people)
        w == Newcomer(T.people[i], bs)
    IN IF w = 0 THEN T ELSE Create(Extend(T, i, bs[3 - w], n), ring, bs[w], n)

\* A new person for each body on the given side (815-822 and 825-832).
CreateOn(T, ring, bs, side, n) ==
    LET one == IF bs[1].side = side THEN Create(T, ring, bs[1], n) ELSE T
    IN IF bs[2].side = side THEN Create(one, ring, bs[2], n) ELSE one

\* Two bodies, two persons (762-868).  Line 824 reads p1 and p2 again after
\* line 816 or 820 may have reallocated the vector they refer into; stale says
\* that it then finds RtoL in both.
TwoTwo(T, ring, bs, n, stale) ==
    LET p1 == Min(DOMAIN T.people)
        p2 == Max(DOMAIN T.people)
        directions == {T.people[p1].direction_, T.people[p2].direction_}
        newLeft == CreateOn(T, ring, bs, LEFTSIDE, n)
        near == IF bs[1].cx <= bs[2].cx THEN 1 ELSE 2
    IN CASE "UNKNOWNDIR" \in directions ->
                Extend(Extend(T, p1, bs[near], n), p2, bs[3 - near], n)
         [] directions = {"LtoR"} ->
                IF stale /\ newLeft.capacity # T.capacity
                THEN CreateOn(newLeft, ring, bs, RIGHTSIDE, n) ELSE newLeft
         [] directions = {"RtoL"} -> CreateOn(T, ring, bs, RIGHTSIDE, n)
         [] OTHER -> T

\* Mutant of TwoBodies: both people are created from the first body.
M_TwoBodiesSame(T, ring, f, n, stale) ==
    LET bs == f.found_bodies
        S == IF DOMAIN T.people # {} THEN T
             ELSE Create(Create(T, ring, bs[1], f.frameN), ring, bs[1], f.frameN)
    IN CASE Cardinality(DOMAIN S.people) = 1 -> OneTwo(S, ring, bs, n)
         [] Cardinality(DOMAIN S.people) = 2 -> TwoTwo(S, ring, bs, n, stale)
         [] OTHER -> S

\* Two bodies (701-870): two people created from an empty scene are matched
\* with the same two bodies once more.
TwoBodies(T, ring, f, n, stale) ==
    LET bs == f.found_bodies
        S == IF DOMAIN T.people # {} THEN T
             ELSE Create(Create(T, ring, bs[1], f.frameN), ring, bs[2], f.frameN)
    IN CASE Cardinality(DOMAIN S.people) = 1 -> OneTwo(S, ring, bs, n)
         [] Cardinality(DOMAIN S.people) = 2 -> TwoTwo(S, ring, bs, n, stale)
         [] OTHER -> S

OneBody(T, ring, f, n) ==
    LET b == f.found_bodies[1]
        size == Cardinality(DOMAIN T.people)
    IN CASE size = 0 -> Create(T, ring, b, f.frameN)
         [] size = 1 -> OneOne(T, ring, b, f)
         [] size = 2 -> TwoOne(T, ring, b, n)
         [] OTHER -> T

\* Mutant of DirectionOf: a known direction is derived again.
M_DirectionOfAgain(p) ==
    IF Opposite(First(p), Last(p))
    THEN IF First(p) = LEFTSIDE THEN "LtoR" ELSE "RtoL"
    ELSE p.direction_

\* update_people_direction
DirectionOf(p) ==
    IF p.direction_ = "UNKNOWNDIR" /\ Opposite(First(p), Last(p))
    THEN IF First(p) = LEFTSIDE THEN "LtoR" ELSE "RtoL"
    ELSE p.direction_

Directed(P) == [i \in DOMAIN P |-> [P[i] EXCEPT !.direction_ = DirectionOf(P[i])]]

\* match_body_person: the frame looked at is MatchDelay back.
Delayed(ring, n) == ring[Back(n, MatchDelay)]

Matched(T, ring, n, stale) ==
    LET f == Delayed(ring, n)
    IN IF ~IsCorrect(ring, Slot(f.frameN)) \/ NumBodies(f) = 0 THEN T
       ELSE LET M == IF NumBodies(f) = 1 THEN OneBody(T, ring, f, n)
                     ELSE TwoBodies(T, ring, f, n, stale)
            IN With(M, Directed(M.people))
-----------------------------------------------------------------------------
(* update_people_status: the loop goes from the last person to the first.  *)

\* Mutant of Countable: the test of counted_ is missing.
M_CountableAgain(p) == p.direction_ # "UNKNOWNDIR"

\* check_trajectory has something to count.
Countable(p) ==
    \/ p.direction_ = "LtoR" /\ p.counted_ # "LR"
    \/ p.direction_ = "RtoL" /\ p.counted_ # "RL"

IsLong(p) == Cardinality(DOMAIN p.trajectory) >= TRAJECTORY_LENGTH

IsLate(p, n) == n - LastKey(p) - MatchDelay >= DETECTION_DELAY

\* Mutant of Crowded: > 3 for > 2.
M_CrowdedThree(P, E, i) == Cardinality(DOMAIN P) - Cardinality({j \in E : j > i}) > 3

\* people.size() > 2 when the loop reaches i, having erased E above it.
Crowded(P, E, i) == Cardinality(DOMAIN P) - Cardinality({j \in E : j > i}) > 2

\* Mutant of ErasedBy: the delay counts from the first entry, begin() for rbegin().
M_ErasedByFirst(P, n, E) ==
    E = {i \in DOMAIN P :
            /\ ~IsLong(P[i])
            /\ \/ n - Min(DOMAIN P[i].trajectory) - MatchDelay >= DETECTION_DELAY
               \/ Countable(P[i]) /\ Crowded(P, E, i)}

\* E is the set of persons the loop erases.
ErasedBy(P, n, E) ==
    E = {i \in DOMAIN P :
            /\ ~IsLong(P[i])
            /\ \/ IsLate(P[i], n)
               \/ Countable(P[i]) /\ Crowded(P, E, i)}

\* Mutant of Tally: check_trajectory is not called for late persons.
M_TallyNotLate(P, E) == {i \in DOMAIN P : Countable(P[i]) /\ IsLong(P[i])}

\* The persons check_trajectory counts.
Tally(P, E) == {i \in DOMAIN P : Countable(P[i]) /\ (IsLong(P[i]) \/ i \in E)}

\* trajectory.erase(begin, --end): the last entry remains.
Cut(p) == [k \in {LastKey(p)} |-> p.trajectory[k]]

\* counted_ after check_trajectory.
Mark(p) == IF ~Countable(p) THEN p.counted_ ELSE IF p.direction_ = "LtoR" THEN "LR" ELSE "RL"

\* The persons kept, long trajectories cut.
Kept(P, E) ==
    [i \in DOMAIN P \ E |->
        IF IsLong(P[i])
        THEN [P[i] EXCEPT !.trajectory = Cut(P[i]), !.counted_ = Mark(P[i])]
        ELSE P[i]]

Crossing(P, C, d) == {i \in C : P[i].direction_ = d}

\* process_frame
ProcessFrame(scene, stale) ==
    LET n == frameN
        ring == [frames EXCEPT ![Slot(n)] = FrameOf(n, scene)]
        idx == Slot(Delayed(ring, n).frameN)
        T == Matched([people |-> people, total_people |-> total_people, capacity |-> capacity],
                     ring, n, stale)
    IN /\ n <= END_FRAME
       /\ frames' = Corrected(ring, idx)
       /\ total_people' = T.total_people
       /\ capacity' = T.capacity
       /\ \E E \in SUBSET DOMAIN T.people :
            LET LR == Crossing(T.people, Tally(T.people, E), "LtoR")
                RL == Crossing(T.people, Tally(T.people, E), "RtoL")
                net == Cardinality(RL) - Cardinality(LR)
            IN /\ ErasedBy(T.people, n, E)
               /\ people' = Kept(T.people, E)
               /\ people_inside' = people_inside + (IF OPOSITE_DIRECTION THEN -net ELSE net)
               /\ wentLR' = wentLR \cup LR
               /\ wentRL' = wentRL \cup RL
       /\ frameN' = n + 1

Next == \E scene \in Scenes, stale \in BOOLEAN : ProcessFrame(scene, stale)

Spec == Init /\ [][Next]_vars
-----------------------------------------------------------------------------
\* n bounds the frame numbers.
IsTrajectory(t, n) ==
    /\ DOMAIN t \subseteq 0..n-1 /\ DOMAIN t # {}
    /\ t \in [DOMAIN t -> FrameSide]

IsPerson(p, n) ==
    /\ p = [trajectory |-> p.trajectory, direction_ |-> p.direction_,
            counted_ |-> p.counted_, start |-> p.start]
    /\ IsTrajectory(p.trajectory, n)
    /\ p.direction_ \in Direction
    /\ p.counted_ \in Counted
    /\ p.start \in {LEFTSIDE, RIGHTSIDE}

Body == [cx : Nat, side : FrameSide]

IsFrame(f, n) ==
    /\ f = [frameN |-> f.frameN, side |-> f.side, valid |-> f.valid,
            found_bodies |-> f.found_bodies]
    /\ f.frameN \in 0..n /\ f.side \in FrameSide /\ f.valid \in BOOLEAN
    /\ Len(f.found_bodies) \in 0..2
    /\ f.found_bodies \in [1..Len(f.found_bodies) -> Body]

TypeOK ==
    /\ frameN \in Nat
    /\ frames = [i \in 0..HISTORY_LENGTH-1 |-> frames[i]]
    /\ \A i \in 0..HISTORY_LENGTH-1 : IsFrame(frames[i], frameN)
    /\ total_people \in Nat
    /\ DOMAIN people \subseteq 0..total_people-1
    /\ \A i \in DOMAIN people : IsPerson(people[i], frameN)
    /\ capacity \in Nat
    /\ people_inside \in Int
    /\ wentLR \subseteq 0..total_people-1
    /\ wentRL \subseteq 0..total_people-1

\* The count is the count at the start plus the people who entered minus the
\* people who left, each once: although check_trajectory may run several times
\* for one person, when its trajectory is cut and when it is dropped
\* (454-484, 499-507), nobody changes the count twice.
CountIsNetOfCrossings ==
    LET net == Cardinality(wentRL) - Cardinality(wentLR)
    IN people_inside = PeopleAtStart + (IF OPOSITE_DIRECTION THEN -net ELSE net)

\* Nobody is counted both as entering and as leaving (454-480).
NobodyCountedBothWays == wentLR \cap wentRL = {}

\* Whoever was counted and is still tracked is marked with the direction it was
\* counted in: without the mark it would be counted again when it is dropped
\* (457-458, 469-470).
CountedIsMarked ==
    \A i \in DOMAIN people :
        /\ i \in wentLR => people[i].counted_ = "LR" /\ people[i].direction_ = "LtoR"
        /\ i \in wentRL => people[i].counted_ = "RL" /\ people[i].direction_ = "RtoL"

\* At most two persons who have not been counted survive a frame: the matcher
\* handles no more and only prints "people size 3" otherwise (698-699).  A third
\* person is only ever created next to persons whose direction is known (684,
\* 813-833), whom update_people_status counts in the same frame (511-517); it
\* erases them too, unless their trajectory was cut and they were counted before.
AtMostTwoUncounted ==
    Cardinality({i \in DOMAIN people : people[i].counted_ = "NOTYET"}) <= 2

\* Whoever is dropped with a known direction has been counted in it, on every
\* path that erases a person (499-517).
DirectedTrackIsCounted ==
    [][\A i \in DOMAIN people \ DOMAIN people' :
          /\ people[i].direction_ = "LtoR" => i \in wentLR'
          /\ people[i].direction_ = "RtoL" => i \in wentRL']_vars

\* Whoever is dropped uncounted was not seen for the whole delay: a crowded
\* doorway never loses a person whose direction is still open (505, 511-517).
UncountedDropsAreStale ==
    [][\A i \in DOMAIN people \ DOMAIN people' :
          i \notin wentLR' \cup wentRL' => IsLate(people[i], frameN)]_vars

\* Two people created from an empty scene are matched with the bodies they were
\* created from once more (702-705, 762-782), and when the bodies are found from
\* right to left they turn round at once.  Such phantom crossings come in pairs
\* of opposite directions, which leave the count as it was.
NewcomersCancelOut ==
    [][LET turned(d) == {i \in DOMAIN people' \ DOMAIN people : people'[i].direction_ = d}
       IN Cardinality(turned("LtoR")) = Cardinality(turned("RtoL"))]_vars

\* A body is one person's: no more people are created or get an entry in their
\* trajectory than the delayed frame has bodies, and nobody when the frame is
\* taken for a glitch, whatever mixture of known and open directions the people
\* have (625-870).
BodyIsGivenOnce ==
    [][LET f == Delayed(frames', frameN)
           before(i) == IF i \in DOMAIN people THEN DOMAIN people[i].trajectory ELSE {}
           given == {i \in DOMAIN people' : ~(DOMAIN people'[i].trajectory \subseteq before(i))}
       IN Cardinality(given)
            <= IF frames'[Slot(f.frameN)].valid THEN NumBodies(f) ELSE 0]_vars
-----------------------------------------------------------------------------
(* What comments of the code say and the code does not do.                 *)

\* "if the person starts from left, current side is right: update Left to
\* Right" and the converse (440-444): a direction starts at the side the person
\* was first seen on.
DirectionStartsAtFirstSide ==
    \A i \in DOMAIN people :
        people[i].direction_ # "UNKNOWNDIR" => people[i].start = Origin(people[i].direction_)

\* "people contains people in the scene (computed from the past frames); we are
\* trying to match them with the bodies at the current frame" (626): a person
\* created from a frame is not matched with a body of that same frame.
NewcomersAreMatchedLater ==
    [][\A i \in DOMAIN people' \ DOMAIN people :
          people'[i].direction_ = "UNKNOWNDIR"]_vars

\* "if we know the direction of one person (P1): if current body is in the same
\* direction -> match" (645-646): of two persons, the one whose direction is
\* known gets a lone body that goes its way.
KnownDirectionIsMatched ==
    [][LET f == Delayed(frames', frameN)
           known == {i \in DOMAIN people : people[i].direction_ # "UNKNOWNDIR"}
       IN Cardinality(DOMAIN people) = 2 /\ Cardinality(known) = 1
             /\ f.valid /\ NumBodies(f) = 1
          => \A i \in known \cap DOMAIN people' :
                is_match(people[i], f.found_bodies[1])
                  => people'[i].trajectory # people[i].trajectory]_vars
=============================================================================
