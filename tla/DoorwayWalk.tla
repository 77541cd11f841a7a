----------------------------- MODULE DoorwayWalk -----------------------------
(***************************************************************************)
(* The tracker of OccupancyCounter.tla behind a doorway people walk through *)
(* one at a time: what the whole program is for is that people_inside then  *)
(* follows the truth.  The doorway is the environment: it decides what each *)
(* frame shows.  A visitor is seen on the near side, perhaps undecided in   *)
(* the middle, then on the far side, and is gone; or turns back before      *)
(* reaching the far side.  A frame inside a visit may be a glitch: it shows *)
(* nobody, or two bodies (correct_frame, OccupancyCounter.cpp:587-614, is   *)
(* there to ignore such frames).                                           *)
(***************************************************************************)
EXTENDS OccupancyCounter

CONSTANTS
    MinSighting,    \* frames a visitor is seen at least on a side
    Gap,            \* empty frames at least between two visitors
    MaxAge,         \* bound: age stops counting here
    MaxVisits,      \* bound: visitors in a behaviour
    MaxGlitches     \* bound: glitches in a behaviour

ASSUME WalkAssumption ==
    /\ {MinSighting, Gap, MaxAge, MaxVisits, MaxGlitches} \subseteq Nat
    /\ MinSighting <= MaxAge /\ Gap <= MaxAge

VARIABLES
    phase,      \* what is going on in the doorway
    age,        \* frames the phase has lasted, up to MaxAge
    from,       \* the side the visitor came from
    visits,     \* visitors so far
    glitches,   \* glitches so far
    truth       \* the number of people really inside

walkVars == <<vars, phase, age, from, visits, glitches, truth>>

WalkInit ==
    /\ Init
    /\ phase = "empty"
    /\ age = MaxAge
    /\ from = LEFTSIDE
    /\ visits = 0
    /\ glitches = 0
    /\ truth = PeopleAtStart

Other(side) == IF side = LEFTSIDE THEN RIGHTSIDE ELSE LEFTSIDE

\* What a frame shows in each phase.
View(ph, side) ==
    CASE ph = "empty"  -> [side |-> UNKNOWNSIDE, cxs |-> <<>>]
      [] ph = "near"   -> [side |-> side, cxs |-> <<Cols \div 2>>]
      [] ph = "middle" -> [side |-> UNKNOWNSIDE, cxs |-> <<Cols \div 2>>]
      [] ph = "far"    -> [side |-> Other(side), cxs |-> <<Cols \div 2>>]

Glitched == {[side |-> UNKNOWNSIDE, cxs |-> <<>>],
             [side |-> UNKNOWNSIDE, cxs |-> <<1, Cols - 1>>],
             [side |-> UNKNOWNSIDE, cxs |-> <<Cols - 1, 1>>]}

Enters(side) == (side = LEFTSIDE) = OPOSITE_DIRECTION

\* The phase goes on for another frame.
Stay(scene) ==
    /\ scene = View(phase, from)
    /\ age' = IF age < MaxAge THEN age + 1 ELSE age
    /\ UNCHANGED <<phase, from, visits, glitches, truth>>

\* A visitor comes into view once the background is known.
Arrive(scene, side) ==
    /\ phase = "empty" /\ age >= Gap
    /\ visits < MaxVisits
    /\ SeesPeople(frameN)
    /\ scene = View("near", side)
    /\ phase' = "near" /\ age' = 1 /\ from' = side
    /\ visits' = visits + 1
    /\ UNCHANGED <<glitches, truth>>

\* The visitor walks on, or turns back before the far side.
Move(scene) ==
    \E ph \in {"middle", "far", "near", "empty"} :
        /\ <<phase, ph>> \in {<<"near", "middle">>, <<"near", "far">>, <<"middle", "far">>,
                              <<"middle", "near">>, <<"near", "empty">>, <<"far", "empty">>}
        /\ phase = "middle" \/ age >= MinSighting
        /\ scene = View(ph, from)
        /\ phase' = ph /\ age' = 1
        /\ truth' = IF phase = "far" THEN truth + (IF Enters(from) THEN 1 ELSE -1) ELSE truth
        /\ UNCHANGED <<from, visits, glitches>>

\* A single bad frame between two good ones of the same phase.
Glitch(scene) ==
    /\ phase # "empty" /\ age > 0
    /\ glitches < MaxGlitches
    /\ scene \in Glitched
    /\ glitches' = glitches + 1
    /\ age' = 0
    /\ UNCHANGED <<phase, from, visits, truth>>

\* All a frame may show.
Views == Glitched \cup {View(ph, side) : ph \in {"empty", "near", "middle", "far"},
                                         side \in {LEFTSIDE, RIGHTSIDE}}

WalkNext ==
    \E scene \in Views :
        /\ \/ Stay(scene)
           \/ \E side \in {LEFTSIDE, RIGHTSIDE} : Arrive(scene, side)
           \/ Move(scene)
           \/ Glitch(scene)
        /\ \E stale \in BOOLEAN : ProcessFrame(scene, stale)

WalkSpec == WalkInit /\ [][WalkNext]_walkVars
-----------------------------------------------------------------------------
\* The delays fit the pace of a visit, as those of params.h do: one bad frame
\* is looked past, does not make a visitor late and is never the only sighting
\* on a side; a visitor is dropped before the next one comes; the background
\* takes longer than the matcher's delay; no visit fills a trajectory.
DelaysFit ==
    /\ WINDOW_SIZE > 0
    /\ DETECTION_DELAY > 1
    /\ Gap >= DETECTION_DELAY
    /\ MinSighting > 0
    /\ BACKGROUND_FRAMES > MatchDelay
    /\ TRAJECTORY_LENGTH > END_FRAME

ASSUME WalkFits == DelaysFit /\ Views \subseteq Scenes

\* Frames after which a visit that is over has been matched and dropped.
Settle == MatchDelay + DETECTION_DELAY

\* When the doorway has been empty for Settle frames the count is right and
\* nobody is tracked any more: every visitor who crossed was counted exactly
\* once and in the right direction, those who turned back were not counted,
\* whatever single-frame glitches there were (the whole of process_frame,
\* OccupancyCounter.cpp:1328-1391).
CountFollowsTruth ==
    phase = "empty" /\ age > Settle => people_inside = truth /\ people = <<>>
=============================================================================
