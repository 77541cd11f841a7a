----------------------- MODULE OccupancyCounterProofs -----------------------
(***************************************************************************)
(* Proofs about OccupancyCounter, for any ring, delays and scenes, and at   *)
(* the end about DoorwayWalk, for any pace of the visitors.                *)
(***************************************************************************)
EXTENDS DoorwayWalk, FiniteSetTheorems, WellFoundedInduction, TLAPS

\* A set of naturals that is not empty has a least element.
LEMMA MinFact ==
    ASSUME NEW S, S \subseteq Nat, S # {}
    PROVE  Min(S) \in S /\ \A y \in S : Min(S) <= y
<1> DEFINE R == {p \in Nat \X Nat : p[1] < p[2]}
<1>1. IsWellFoundedOn(R, Nat)
    BY NatLessThanWellFounded DEF OpToRel
<1> HIDE DEF R
<1>2. PICK x \in S : \A y \in S : ~(<<y, x>> \in R)
    BY <1>1, WFMin
<1>3. ASSUME NEW y \in S PROVE x <= y
  <2>1. x \in Nat /\ y \in Nat /\ <<y, x>> \notin R
      BY <1>2
  <2>2. ~(y < x)
      BY <2>1 DEF R
  <2>3. QED
      BY <2>1, <2>2
<1>4. QED
    BY <1>3 DEF Min

\* A set of naturals that is not empty and bounded has a greatest element.
LEMMA MaxFact ==
    ASSUME NEW n \in Nat, NEW S, S \subseteq 0..n, S # {}
    PROVE  Max(S) \in S /\ \A y \in S : Max(S) >= y
<1> DEFINE T == {k \in Nat : n - k \in S}
<1>1. T \subseteq Nat /\ T # {}
  <2>1. PICK y : y \in S
      OBVIOUS
  <2>2. n - y \in Nat /\ n - (n - y) = y
      BY <2>1
  <2>3. QED
      BY <2>1, <2>2
<1>2. PICK x \in T : \A y \in T : x <= y
    BY <1>1, MinFact
<1>3. n - x \in S
    BY <1>2
<1>4. \A y \in S : n - x >= y
  <2> TAKE y \in S
  <2>1. n - y \in T
      OBVIOUS
  <2>2. x <= n - y
      BY <2>1, <1>2
  <2>3. QED
      BY <2>2, <1>2
<1>5. \E z \in S : \A y \in S : z >= y
    BY <1>3, <1>4
<1>6. QED
    BY <1>5 DEF Max
-----------------------------------------------------------------------------
(* The ring.                                                               *)

RingOK(ring, n) ==
    /\ ring = [i \in 0..HISTORY_LENGTH-1 |-> ring[i]]
    /\ \A i \in 0..HISTORY_LENGTH-1 : IsFrame(ring[i], n)

\* Every index computed modulo HISTORY_LENGTH is a slot.
LEMMA SlotFact ==
    ASSUME NEW a \in Int
    PROVE  a % HISTORY_LENGTH \in 0..HISTORY_LENGTH-1
BY TrackerAssumption

\* The side fallen back on is a side.
LEMMA SideBeforeType ==
    ASSUME NEW n \in Nat, NEW ring, RingOK(ring, n), NEW key \in Nat
    PROVE  SideBefore(ring, key) \in FrameSide
<1> DEFINE known == {c \in 1..LookBack : /\ ring[Back(key, c)].valid
                                         /\ ring[Back(key, c)].side # UNKNOWNSIDE}
<1>1. CASE known = {}
    BY <1>1 DEF SideBefore, FrameSide
<1>2. CASE known # {}
  <2>1. Min(known) \in 1..LookBack
    <3>1. known \subseteq Nat /\ known \subseteq 1..LookBack
        BY TrackerAssumption
    <3>2. Min(known) \in known
        BY <3>1, <1>2, MinFact
    <3>3. QED
        BY <3>1, <3>2
  <2>2. Back(key, Min(known)) \in 0..HISTORY_LENGTH-1
    <3>1. key - Min(known) \in Int
        BY <2>1, TrackerAssumption
    <3>2. QED
        BY <3>1, SlotFact DEF Back
  <2>3. ring[Back(key, Min(known))].side \in FrameSide
      BY <2>2 DEF RingOK, IsFrame
  <2>4. QED
      BY <1>2, <2>3 DEF SideBefore
<1>3. QED
    BY <1>1, <1>2
-----------------------------------------------------------------------------
(* The tracker.                                                            *)

TrackerOK(T, n) ==
    /\ T = With(T, T.people)
    /\ T.total_people \in Nat
    /\ T.capacity \in Nat
    /\ DOMAIN T.people \subseteq 0..T.total_people-1
    /\ \A i \in DOMAIN T.people : IsPerson(T.people[i], n)

\* From T to S people are only added, under new ids and uncounted, and those
\* tracked before keep counted_, a direction once known, and the entries of
\* their trajectory.
Grows(T, S) ==
    /\ T.total_people <= S.total_people
    /\ DOMAIN T.people \subseteq DOMAIN S.people
    /\ \A i \in DOMAIN T.people :
          /\ S.people[i].counted_ = T.people[i].counted_
          /\ T.people[i].direction_ # "UNKNOWNDIR"
               => S.people[i].direction_ = T.people[i].direction_
          /\ DOMAIN T.people[i].trajectory \subseteq DOMAIN S.people[i].trajectory
    /\ \A i \in DOMAIN S.people \ DOMAIN T.people :
          /\ i >= T.total_people
          /\ S.people[i].counted_ = "NOTYET"

LEMMA GrowsRefl == ASSUME NEW n, NEW T, TrackerOK(T, n) PROVE Grows(T, T)
BY DEF Grows, TrackerOK

LEMMA GrowsTrans ==
    ASSUME NEW n, NEW T, NEW S, NEW U, TrackerOK(T, n), TrackerOK(S, n), TrackerOK(U, n),
           Grows(T, S), Grows(S, U)
    PROVE  Grows(T, U)
BY DEF Grows, TrackerOK

\* A trajectory stays one when a body is recorded in it.
LEMMA RecordTrajectory ==
    ASSUME NEW n \in Nat, NEW t, IsTrajectory(t, n), NEW key \in 0..n-1, NEW s \in FrameSide
    PROVE  IsTrajectory(Record(t, key, s), n)
BY DEF IsTrajectory, Record

LEMMA ExtendOK ==
    ASSUME NEW n \in Nat, NEW T, TrackerOK(T, n), NEW i \in DOMAIN T.people,
           NEW b \in Body, NEW key \in 0..n-1
    PROVE  TrackerOK(Extend(T, i, b, key), n) /\ Grows(T, Extend(T, i, b, key))
<1> DEFINE p == T.people[i]
           q == [p EXCEPT !.trajectory = Record(@, key, b.side)]
           S == Extend(T, i, b, key)
<1>1. IsPerson(p, n) /\ b.side \in FrameSide
    BY DEF TrackerOK, Body
<1>2. /\ q.trajectory = Record(p.trajectory, key, b.side)
      /\ q.direction_ = p.direction_
      /\ q.counted_ = p.counted_
      /\ q.start = p.start
      /\ q = [trajectory |-> q.trajectory, direction_ |-> q.direction_,
              counted_ |-> q.counted_, start |-> q.start]
    BY <1>1 DEF IsPerson
<1>3a. DOMAIN p.trajectory \subseteq DOMAIN q.trajectory
    BY <1>2 DEF Record
<1>3. IsPerson(q, n)
    BY <1>1, <1>2, RecordTrajectory DEF IsPerson
<1>4. /\ S.people = Record(T.people, i, q)
      /\ S.total_people = T.total_people
      /\ S.capacity = T.capacity
      /\ S = With(S, S.people)
    BY DEF Extend, With
<1> HIDE DEF q, S
<1>5. /\ DOMAIN S.people = DOMAIN T.people
      /\ S.people[i] = q
      /\ \A j \in DOMAIN T.people \ {i} : S.people[j] = T.people[j]
    BY <1>4 DEF Record
<1>6. TrackerOK(S, n)
    BY <1>3, <1>4, <1>5 DEF TrackerOK
<1>7. Grows(T, S)
    BY <1>2, <1>3a, <1>4, <1>5 DEF Grows, TrackerOK
<1>8. QED
    BY <1>6, <1>7 DEF S

LEMMA CreateOK ==
    ASSUME NEW n \in Nat, NEW T, TrackerOK(T, n), NEW ring, NEW m \in Nat, RingOK(ring, m),
           NEW b \in Body, NEW key \in 0..n-1
    PROVE  TrackerOK(Create(T, ring, b, key), n) /\ Grows(T, Create(T, ring, b, key))
<1> DEFINE side == IF b.side = UNKNOWNSIDE THEN SideBefore(ring, key) ELSE b.side
           q == NewPerson(side, key)
           S == Create(T, ring, b, key)
<1>1. side \in FrameSide
    BY SideBeforeType DEF Body
<1>2. CASE side = UNKNOWNSIDE
  <2>1. S = T
      BY <1>2 DEF Create
  <2>2. QED
      BY <2>1, GrowsRefl
<1>3. CASE side # UNKNOWNSIDE
  <2>1. side \in {LEFTSIDE, RIGHTSIDE}
      BY <1>1, <1>3 DEF FrameSide
  <2> HIDE DEF side
  <2>2. IsPerson(q, n) /\ q.counted_ = "NOTYET"
      BY <2>1 DEF IsPerson, NewPerson, IsTrajectory, Direction, Counted, FrameSide
  <2> HIDE DEF q
  <2>3. /\ S.people = Record(T.people, T.total_people, q)
        /\ S.total_people = T.total_people + 1
        /\ S.capacity = Grown(Cardinality(DOMAIN T.people), T.capacity)
        /\ S = With(S, S.people)
      BY <1>3 DEF Create, With, q, side
  <2>4. S.capacity \in Nat
      BY <2>3 DEF Grown, TrackerOK
  <2> HIDE DEF S
  <2>5. /\ DOMAIN S.people = DOMAIN T.people \cup {T.total_people}
        /\ T.total_people \notin DOMAIN T.people
        /\ S.people[T.total_people] = q
        /\ \A j \in DOMAIN T.people : S.people[j] = T.people[j]
      BY <2>3 DEF Record, TrackerOK
  <2>6. TrackerOK(S, n)
      BY <2>2, <2>3, <2>4, <2>5 DEF TrackerOK
  <2>7. Grows(T, S)
      BY <2>2, <2>3, <2>5 DEF Grows, TrackerOK
  <2>8. QED
      BY <2>6, <2>7 DEF S
<1>4. QED
    BY <1>2, <1>3
-----------------------------------------------------------------------------
(* Matching only lets the tracker grow.                                    *)

Reaches(T, S, n) == TrackerOK(S, n) /\ Grows(T, S)

LEMMA ReachesTrans ==
    ASSUME NEW n, NEW T, NEW S, NEW U, TrackerOK(T, n), Reaches(T, S, n), Reaches(S, U, n)
    PROVE  Reaches(T, U, n)
BY GrowsTrans DEF Reaches

LEMMA ReachesSelf == ASSUME NEW n, NEW T, TrackerOK(T, n) PROVE Reaches(T, T, n)
BY GrowsRefl DEF Reaches

\* A set of ids with a known number of elements.
LEMMA IdsFact ==
    ASSUME NEW n, NEW T, TrackerOK(T, n), DOMAIN T.people # {}
    PROVE  /\ Min(DOMAIN T.people) \in DOMAIN T.people
           /\ Max(DOMAIN T.people) \in DOMAIN T.people
<1>1. DOMAIN T.people \subseteq Nat /\ DOMAIN T.people \subseteq 0..T.total_people
    BY DEF TrackerOK
<1>2. T.total_people \in Nat
    BY DEF TrackerOK
<1>3. QED
    BY <1>1, <1>2, MinFact, MaxFact

LEMMA NotEmptyFact ==
    ASSUME NEW S, Cardinality(S) \in {1, 2}
    PROVE  S # {}
BY FS_EmptySet

\* In the lemmas below n is the frame being processed plus one.
LEMMA OneOneOK ==
    ASSUME NEW n \in Nat, NEW T, TrackerOK(T, n), NEW ring, NEW m \in Nat, RingOK(ring, m),
           NEW b \in Body, NEW f, f.frameN \in 0..n-1, DOMAIN T.people # {}
    PROVE  Reaches(T, OneOne(T, ring, b, f), n)
<1> DEFINE i == Min(DOMAIN T.people)
<1>1. i \in DOMAIN T.people
    BY IdsFact
<1>2. Reaches(T, Extend(T, i, b, f.frameN), n)
    BY <1>1, ExtendOK DEF Reaches
<1>3. Reaches(T, Create(T, ring, b, f.frameN), n)
    BY CreateOK DEF Reaches
<1>4. QED
    BY <1>2, <1>3 DEF OneOne

LEMMA TwoOneOK ==
    ASSUME NEW n \in Nat, NEW T, TrackerOK(T, n), NEW ring, NEW m \in Nat, RingOK(ring, m),
           NEW b \in Body, NEW key \in 0..n-1
    PROVE  Reaches(T, TwoOne(T, ring, b, key), n)
<1> DEFINE ids == DOMAIN T.people
           candidates ==
             IF Undirected(T) = ids THEN {i \in ids : First(T.people[i]) # b.side}
             ELSE IF Undirected(T) = {} THEN {i \in ids : is_match(T.people[i], b)}
             ELSE Undirected(T)
<1>1. candidates \subseteq ids /\ ids \subseteq Nat
    BY DEF Undirected, TrackerOK
<1>2. Reaches(T, Create(T, ring, b, key), n) /\ Reaches(T, T, n)
    BY CreateOK, ReachesSelf DEF Reaches
<1>3. ASSUME candidates # {} PROVE Reaches(T, Extend(T, Min(candidates), b, key), n)
  <2> HIDE DEF candidates
  <2>1. Min(candidates) \in DOMAIN T.people
      BY <1>1, <1>3, MinFact
  <2>2. QED
      BY <2>1, ExtendOK DEF Reaches
<1>4. QED
    BY <1>2, <1>3 DEF TwoOne

Pair == [1..2 -> Body]

LEMMA OneTwoOK ==
    ASSUME NEW n \in Nat, NEW T, TrackerOK(T, n), NEW ring, NEW m \in Nat, RingOK(ring, m),
           NEW bs \in Pair, NEW key \in 0..n-1, DOMAIN T.people # {}
    PROVE  Reaches(T, OneTwo(T, ring, bs, key), n)
<1> DEFINE i == Min(DOMAIN T.people)
           w == Newcomer(T.people[i], bs)
           S == Extend(T, i, bs[3 - w], key)
<1>1. i \in DOMAIN T.people
    BY IdsFact
<1>2. w \in {0, 1, 2}
    BY DEF Newcomer
<1>3. CASE w = 0
    BY <1>3, ReachesSelf DEF OneTwo
<1>4. CASE w # 0
  <2>1. bs[w] \in Body /\ bs[3 - w] \in Body
      BY <1>2, <1>4 DEF Pair
  <2>2. Reaches(T, S, n)
      BY <1>1, <2>1, ExtendOK DEF Reaches
  <2>3. Reaches(S, Create(S, ring, bs[w], key), n)
      BY <2>1, <2>2, CreateOK DEF Reaches
  <2>4. OneTwo(T, ring, bs, key) = Create(S, ring, bs[w], key)
      BY <1>4 DEF OneTwo
  <2>5. QED
      BY <2>2, <2>3, <2>4, ReachesTrans
<1>5. QED
    BY <1>3, <1>4

LEMMA CreateOnOK ==
    ASSUME NEW n \in Nat, NEW T, TrackerOK(T, n), NEW ring, NEW m \in Nat, RingOK(ring, m),
           NEW bs \in Pair, NEW side, NEW key \in 0..n-1
    PROVE  Reaches(T, CreateOn(T, ring, bs, side, key), n)
<1> DEFINE one == IF bs[1].side = side THEN Create(T, ring, bs[1], key) ELSE T
<1>1. bs[1] \in Body /\ bs[2] \in Body
    BY DEF Pair
<1>2. Reaches(T, Create(T, ring, bs[1], key), n) /\ Reaches(T, T, n)
    BY <1>1, CreateOK, ReachesSelf DEF Reaches
<1>3. Reaches(T, one, n)
    BY <1>2
<1> HIDE DEF one
<1>4. Reaches(one, Create(one, ring, bs[2], key), n)
    BY <1>1, <1>3, CreateOK DEF Reaches
<1>5. Reaches(T, Create(one, ring, bs[2], key), n)
    BY <1>3, <1>4, ReachesTrans
<1>6. QED
    BY <1>3, <1>5 DEF CreateOn, one

LEMMA TwoTwoOK ==
    ASSUME NEW n \in Nat, NEW T, TrackerOK(T, n), NEW ring, NEW m \in Nat, RingOK(ring, m),
           NEW bs \in Pair, NEW key \in 0..n-1, DOMAIN T.people # {}, NEW stale
    PROVE  Reaches(T, TwoTwo(T, ring, bs, key, stale), n)
<1> DEFINE p1 == Min(DOMAIN T.people)
           p2 == Max(DOMAIN T.people)
           newLeft == CreateOn(T, ring, bs, LEFTSIDE, key)
           near == IF bs[1].cx <= bs[2].cx THEN 1 ELSE 2
           S == Extend(T, p1, bs[near], key)
           U == Extend(S, p2, bs[3 - near], key)
           V == CreateOn(newLeft, ring, bs, RIGHTSIDE, key)
<1>1. p1 \in DOMAIN T.people /\ p2 \in DOMAIN T.people
    BY IdsFact
<1>2. bs[near] \in Body /\ bs[3 - near] \in Body
    BY DEF Pair
<1>3. Reaches(T, S, n)
    BY <1>1, <1>2, ExtendOK DEF Reaches
<1>4. p2 \in DOMAIN S.people
    BY <1>1, <1>3 DEF Reaches, Grows
<1>5. Reaches(S, U, n)
    BY <1>2, <1>3, <1>4, ExtendOK DEF Reaches
<1>6. Reaches(T, U, n)
    BY <1>3, <1>5, ReachesTrans
<1>7. Reaches(T, newLeft, n) /\ Reaches(T, CreateOn(T, ring, bs, RIGHTSIDE, key), n)
    BY CreateOnOK
<1>8. Reaches(newLeft, V, n)
    BY <1>7, CreateOnOK DEF Reaches
<1>9. Reaches(T, V, n)
    BY <1>7, <1>8, ReachesTrans
<1>10. Reaches(T, T, n)
    BY ReachesSelf
<1>11. TwoTwo(T, ring, bs, key, stale) \in {U, V, newLeft, CreateOn(T, ring, bs, RIGHTSIDE, key), T}
    BY DEF TwoTwo
<1>12. QED
    BY <1>6, <1>7, <1>9, <1>10, <1>11

LEMMA TwoBodiesOK ==
    ASSUME NEW n \in Nat, NEW T, TrackerOK(T, n), NEW ring, NEW m \in Nat, RingOK(ring, m),
           NEW f, f.found_bodies \in Pair, f.frameN \in 0..n-1, NEW key \in 0..n-1, NEW stale
    PROVE  Reaches(T, TwoBodies(T, ring, f, key, stale), n)
<1> DEFINE bs == f.found_bodies
           R == Create(T, ring, bs[1], f.frameN)
           U == Create(R, ring, bs[2], f.frameN)
           S == IF DOMAIN T.people # {} THEN T ELSE U
<1>1. bs[1] \in Body /\ bs[2] \in Body
    BY DEF Pair
<1>2. Reaches(T, R, n)
    BY <1>1, CreateOK DEF Reaches
<1>3. Reaches(R, U, n)
    BY <1>1, <1>2, CreateOK DEF Reaches
<1>4. Reaches(T, S, n)
    BY <1>2, <1>3, ReachesTrans, ReachesSelf
<1> HIDE DEF S
<1>5. CASE Cardinality(DOMAIN S.people) = 1
  <2>1. Reaches(S, OneTwo(S, ring, bs, key), n)
      BY <1>4, <1>5, NotEmptyFact, OneTwoOK DEF Reaches
  <2>2. TwoBodies(T, ring, f, key, stale) = OneTwo(S, ring, bs, key)
      BY <1>5 DEF TwoBodies, S
  <2>3. QED
      BY <1>4, <2>1, <2>2, ReachesTrans
<1>6. CASE Cardinality(DOMAIN S.people) = 2
  <2>1. Reaches(S, TwoTwo(S, ring, bs, key, stale), n)
      BY <1>4, <1>6, NotEmptyFact, TwoTwoOK DEF Reaches
  <2>2. TwoBodies(T, ring, f, key, stale) = TwoTwo(S, ring, bs, key, stale)
      BY <1>6 DEF TwoBodies, S
  <2>3. QED
      BY <1>4, <2>1, <2>2, ReachesTrans
<1>7. CASE Cardinality(DOMAIN S.people) \notin {1, 2}
  <2>1. TwoBodies(T, ring, f, key, stale) = S
      BY <1>7 DEF TwoBodies, S
  <2>2. QED
      BY <1>4, <2>1
<1>8. QED
    BY <1>5, <1>6, <1>7

LEMMA OneBodyOK ==
    ASSUME NEW n \in Nat, NEW T, TrackerOK(T, n), NEW ring, NEW m \in Nat, RingOK(ring, m),
           NEW f, f.found_bodies[1] \in Body, f.frameN \in 0..n-1, NEW key \in 0..n-1
    PROVE  Reaches(T, OneBody(T, ring, f, key), n)
<1> DEFINE b == f.found_bodies[1]
           size == Cardinality(DOMAIN T.people)
<1>1. Reaches(T, Create(T, ring, b, f.frameN), n) /\ Reaches(T, T, n)
    BY CreateOK, ReachesSelf DEF Reaches
<1>2. size = 1 => Reaches(T, OneOne(T, ring, b, f), n)
  <2> SUFFICES ASSUME size = 1 PROVE Reaches(T, OneOne(T, ring, b, f), n)
      OBVIOUS
  <2>1. DOMAIN T.people # {}
      BY NotEmptyFact
  <2> HIDE DEF b
  <2>2. b \in Body
      BY DEF b
  <2>3. QED
      BY <2>1, <2>2, OneOneOK
<1>3. Reaches(T, TwoOne(T, ring, b, key), n)
    BY TwoOneOK
<1>4. \/ size = 1 /\ OneBody(T, ring, f, key) = OneOne(T, ring, b, f)
      \/ OneBody(T, ring, f, key) \in {Create(T, ring, b, f.frameN), TwoOne(T, ring, b, key), T}
    BY DEF OneBody
<1>5. QED
    BY <1>1, <1>2, <1>3, <1>4

\* update_people_direction sets a direction only where there was none.
LEMMA DirectedOK ==
    ASSUME NEW n \in Nat, NEW T, TrackerOK(T, n)
    PROVE  Reaches(T, With(T, Directed(T.people)), n)
<1> DEFINE S == With(T, Directed(T.people))
<1>1. /\ S.people = Directed(T.people)
      /\ S.total_people = T.total_people
      /\ S.capacity = T.capacity
      /\ S = With(S, S.people)
    BY DEF With
<1>2. DOMAIN S.people = DOMAIN T.people
    BY <1>1 DEF Directed
<1> HIDE DEF S
<1>3. ASSUME NEW i \in DOMAIN T.people
      PROVE  /\ IsPerson(S.people[i], n)
             /\ S.people[i].counted_ = T.people[i].counted_
             /\ T.people[i].direction_ # "UNKNOWNDIR"
                  => S.people[i].direction_ = T.people[i].direction_
             /\ DOMAIN T.people[i].trajectory \subseteq DOMAIN S.people[i].trajectory
  <2> DEFINE p == T.people[i]
             q == [p EXCEPT !.direction_ = DirectionOf(p)]
  <2>1. IsPerson(p, n)
      BY DEF TrackerOK
  <2>2. S.people[i] = q
      BY <1>1 DEF Directed
  <2>3. /\ q.trajectory = p.trajectory
        /\ q.direction_ = DirectionOf(p)
        /\ q.counted_ = p.counted_
        /\ q.start = p.start
        /\ q = [trajectory |-> q.trajectory, direction_ |-> q.direction_,
                counted_ |-> q.counted_, start |-> q.start]
      BY <2>1 DEF IsPerson
  <2>4. DirectionOf(p) \in Direction /\ (p.direction_ # "UNKNOWNDIR" => DirectionOf(p) = p.direction_)
      BY <2>1 DEF DirectionOf, IsPerson, Direction
  <2> HIDE DEF q
  <2>5. IsPerson(q, n)
      BY <2>1, <2>3, <2>4 DEF IsPerson
  <2>6. QED
      BY <2>2, <2>3, <2>4, <2>5
<1>4. TrackerOK(S, n)
    BY <1>1, <1>2, <1>3 DEF TrackerOK
<1>5. Grows(T, S)
    BY <1>1, <1>2, <1>3 DEF Grows, TrackerOK
<1>6. QED
    BY <1>4, <1>5 DEF Reaches, S

\* match_body_person
LEMMA MatchedOK ==
    ASSUME NEW n \in Nat, NEW T, TrackerOK(T, n + 1), NEW ring, RingOK(ring, n), NEW stale
    PROVE  Reaches(T, Matched(T, ring, n, stale), n + 1)
<1> DEFINE f == Delayed(ring, n)
           M == IF NumBodies(f) = 1 THEN OneBody(T, ring, f, n)
                ELSE TwoBodies(T, ring, f, n, stale)
<1>1. IsFrame(f, n)
  <2>1. n - MatchDelay \in Int
      BY TrackerAssumption
  <2>2. QED
      BY <2>1, SlotFact DEF Delayed, Back, RingOK
<1>2. f.frameN \in 0..(n + 1) - 1 /\ n \in 0..(n + 1) - 1 /\ n + 1 \in Nat
    BY <1>1 DEF IsFrame
<1>3. CASE ~IsCorrect(ring, Slot(f.frameN)) \/ NumBodies(f) = 0
  <2>1. Matched(T, ring, n, stale) = T
      BY <1>3 DEF Matched
  <2>2. QED
      BY <1>2, <2>1, ReachesSelf
<1>4. CASE ~(~IsCorrect(ring, Slot(f.frameN)) \/ NumBodies(f) = 0)
  <2>1. Matched(T, ring, n, stale) = With(M, Directed(M.people))
      BY <1>4 DEF Matched
  <2> HIDE DEF f
  <2>2. Reaches(T, M, n + 1)
    <3>1. CASE NumBodies(f) = 1
      <4>1. f.found_bodies[1] \in Body
          BY <1>1, <3>1 DEF IsFrame, NumBodies
      <4>2. QED
          BY <1>2, <3>1, <4>1, OneBodyOK
    <3>2. CASE NumBodies(f) # 1
      <4> DEFINE bs == f.found_bodies
      <4>0. Len(bs) \in 0..2 /\ bs \in [1..Len(bs) -> Body] /\ Len(bs) # 0 /\ Len(bs) # 1
          BY <1>1, <1>4, <3>2 DEF IsFrame, NumBodies
      <4> HIDE DEF bs
      <4>1. bs \in Pair
        <5>1. Len(bs) = 2
            BY <4>0
        <5>2. QED
            BY <4>0, <5>1 DEF Pair
      <4> USE DEF bs
      <4>2. QED
          BY <1>2, <3>2, <4>1, TwoBodiesOK
    <3>3. QED
        BY <3>1, <3>2
  <2> HIDE DEF M
  <2>3. Reaches(M, With(M, Directed(M.people)), n + 1)
      BY <1>2, <2>2, DirectedOK DEF Reaches
  <2>4. QED
      BY <2>1, <2>2, <2>3, ReachesTrans
<1>5. QED
    BY <1>3, <1>4
-----------------------------------------------------------------------------
(* The invariant.                                                          *)

\* The converse of CountedIsMarked: nobody is marked without being counted.
MarkedIsCounted ==
    \A i \in DOMAIN people :
        /\ people[i].counted_ = "LR" => i \in wentLR
        /\ people[i].counted_ = "RL" => i \in wentRL

IInv ==
    /\ TypeOK
    /\ CountedIsMarked /\ MarkedIsCounted
    /\ NobodyCountedBothWays
    /\ CountIsNetOfCrossings

LEMMA InitIInv == Init => IInv
<1> SUFFICES ASSUME Init PROVE IInv
    OBVIOUS
<1>1. IsFrame(NoFrameYet, START_FRAME)
    BY TrackerAssumption DEF IsFrame, NoFrameYet, FrameSide, Body
<1>2. TypeOK
    BY <1>1, TrackerAssumption DEF Init, TypeOK
<1>3. CountedIsMarked /\ MarkedIsCounted /\ NobodyCountedBothWays
    BY DEF Init, CountedIsMarked, MarkedIsCounted, NobodyCountedBothWays
<1>4. CountIsNetOfCrossings
    BY FS_EmptySet, TrackerAssumption DEF Init, CountIsNetOfCrossings
<1>5. QED
    BY <1>2, <1>3, <1>4 DEF IInv

\* The frame stored is a frame.
LEMMA FrameOfType ==
    ASSUME NEW n \in Nat, NEW scene \in Scenes
    PROVE  IsFrame(FrameOf(n, scene), n)
<1> DEFINE bs == BodiesOf(scene)
           L == Len(scene.cxs)
<1>0. scene.side \in FrameSide /\ scene.cxs \in Seq(Nat) /\ L <= 2
    BY TrackerAssumption DEF IsScene
<1>1. L \in 0..2 /\ \A k \in 1..L : scene.cxs[k] \in Nat
  <2> DEFINE s == scene.cxs
  <2>1. s \in Seq(Nat)
      BY <1>0
  <2> HIDE DEF s
  <2>2. Len(s) \in Nat
      BY <2>1
  <2>3. \A k \in 1..Len(s) : s[k] \in Nat
      BY <2>1
  <2>4. Len(s) <= 2
      BY <1>0 DEF s
  <2>5. Len(s) \in 0..2
    <3>1. \A x \in Nat : x <= 2 => x \in 0..2
        OBVIOUS
    <3>2. QED
        BY <2>2, <2>4, <3>1
  <2>6. QED
      BY <2>3, <2>5 DEF s
<1>2. bs \in [1..L -> Body]
    BY <1>0, <1>1 DEF BodiesOf, Body, FrameSide
<1> HIDE DEF bs, L
<1>3. bs \in Seq(Body) /\ Len(bs) = L
    BY <1>1, <1>2
<1>4. QED
    BY <1>0, <1>1, <1>2, <1>3 DEF FrameOf, IsFrame, bs

LEMMA CorrectedOK ==
    ASSUME NEW n \in Nat, NEW ring, RingOK(ring, n), NEW idx \in 0..HISTORY_LENGTH-1
    PROVE  RingOK(Corrected(ring, idx), n + 1)
<1> DEFINE c == IsCorrect(ring, idx)
           g == [ring[idx] EXCEPT !.valid = c]
<1>1. c \in BOOLEAN
    BY DEF IsCorrect
<1>2. IsFrame(ring[idx], n)
    BY DEF RingOK
<1> HIDE DEF c
<1>3. IsFrame(g, n + 1)
    BY <1>1, <1>2 DEF IsFrame
<1>4. \A i \in 0..HISTORY_LENGTH-1 : IsFrame(ring[i], n + 1)
    BY DEF RingOK, IsFrame
<1>5. Corrected(ring, idx) = [ring EXCEPT ![idx] = g]
    BY DEF Corrected, c, RingOK
<1> HIDE DEF g
<1>6. QED
    BY <1>3, <1>4, <1>5 DEF RingOK

LEMMA KeptPerson ==
    ASSUME NEW n \in Nat, NEW p, IsPerson(p, n)
    PROVE  IsPerson([p EXCEPT !.trajectory = Cut(p), !.counted_ = Mark(p)], n)
<1> DEFINE q == [p EXCEPT !.trajectory = Cut(p), !.counted_ = Mark(p)]
<1>1. IsTrajectory(Cut(p), n)
  <2> DEFINE D == DOMAIN p.trajectory
  <2>1. D \subseteq 0..n /\ D # {} /\ D \subseteq 0..n-1
      BY DEF IsPerson, IsTrajectory
  <2>2. LastKey(p) \in D
      BY <2>1, MaxFact DEF LastKey
  <2>3. p.trajectory[LastKey(p)] \in FrameSide
      BY <2>2 DEF IsPerson, IsTrajectory
  <2>4. QED
      BY <2>1, <2>2, <2>3 DEF Cut, IsTrajectory
<1>2. Mark(p) \in Counted
    BY DEF Mark, IsPerson, Counted
<1>3. /\ q.trajectory = Cut(p)
      /\ q.direction_ = p.direction_
      /\ q.counted_ = Mark(p)
      /\ q.start = p.start
      /\ q = [trajectory |-> q.trajectory, direction_ |-> q.direction_,
              counted_ |-> q.counted_, start |-> q.start]
  <2> DEFINE t == Cut(p)
             c == Mark(p)
  <2> HIDE DEF t, c
  <2>1. q = [p EXCEPT !.trajectory = t, !.counted_ = c]
      BY DEF t, c
  <2> HIDE DEF q
  <2>2. p = [trajectory |-> p.trajectory, direction_ |-> p.direction_,
             counted_ |-> p.counted_, start |-> p.start]
      BY DEF IsPerson
  <2>3. q = [trajectory |-> t, direction_ |-> p.direction_, counted_ |-> c, start |-> p.start]
      BY <2>1, <2>2
  <2>4. QED
      BY <2>3 DEF t, c
<1> HIDE DEF q
<1>4. IsPerson(q, n)
    BY <1>1, <1>2, <1>3 DEF IsPerson
<1>5. QED
    BY <1>4 DEF q

\* The count changes by the crossings of this frame, none of which was counted
\* before.
LEMMA CountOfUnion ==
    ASSUME NEW a \in Nat, NEW A, NEW B, A \subseteq 0..a, B \subseteq 0..a, A \cap B = {}
    PROVE  /\ Cardinality(A \cup B) = Cardinality(A) + Cardinality(B)
           /\ Cardinality(A) \in Nat /\ Cardinality(B) \in Nat
<1>1. IsFiniteSet(0..a)
    BY FS_Interval
<1>2. IsFiniteSet(A) /\ IsFiniteSet(B)
    BY <1>1, FS_Subset
<1>3. Cardinality(A) \in Nat /\ Cardinality(B) \in Nat
    BY <1>2, FS_CardinalityType
<1>4. Cardinality(A \cup B) = Cardinality(A) + Cardinality(B) - Cardinality(A \cap B)
    BY <1>2, FS_Union
<1>5. Cardinality(A \cap B) = 0
    BY FS_EmptySet
<1>6. QED
    BY <1>3, <1>4, <1>5

LEMMA StepIInv ==
    ASSUME IInv, NEW scene \in Scenes, NEW stale, ProcessFrame(scene, stale)
    PROVE  IInv'
<1> DEFINE n == frameN
           ring == [frames EXCEPT ![Slot(n)] = FrameOf(n, scene)]
           idx == Slot(Delayed(ring, n).frameN)
           T0 == [people |-> people, total_people |-> total_people, capacity |-> capacity]
           T == Matched(T0, ring, n, stale)
           P == T.people
<1>1. n \in Nat /\ RingOK(frames, n)
    BY DEF IInv, TypeOK, RingOK
<1>2. RingOK(ring, n)
  <2>1. Slot(n) \in 0..HISTORY_LENGTH-1
      BY <1>1, SlotFact DEF Slot
  <2>2. IsFrame(FrameOf(n, scene), n)
      BY <1>1, FrameOfType
  <2>3. QED
      BY <1>1, <2>1, <2>2 DEF RingOK
<1>3. idx \in 0..HISTORY_LENGTH-1
  <2>1. n - MatchDelay \in Int
      BY <1>1, TrackerAssumption
  <2> HIDE DEF ring
  <2>2. IsFrame(Delayed(ring, n), n)
      BY <1>2, <2>1, SlotFact DEF Delayed, Back, RingOK
  <2>3. QED
      BY <2>2, SlotFact DEF IsFrame, Slot
<1>4. frames' = Corrected(ring, idx) /\ frameN' = n + 1
    BY DEF ProcessFrame
<1>5. T0.people = people /\ T0.total_people = total_people /\ T0.capacity = capacity
    OBVIOUS
<1>6. TrackerOK(T0, n + 1)
  <2>1. \A i \in DOMAIN people : IsPerson(people[i], n + 1)
      BY <1>1 DEF IInv, TypeOK, IsPerson, IsTrajectory
  <2>2. QED
      BY <2>1 DEF TrackerOK, With, IInv, TypeOK
<1>7. Reaches(T0, T, n + 1)
    BY <1>1, <1>2, <1>6, MatchedOK
<1> HIDE DEF ring, idx, T
<1>8. PICK E \in SUBSET DOMAIN P :
         LET LR == Crossing(P, Tally(P, E), "LtoR")
             RL == Crossing(P, Tally(P, E), "RtoL")
             net == Cardinality(RL) - Cardinality(LR)
         IN /\ people' = Kept(P, E)
            /\ people_inside' = people_inside + (IF OPOSITE_DIRECTION THEN -net ELSE net)
            /\ wentLR' = wentLR \cup LR
            /\ wentRL' = wentRL \cup RL
    BY DEF ProcessFrame, ring, idx, T
<1>9. total_people' = T.total_people /\ capacity' = T.capacity
    BY DEF ProcessFrame, ring, idx, T
<1> DEFINE LR == Crossing(P, Tally(P, E), "LtoR")
           RL == Crossing(P, Tally(P, E), "RtoL")
<1>10. /\ TrackerOK(T, n + 1)
       /\ Grows(T0, T)
       /\ total_people <= T.total_people
    BY <1>5, <1>7 DEF Reaches, Grows
<1>11. /\ \A i \in LR : /\ i \in DOMAIN P /\ P[i].direction_ = "LtoR" /\ P[i].counted_ # "LR"
                        /\ IsLong(P[i]) \/ i \in E
       /\ \A i \in RL : /\ i \in DOMAIN P /\ P[i].direction_ = "RtoL" /\ P[i].counted_ # "RL"
                        /\ IsLong(P[i]) \/ i \in E
    BY DEF Crossing, Tally, Countable
\* What the history says of the persons being matched.
<1>12. \A i \in DOMAIN P :
          /\ i \in wentLR => P[i].counted_ = "LR" /\ P[i].direction_ = "LtoR"
          /\ i \in wentRL => P[i].counted_ = "RL" /\ P[i].direction_ = "RtoL"
  <2> SUFFICES ASSUME NEW i \in DOMAIN P
               PROVE  /\ i \in wentLR => P[i].counted_ = "LR" /\ P[i].direction_ = "LtoR"
                      /\ i \in wentRL => P[i].counted_ = "RL" /\ P[i].direction_ = "RtoL"
      OBVIOUS
  <2>1. CASE i \in DOMAIN people
      BY <2>1, <1>5, <1>10 DEF Grows, IInv, CountedIsMarked
  <2>2. CASE i \notin DOMAIN people
    <3>1. i >= total_people
        BY <2>2, <1>5, <1>10 DEF Grows
    <3>2. i \notin wentLR /\ i \notin wentRL
        BY <3>1 DEF IInv, TypeOK
    <3>3. QED
        BY <3>2
  <2>3. QED
      BY <2>1, <2>2
<1>13. LR \cap wentLR = {} /\ RL \cap wentRL = {} /\ LR \cap wentRL = {} /\ RL \cap wentLR = {} /\ LR \cap RL = {}
    BY <1>11, <1>12
<1>14. T.total_people \in Nat /\ total_people \in Nat /\ DOMAIN P \subseteq 0..T.total_people-1
    BY <1>10 DEF TrackerOK, IInv, TypeOK
<1>15. /\ wentLR' \subseteq 0..T.total_people-1 /\ wentRL' \subseteq 0..T.total_people-1
    BY <1>8, <1>10, <1>11, <1>14 DEF IInv, TypeOK
<1>16. TypeOK'
  <2>1. RingOK(frames', n + 1)
      BY <1>1, <1>2, <1>3, <1>4, CorrectedOK
  <2>2. \A i \in DOMAIN people' : IsPerson(people'[i], n + 1)
    <3> SUFFICES ASSUME NEW i \in DOMAIN P \ E PROVE IsPerson(Kept(P, E)[i], n + 1)
        BY <1>8 DEF Kept
    <3>1. IsPerson(P[i], n + 1)
        BY <1>10 DEF TrackerOK
    <3>2. n + 1 \in Nat
        BY <1>1
    <3>3. IsPerson([P[i] EXCEPT !.trajectory = Cut(P[i]), !.counted_ = Mark(P[i])], n + 1)
        BY <3>1, <3>2, KeptPerson
    <3>4. QED
        BY <3>1, <3>3 DEF Kept
  <2>3. DOMAIN people' \subseteq 0..T.total_people-1
      BY <1>8, <1>14 DEF Kept
  <2>4. people_inside' \in Int
    <3> DEFINE N == T.total_people
    <3>1. N \in Nat /\ LR \subseteq 0..N /\ RL \subseteq 0..N /\ LR \cap RL = {}
        BY <1>11, <1>13, <1>14
    <3> HIDE DEF N, LR, RL
    <3>2. Cardinality(LR) \in Nat /\ Cardinality(RL) \in Nat
        BY <3>1, CountOfUnion
    <3>3. people_inside' = people_inside + (IF OPOSITE_DIRECTION
                                            THEN -(Cardinality(RL) - Cardinality(LR))
                                            ELSE Cardinality(RL) - Cardinality(LR))
        BY <1>8 DEF LR, RL
    <3>4. people_inside \in Int
        BY DEF IInv, TypeOK
    <3>5. QED
        BY <3>2, <3>3, <3>4
  <2>5. T.capacity \in Nat
      BY <1>10 DEF TrackerOK
  <2>6. QED
      BY <1>1, <1>4, <1>9, <1>14, <1>15, <2>1, <2>2, <2>3, <2>4, <2>5 DEF TypeOK, RingOK
<1>17. CountedIsMarked'
  <2> SUFFICES ASSUME NEW i \in DOMAIN people'
               PROVE  /\ i \in wentLR' => people'[i].counted_ = "LR" /\ people'[i].direction_ = "LtoR"
                      /\ i \in wentRL' => people'[i].counted_ = "RL" /\ people'[i].direction_ = "RtoL"
      BY DEF CountedIsMarked
  <2>1. i \in DOMAIN P \ E
      BY <1>8 DEF Kept
  <2>2. IsPerson(P[i], n + 1)
      BY <2>1, <1>10 DEF TrackerOK
  <2>3. people'[i].direction_ = P[i].direction_
      BY <1>8, <2>1, <2>2 DEF Kept, IsPerson
  <2>4. people'[i].counted_ = IF IsLong(P[i]) THEN Mark(P[i]) ELSE P[i].counted_
      BY <1>8, <2>1, <2>2 DEF Kept, IsPerson
  <2>5. i \in LR => people'[i].counted_ = "LR" /\ P[i].direction_ = "LtoR"
      BY <1>11, <2>1, <2>4 DEF Mark, Countable
  <2>6. i \in RL => people'[i].counted_ = "RL" /\ P[i].direction_ = "RtoL"
      BY <1>11, <2>1, <2>4 DEF Mark, Countable
  <2>7. /\ i \in wentLR => people'[i].counted_ = "LR" /\ P[i].direction_ = "LtoR"
        /\ i \in wentRL => people'[i].counted_ = "RL" /\ P[i].direction_ = "RtoL"
      BY <1>12, <2>1, <2>4 DEF Mark, Countable
  <2>8. QED
      BY <1>8, <2>3, <2>5, <2>6, <2>7
<1>18. NobodyCountedBothWays'
    BY <1>8, <1>13 DEF IInv, NobodyCountedBothWays
<1>19. CountIsNetOfCrossings'
  <2> DEFINE N == T.total_people
  <2>0. N \in Nat /\ total_people \in Nat /\ total_people <= N
      BY <1>10, <1>14
  <2>1. /\ LR \subseteq 0..N /\ RL \subseteq 0..N
        /\ wentLR \subseteq 0..N /\ wentRL \subseteq 0..N
    <3>1. LR \subseteq 0..N /\ RL \subseteq 0..N
        BY <1>11, <1>14
    <3>2. wentLR \subseteq 0..total_people-1 /\ wentRL \subseteq 0..total_people-1
        BY DEF IInv, TypeOK
    <3> HIDE DEF N
    <3>3. QED
        BY <2>0, <3>1, <3>2
  <2>a. wentLR \cap LR = {} /\ wentRL \cap RL = {}
      BY <1>13
  <2> HIDE DEF N, LR, RL
  <2>2. /\ Cardinality(wentLR \cup LR) = Cardinality(wentLR) + Cardinality(LR)
        /\ Cardinality(wentLR) \in Nat /\ Cardinality(LR) \in Nat
      BY <2>0, <2>1, <2>a, CountOfUnion
  <2>3. /\ Cardinality(wentRL \cup RL) = Cardinality(wentRL) + Cardinality(RL)
        /\ Cardinality(wentRL) \in Nat /\ Cardinality(RL) \in Nat
      BY <2>0, <2>1, <2>a, CountOfUnion
  <2>4. /\ wentLR' = wentLR \cup LR
        /\ wentRL' = wentRL \cup RL
        /\ people_inside' = people_inside + (IF OPOSITE_DIRECTION
                                             THEN -(Cardinality(RL) - Cardinality(LR))
                                             ELSE Cardinality(RL) - Cardinality(LR))
      BY <1>8 DEF LR, RL
  <2>5. QED
      BY <2>2, <2>3, <2>4, TrackerAssumption DEF IInv, CountIsNetOfCrossings
<1>20. MarkedIsCounted'
  <2> SUFFICES ASSUME NEW i \in DOMAIN people'
               PROVE  /\ people'[i].counted_ = "LR" => i \in wentLR'
                      /\ people'[i].counted_ = "RL" => i \in wentRL'
      BY DEF MarkedIsCounted
  <2>1. i \in DOMAIN P \ E
      BY <1>8 DEF Kept
  <2>2. IsPerson(P[i], n + 1)
      BY <2>1, <1>10 DEF TrackerOK
  <2>3. people'[i].counted_ = IF IsLong(P[i]) THEN Mark(P[i]) ELSE P[i].counted_
      BY <1>8, <2>1, <2>2 DEF Kept, IsPerson
  <2>4. /\ P[i].counted_ = "LR" => i \in wentLR
        /\ P[i].counted_ = "RL" => i \in wentRL
    <3>1. CASE i \in DOMAIN people
        BY <3>1, <1>5, <1>10 DEF Grows, IInv, MarkedIsCounted
    <3>2. CASE i \notin DOMAIN people
        BY <3>2, <2>1, <1>5, <1>10 DEF Grows
    <3>3. QED
        BY <3>1, <3>2
  <2>5. CASE IsLong(P[i]) /\ Countable(P[i])
    <3>1. \/ P[i].direction_ = "LtoR" /\ i \in LR /\ people'[i].counted_ = "LR"
          \/ P[i].direction_ = "RtoL" /\ i \in RL /\ people'[i].counted_ = "RL"
        BY <2>1, <2>3, <2>5 DEF Countable, Mark, Tally, Crossing
    <3>2. QED
        BY <3>1, <1>8
  <2>6. CASE ~(IsLong(P[i]) /\ Countable(P[i]))
      BY <2>3, <2>4, <2>6, <1>8 DEF Mark
  <2>7. QED
      BY <2>5, <2>6
<1>21. QED
    BY <1>16, <1>17, <1>18, <1>19, <1>20 DEF IInv

\* The invariant holds of the specification.
THEOREM Invariance == Spec => []IInv
<1>1. IInv /\ [Next]_vars => IInv'
  <2>1. ASSUME IInv, Next PROVE IInv'
      BY <2>1, StepIInv DEF Next
  <2>2. ASSUME IInv, UNCHANGED vars PROVE IInv'
      BY <2>2 DEF vars, IInv, TypeOK, CountedIsMarked, MarkedIsCounted, NobodyCountedBothWays,
                  CountIsNetOfCrossings
  <2>3. QED
      BY <2>1, <2>2
<1>2. QED
    BY InitIInv, <1>1, PTL DEF Spec

\* Types: in particular no trajectory is ever empty, so that begin() and
\* rbegin() of lines 505, 655-664 and 878 always have an entry to point at.
THEOREM TypeCorrect == Spec => []TypeOK
<1>1. IInv => TypeOK
    BY DEF IInv
<1>2. QED
    BY Invariance, <1>1, PTL

\* The count is the start count plus those who entered minus those who left,
\* each person counted once, for any sequence of frames.
THEOREM EachPersonCountsOnce == Spec => []CountIsNetOfCrossings
<1>1. IInv => CountIsNetOfCrossings
    BY DEF IInv
<1>2. QED
    BY Invariance, <1>1, PTL

\* Nobody is counted both as entering and as leaving, for any sequence of frames.
THEOREM NobodyCountsBothWays == Spec => []NobodyCountedBothWays
<1>1. IInv => NobodyCountedBothWays
    BY DEF IInv
<1>2. QED
    BY Invariance, <1>1, PTL
-----------------------------------------------------------------------------
(* Who is dropped.                                                         *)

\* A trajectory that only gained entries does not end earlier.
LEMMA LaterIsLate ==
    ASSUME NEW n \in Nat, NEW p, NEW q, IsTrajectory(p.trajectory, n), IsTrajectory(q.trajectory, n),
           DOMAIN p.trajectory \subseteq DOMAIN q.trajectory, NEW k \in Nat, IsLate(q, k)
    PROVE  IsLate(p, k)
<1>1. /\ LastKey(p) \in DOMAIN p.trajectory
      /\ LastKey(q) \in DOMAIN q.trajectory /\ \A y \in DOMAIN q.trajectory : LastKey(q) >= y
  <2>1. /\ DOMAIN p.trajectory \subseteq 0..n /\ DOMAIN p.trajectory # {}
        /\ DOMAIN q.trajectory \subseteq 0..n /\ DOMAIN q.trajectory # {}
      BY DEF IsTrajectory
  <2>2. QED
      BY <2>1, MaxFact DEF LastKey
<1>2. LastKey(p) \in Nat /\ LastKey(q) \in Nat /\ LastKey(q) >= LastKey(p)
    BY <1>1 DEF IsTrajectory
<1>3. QED
    BY <1>2, TrackerAssumption DEF IsLate

\* Whoever is dropped was counted, or not seen for the whole delay.
LEMMA DroppedFact ==
    ASSUME IInv, NEW scene \in Scenes, NEW stale, ProcessFrame(scene, stale),
           NEW i \in DOMAIN people \ DOMAIN people'
    PROVE  /\ people[i].direction_ = "LtoR" => i \in wentLR'
           /\ people[i].direction_ = "RtoL" => i \in wentRL'
           /\ i \notin wentLR' \cup wentRL' => IsLate(people[i], frameN)
<1> DEFINE n == frameN
           ring == [frames EXCEPT ![Slot(n)] = FrameOf(n, scene)]
           T0 == [people |-> people, total_people |-> total_people, capacity |-> capacity]
           T == Matched(T0, ring, n, stale)
           P == T.people
<1>1. n \in Nat /\ RingOK(frames, n)
    BY DEF IInv, TypeOK, RingOK
<1>2. RingOK(ring, n)
  <2>1. Slot(n) \in 0..HISTORY_LENGTH-1
      BY <1>1, SlotFact DEF Slot
  <2>2. IsFrame(FrameOf(n, scene), n)
      BY <1>1, FrameOfType
  <2>3. QED
      BY <1>1, <2>1, <2>2 DEF RingOK
<1>3. TrackerOK(T0, n + 1)
  <2>1. \A j \in DOMAIN people : IsPerson(people[j], n + 1)
      BY <1>1 DEF IInv, TypeOK, IsPerson, IsTrajectory
  <2>2. QED
      BY <2>1 DEF TrackerOK, With, IInv, TypeOK
<1>4. TrackerOK(T, n + 1) /\ Grows(T0, T)
    BY <1>1, <1>2, <1>3, MatchedOK DEF Reaches
<1> HIDE DEF ring, T
<1>5. PICK E \in SUBSET DOMAIN P :
         /\ ErasedBy(P, n, E)
         /\ people' = Kept(P, E)
         /\ wentLR' = wentLR \cup Crossing(P, Tally(P, E), "LtoR")
         /\ wentRL' = wentRL \cup Crossing(P, Tally(P, E), "RtoL")
    BY DEF ProcessFrame, ring, T
<1>6. /\ i \in DOMAIN P
      /\ P[i].counted_ = people[i].counted_
      /\ people[i].direction_ # "UNKNOWNDIR" => P[i].direction_ = people[i].direction_
      /\ DOMAIN people[i].trajectory \subseteq DOMAIN P[i].trajectory
    BY <1>4 DEF Grows
<1>7. i \in E
    BY <1>5, <1>6 DEF Kept
<1>8. CASE Countable(P[i])
  <2>1. \/ P[i].direction_ = "LtoR" /\ i \in wentLR'
        \/ P[i].direction_ = "RtoL" /\ i \in wentRL'
      BY <1>5, <1>6, <1>7, <1>8 DEF Countable, Tally, Crossing
  <2>2. QED
      BY <1>6, <2>1
<1>9. CASE ~Countable(P[i])
  <2>1. /\ people[i].direction_ = "LtoR" => people[i].counted_ = "LR"
        /\ people[i].direction_ = "RtoL" => people[i].counted_ = "RL"
      BY <1>6, <1>9 DEF Countable
  <2>2. /\ people[i].direction_ = "LtoR" => i \in wentLR
        /\ people[i].direction_ = "RtoL" => i \in wentRL
      BY <2>1 DEF IInv, MarkedIsCounted
  <2>3. IsLate(P[i], n)
      BY <1>5, <1>7, <1>9 DEF ErasedBy
  <2>4. IsTrajectory(people[i].trajectory, n + 1) /\ IsTrajectory(P[i].trajectory, n + 1)
      BY <1>3, <1>4, <1>6 DEF TrackerOK, IsPerson
  <2>5. n \in Nat /\ n + 1 \in Nat
      BY <1>1
  <2> HIDE DEF n
  <2>6. IsLate(people[i], n)
      BY <1>6, <2>3, <2>4, <2>5, LaterIsLate
  <2> USE DEF n
  <2>7. QED
      BY <1>5, <2>2, <2>6
<1>10. QED
    BY <1>8, <1>9

\* Whoever is dropped with a known direction has been counted in it.
THEOREM DroppedAreCounted == Spec => DirectedTrackIsCounted
<1>1. IInv /\ [Next]_vars =>
        [\A i \in DOMAIN people \ DOMAIN people' :
            /\ people[i].direction_ = "LtoR" => i \in wentLR'
            /\ people[i].direction_ = "RtoL" => i \in wentRL']_vars
    BY DroppedFact DEF Next
<1>2. QED
    BY Invariance, <1>1, PTL DEF Spec, DirectedTrackIsCounted

\* Whoever is dropped uncounted was not seen for the whole delay.
THEOREM OnlyStaleAreDropped == Spec => UncountedDropsAreStale
<1>1. IInv /\ [Next]_vars =>
        [\A i \in DOMAIN people \ DOMAIN people' :
            i \notin wentLR' \cup wentRL' => IsLate(people[i], frameN)]_vars
    BY DroppedFact DEF Next
<1>2. QED
    BY Invariance, <1>1, PTL DEF Spec, UncountedDropsAreStale
-----------------------------------------------------------------------------
(***************************************************************************)
(* At most two uncounted people are tracked, for any ring, delays and      *)
(* scenes.  The vector people itself may hold more (people who crossed and *)
(* came back), and the matcher may add two at once; the bound comes from   *)
(* two facts.                                                              *)
(*   - The matcher adds people either while the number of those who are    *)
(*     neither counted nor known to go one way, Open, leaves room, or when *)
(*     none of those it knows is open.  So at most two are open after it.  *)
(*   - update_people_status counts everybody else, or keeps someone        *)
(*     countable only when at most two people remain.                      *)
(***************************************************************************)

\* The people of T who have not been counted, and those of them whose
\* direction is not known either.
Uncounted(P) == {i \in DOMAIN P : P[i].counted_ = "NOTYET"}
Open(T) == {i \in Uncounted(T.people) : T.people[i].direction_ = "UNKNOWNDIR"}

\* At most two are open.
Few(T) == Cardinality(Open(T)) <= 2

LEMMA SubsetFact ==
    ASSUME NEW S, IsFiniteSet(S), NEW R, R \subseteq S
    PROVE  /\ IsFiniteSet(R)
           /\ Cardinality(R) \in Nat /\ Cardinality(S) \in Nat
           /\ Cardinality(R) <= Cardinality(S)
BY FS_Subset, FS_CardinalityType

LEMMA IdsFinite ==
    ASSUME NEW n, NEW T, TrackerOK(T, n)
    PROVE  IsFiniteSet(DOMAIN T.people)
<1>1. T.total_people - 1 \in Int /\ DOMAIN T.people \subseteq 0..T.total_people-1
    BY DEF TrackerOK
<1>2. IsFiniteSet(0..T.total_people-1)
    BY <1>1, FS_Interval
<1> QED
    BY <1>1, <1>2, FS_Subset

LEMMA OpenFact ==
    ASSUME NEW n, NEW T, TrackerOK(T, n)
    PROVE  /\ IsFiniteSet(Open(T)) /\ Cardinality(Open(T)) \in Nat
           /\ Cardinality(DOMAIN T.people) \in Nat
           /\ Cardinality(Open(T)) <= Cardinality(DOMAIN T.people)
           /\ Undirected(T) = {} => Cardinality(Open(T)) = 0
<1>1. Open(T) \subseteq DOMAIN T.people /\ Open(T) \subseteq Undirected(T)
    BY DEF Open, Uncounted, Undirected
<1> QED
    BY <1>1, IdsFinite, SubsetFact, FS_EmptySet

\* Adding k people opens at most k.
LEMMA OpenGrows ==
    ASSUME NEW n, NEW T, NEW S, TrackerOK(T, n), Reaches(T, S, n), NEW k \in Nat,
           S.total_people <= T.total_people + k
    PROVE  Cardinality(Open(S)) <= Cardinality(Open(T)) + k
<1> DEFINE New == T.total_people..T.total_people+k-1
<1>1. T.total_people \in Nat /\ S.total_people \in Nat /\ DOMAIN S.people \subseteq 0..S.total_people-1
    BY DEF TrackerOK, Reaches
<1>2. Open(S) \subseteq Open(T) \cup New
  <2> SUFFICES ASSUME NEW i \in Open(S), i \notin Open(T) PROVE i \in New
      OBVIOUS
  <2>1. i \in DOMAIN S.people /\ S.people[i].counted_ = "NOTYET" /\ S.people[i].direction_ = "UNKNOWNDIR"
      BY DEF Open, Uncounted
  <2>2. i \notin DOMAIN T.people
      BY <2>1 DEF Reaches, Grows, Open, Uncounted
  <2>3. i >= T.total_people /\ i \in 0..S.total_people-1
      BY <1>1, <2>1, <2>2 DEF Reaches, Grows
  <2> QED
      BY <1>1, <2>3
<1>3. IsFiniteSet(New) /\ Cardinality(New) = k
  <2>1. T.total_people \in Int /\ T.total_people + k - 1 \in Int
      BY <1>1
  <2>2. IsFiniteSet(New)
      BY <2>1, FS_Interval
  <2>3. Cardinality(New) = IF T.total_people > T.total_people + k - 1 THEN 0
                           ELSE (T.total_people + k - 1) - T.total_people + 1
      BY <2>1, FS_Interval
  <2> HIDE DEF New
  <2> QED
      BY <1>1, <2>2, <2>3
<1> HIDE DEF New
<1>4. IsFiniteSet(Open(T)) /\ Cardinality(Open(T)) \in Nat
    BY OpenFact
<1>5. /\ IsFiniteSet(Open(T) \cup New)
      /\ Cardinality(Open(T) \cup New) =
            Cardinality(Open(T)) + Cardinality(New) - Cardinality(Open(T) \cap New)
    BY <1>3, <1>4, FS_Union
<1>6. Cardinality(Open(T) \cap New) \in Nat
    BY <1>4, FS_Intersection, FS_CardinalityType
<1>7. Cardinality(Open(S)) \in Nat /\ Cardinality(Open(S)) <= Cardinality(Open(T) \cup New)
    BY <1>2, <1>5, SubsetFact
<1> QED
    BY <1>3, <1>4, <1>5, <1>6, <1>7
-----------------------------------------------------------------------------
(* How many people the matcher adds.                                       *)

LEMMA CreateAdds ==
    ASSUME NEW n, NEW T, TrackerOK(T, n), NEW ring, NEW b, NEW key
    PROVE  Create(T, ring, b, key).total_people \in {T.total_people, T.total_people + 1}
BY DEF Create

LEMMA ExtendAdds ==
    ASSUME NEW T, NEW i, NEW b, NEW key
    PROVE  Extend(T, i, b, key).total_people = T.total_people
BY DEF Extend, With

LEMMA OneBodyFew ==
    ASSUME NEW n \in Nat, NEW T, TrackerOK(T, n), NEW ring, NEW m \in Nat, RingOK(ring, m),
           NEW f, f.found_bodies[1] \in Body, f.frameN \in 0..n-1, NEW key \in 0..n-1, Few(T)
    PROVE  Few(OneBody(T, ring, f, key))
<1> DEFINE b == f.found_bodies[1]
           S == OneBody(T, ring, f, key)
           size == Cardinality(DOMAIN T.people)
<1>1. Reaches(T, S, n)
    BY OneBodyOK
<1>2. T.total_people \in Nat /\ S.total_people \in Nat
    BY <1>1 DEF TrackerOK, Reaches
<1>3. /\ Cardinality(Open(T)) \in Nat /\ Cardinality(Open(T)) <= size /\ size \in Nat
      /\ Undirected(T) = {} => Cardinality(Open(T)) = 0
    BY OpenFact
<1>4. CASE size \in {0, 1}
  <2>1. S \in {Create(T, ring, b, f.frameN), Extend(T, Min(DOMAIN T.people), b, f.frameN)}
      BY <1>4 DEF OneBody, OneOne
  <2>2. S.total_people <= T.total_people + 1
      BY <1>2, <2>1, CreateAdds, ExtendAdds
  <2>3. Cardinality(Open(S)) <= Cardinality(Open(T)) + 1
      BY <1>1, <2>2, OpenGrows
  <2> HIDE DEF S
  <2>4. Cardinality(Open(S)) \in Nat
      BY <1>1, OpenFact DEF Reaches
  <2> QED
      BY <1>3, <1>4, <2>3, <2>4 DEF Few, S
<1>5. CASE size = 2
  <2>1. S = TwoOne(T, ring, b, key)
      BY <1>5 DEF OneBody
  <2>2. CASE Undirected(T) = {}
    <3>1. \/ \E i : S = Extend(T, i, b, key)
          \/ S = Create(T, ring, b, key)
        BY <2>1, <2>2 DEF TwoOne
    <3>2. S.total_people <= T.total_people + 1
        BY <1>2, <3>1, CreateAdds, ExtendAdds
    <3>3. Cardinality(Open(S)) <= Cardinality(Open(T)) + 1
        BY <1>1, <3>2, OpenGrows
    <3> HIDE DEF S
    <3>4. Cardinality(Open(S)) \in Nat
        BY <1>1, OpenFact DEF Reaches
    <3> QED
        BY <1>3, <2>2, <3>3, <3>4 DEF Few, S
  <2>3. CASE Undirected(T) # {}
    <3>1. \/ \E i : S = Extend(T, i, b, key)
          \/ S = T
        BY <2>1, <2>3 DEF TwoOne
    <3>2. S.total_people <= T.total_people + 0
        BY <1>2, <3>1, ExtendAdds
    <3>3. Cardinality(Open(S)) <= Cardinality(Open(T)) + 0
        BY <1>1, <3>2, OpenGrows
    <3> HIDE DEF S
    <3>4. Cardinality(Open(S)) \in Nat
        BY <1>1, OpenFact DEF Reaches
    <3> QED
        BY <1>3, <3>3, <3>4 DEF Few, S
  <2> QED
      BY <2>2, <2>3
<1>6. CASE size \notin {0, 1, 2}
    BY <1>6 DEF OneBody
<1> QED
    BY <1>4, <1>5, <1>6

LEMMA StillFew ==
    ASSUME NEW n, NEW T, NEW S, TrackerOK(T, n), Reaches(T, S, n), NEW k \in Nat,
           S.total_people <= T.total_people + k, Cardinality(Open(T)) + k <= 2
    PROVE  Few(S)
<1>1. Cardinality(Open(S)) <= Cardinality(Open(T)) + k
    BY OpenGrows
<1>2. Cardinality(Open(S)) \in Nat /\ Cardinality(Open(T)) \in Nat
    BY OpenFact DEF Reaches
<1> QED
    BY <1>1, <1>2 DEF Few

LEMMA TwoElements ==
    ASSUME NEW a, NEW b, a # b
    PROVE  Cardinality({a, b}) = 2
<1>1. IsFiniteSet({a}) /\ Cardinality({a}) = 1
    BY FS_Singleton
<1>2. Cardinality({a} \cup {b}) = Cardinality({a}) + 1
    BY <1>1, FS_AddElement
<1>3. {a} \cup {b} = {a, b}
    OBVIOUS
<1> QED
    BY <1>1, <1>2, <1>3

\* The two ids of two people.
LEMMA TwoIds ==
    ASSUME NEW n, NEW T, TrackerOK(T, n), Cardinality(DOMAIN T.people) = 2
    PROVE  DOMAIN T.people = {Min(DOMAIN T.people), Max(DOMAIN T.people)}
<1> DEFINE D == DOMAIN T.people
           a == Min(D)
           b == Max(D)
<1>1. D # {} /\ D \subseteq Nat /\ D \subseteq 0..T.total_people /\ T.total_people \in Nat
    BY NotEmptyFact DEF TrackerOK
<1>2. IsFiniteSet(D) /\ Cardinality(D) = 2
    BY IdsFinite
<1> HIDE DEF D
<1>3. /\ a \in D /\ \A y \in D : a <= y
      /\ b \in D /\ \A y \in D : b >= y
    BY <1>1, MinFact, MaxFact
<1> HIDE DEF a, b
<1>4. a # b
  <2> SUFFICES ASSUME a = b PROVE FALSE
      OBVIOUS
  <2>1. ASSUME NEW y \in D PROVE y = a
    <3>1. y \in Nat /\ a \in Nat
        BY <1>1, <1>3
    <3>2. a <= y /\ a >= y
        BY <1>3
    <3> QED
        BY <3>1, <3>2
  <2>2. D = {a}
      BY <1>3, <2>1
  <2>3. Cardinality({a}) = 1
      BY FS_Singleton
  <2> QED
      BY <1>2, <2>2, <2>3
<1>5. Cardinality({a, b}) = 2
    BY <1>4, TwoElements
<1>6. {a, b} \in SUBSET D
    BY <1>3
<1>7. D = {a, b}
    BY <1>2, <1>5, <1>6, FS_Subset
<1> QED
    BY <1>7 DEF D, a, b

LEMMA OneTwoAdds ==
    ASSUME NEW n \in Nat, NEW T, TrackerOK(T, n), NEW ring, NEW m \in Nat, RingOK(ring, m),
           NEW bs \in Pair, NEW key \in 0..n-1, DOMAIN T.people # {}
    PROVE  OneTwo(T, ring, bs, key).total_people <= T.total_people + 1
<1> DEFINE i == Min(DOMAIN T.people)
           w == Newcomer(T.people[i], bs)
           S == Extend(T, i, bs[3 - w], key)
<1>1. T.total_people \in Nat /\ w \in {0, 1, 2}
    BY DEF TrackerOK, Newcomer
<1>2. CASE w = 0
    BY <1>1, <1>2 DEF OneTwo
<1>3. CASE w # 0
  <2>1. bs[3 - w] \in Body /\ i \in DOMAIN T.people
      BY <1>1, <1>3, IdsFact DEF Pair
  <2>2. TrackerOK(S, n)
      BY <2>1, ExtendOK
  <2>3. S.total_people = T.total_people
      BY ExtendAdds
  <2>4. OneTwo(T, ring, bs, key) = Create(S, ring, bs[w], key)
      BY <1>3 DEF OneTwo
  <2> HIDE DEF S, w
  <2> QED
      BY <1>1, <2>2, <2>3, <2>4, CreateAdds
<1> QED
    BY <1>2, <1>3

\* One side is filled: a person for each of the two bodies on it.
On(bs, side) == (IF bs[1].side = side THEN 1 ELSE 0) + (IF bs[2].side = side THEN 1 ELSE 0)

LEMMA CreateOnAdds ==
    ASSUME NEW n \in Nat, NEW T, TrackerOK(T, n), NEW ring, NEW m \in Nat, RingOK(ring, m),
           NEW bs \in Pair, NEW side, NEW key \in 0..n-1
    PROVE  CreateOn(T, ring, bs, side, key).total_people <= T.total_people + On(bs, side)
<1> DEFINE one == IF bs[1].side = side THEN Create(T, ring, bs[1], key) ELSE T
<1>1. bs[1] \in Body /\ T.total_people \in Nat
    BY DEF Pair, TrackerOK
<1>2. TrackerOK(one, n)
    BY <1>1, CreateOK
<1>3. one.total_people <= T.total_people + (IF bs[1].side = side THEN 1 ELSE 0)
    BY <1>1, CreateAdds
<1>4. CreateOn(T, ring, bs, side, key) =
         IF bs[2].side = side THEN Create(one, ring, bs[2], key) ELSE one
    BY DEF CreateOn
<1> HIDE DEF one
<1>5. one.total_people \in Nat
    BY <1>2 DEF TrackerOK
<1> QED
    BY <1>1, <1>2, <1>3, <1>4, <1>5, CreateAdds DEF On

LEMMA TwoTwoFew ==
    ASSUME NEW n \in Nat, NEW T, TrackerOK(T, n), NEW ring, NEW m \in Nat, RingOK(ring, m),
           NEW bs \in Pair, NEW key \in 0..n-1, Cardinality(DOMAIN T.people) = 2, NEW stale
    PROVE  Few(TwoTwo(T, ring, bs, key, stale))
<1> DEFINE p1 == Min(DOMAIN T.people)
           p2 == Max(DOMAIN T.people)
           directions == {T.people[p1].direction_, T.people[p2].direction_}
           S == TwoTwo(T, ring, bs, key, stale)
           newLeft == CreateOn(T, ring, bs, LEFTSIDE, key)
           newRight == CreateOn(T, ring, bs, RIGHTSIDE, key)
           both == CreateOn(newLeft, ring, bs, RIGHTSIDE, key)
<1>1. DOMAIN T.people # {}
    BY NotEmptyFact
<1>2. Reaches(T, S, n)
    BY <1>1, TwoTwoOK
<1>3. T.total_people \in Nat
    BY DEF TrackerOK
<1>4. Cardinality(Open(T)) \in Nat /\ Cardinality(Open(T)) <= 2
    BY OpenFact
<1>5. CASE S.total_people = T.total_people
  <2>1. S.total_people <= T.total_people + 0 /\ Cardinality(Open(T)) + 0 <= 2
      BY <1>3, <1>4, <1>5
  <2> HIDE DEF S
  <2>2. Few(S)
      BY <1>2, <2>1, StillFew
  <2> QED
      BY <2>2 DEF S
<1>6. CASE "UNKNOWNDIR" \in directions
  <2>1. \E i, j, b, c : S = Extend(Extend(T, i, b, key), j, c, key)
      BY <1>6 DEF TwoTwo
  <2>2. S.total_people = T.total_people
      BY <2>1, ExtendAdds
  <2> QED
      BY <1>5, <2>2
<1>7. CASE "UNKNOWNDIR" \notin directions
  <2>1. S \in {T, newLeft, newRight, both}
      BY <1>7 DEF TwoTwo
  <2>2. /\ newLeft.total_people <= T.total_people + 2
        /\ newRight.total_people <= T.total_people + 2
        /\ both.total_people <= T.total_people + 2
    <3> DEFINE l == On(bs, LEFTSIDE)
               r == On(bs, RIGHTSIDE)
    <3>1. l \in Nat /\ r \in Nat /\ l + r <= 2
        BY DEF On, LEFTSIDE, RIGHTSIDE
    <3>2. TrackerOK(newLeft, n) /\ Reaches(T, newRight, n)
        BY CreateOnOK DEF Reaches
    <3>3. Reaches(newLeft, both, n)
        BY <3>2, CreateOnOK
    <3>4. /\ newLeft.total_people <= T.total_people + l
          /\ newRight.total_people <= T.total_people + r
        BY CreateOnAdds
    <3> HIDE DEF newLeft, newRight, l, r
    <3>5. both.total_people <= newLeft.total_people + r
        BY <3>2, CreateOnAdds DEF r
    <3> HIDE DEF both
    <3>6. newLeft.total_people \in Nat /\ newRight.total_people \in Nat /\ both.total_people \in Nat
        BY <3>2, <3>3 DEF Reaches, TrackerOK
    <3> QED
        BY <1>3, <3>1, <3>4, <3>5, <3>6
  <2>3. Undirected(T) = {}
    <3>1. DOMAIN T.people = {p1, p2}
        BY TwoIds
    <3> HIDE DEF p1, p2
    <3> QED
        BY <1>7, <3>1 DEF Undirected
  <2>4. Cardinality(Open(T)) + 2 <= 2
      BY <2>3, OpenFact
  <2>5. S.total_people <= T.total_people + 2
      BY <1>3, <2>1, <2>2
  <2> HIDE DEF S
  <2>6. Few(S)
      BY <1>2, <2>4, <2>5, StillFew
  <2> QED
      BY <2>6 DEF S
<1> QED
    BY <1>6, <1>7

LEMMA TwoBodiesFew ==
    ASSUME NEW n \in Nat, NEW T, TrackerOK(T, n), NEW ring, NEW m \in Nat, RingOK(ring, m),
           NEW f, f.found_bodies \in Pair, f.frameN \in 0..n-1, NEW key \in 0..n-1, NEW stale,
           Few(T)
    PROVE  Few(TwoBodies(T, ring, f, key, stale))
<1> DEFINE bs == f.found_bodies
           R == Create(T, ring, bs[1], f.frameN)
           U == Create(R, ring, bs[2], f.frameN)
           S == IF DOMAIN T.people # {} THEN T ELSE U
           size == Cardinality(DOMAIN S.people)
<1>1. bs[1] \in Body /\ bs[2] \in Body /\ T.total_people \in Nat
    BY DEF Pair, TrackerOK
<1>2. Reaches(T, R, n)
    BY <1>1, CreateOK DEF Reaches
<1>3. Reaches(R, U, n)
    BY <1>1, <1>2, CreateOK DEF Reaches
<1>4. Reaches(T, S, n)
    BY <1>2, <1>3, ReachesTrans, ReachesSelf
<1>5. Few(S)
  <2>1. CASE DOMAIN T.people # {}
      BY <2>1
  <2>2. CASE DOMAIN T.people = {}
    <3>1. Undirected(T) = {}
        BY <2>2 DEF Undirected
    <3>2. Cardinality(Open(T)) + 2 <= 2
        BY <3>1, OpenFact
    <3> HIDE DEF R
    <3>0. R.total_people \in {T.total_people, T.total_people + 1}
        BY CreateAdds DEF R
    <3>3. R.total_people \in Nat /\ R.total_people <= T.total_people + 1
        BY <1>1, <3>0
    <3>4. U.total_people \in {R.total_people, R.total_people + 1}
        BY <1>2, CreateAdds DEF Reaches
    <3>5. S = U
        BY <2>2
    <3> HIDE DEF U, S
    <3>6. S.total_people <= T.total_people + 2
        BY <1>1, <3>3, <3>4, <3>5
    <3> QED
        BY <1>4, <3>2, <3>6, StillFew
  <2> QED
      BY <2>1, <2>2
<1>6. TwoBodies(T, ring, f, key, stale) =
        CASE size = 1 -> OneTwo(S, ring, bs, key)
          [] size = 2 -> TwoTwo(S, ring, bs, key, stale)
          [] OTHER -> S
    BY DEF TwoBodies
<1> HIDE DEF S
<1>7. TrackerOK(S, n)
    BY <1>4 DEF Reaches
<1>8. CASE size = 1
  <2> DEFINE V == OneTwo(S, ring, bs, key)
  <2>1. DOMAIN S.people # {}
      BY <1>8, NotEmptyFact
  <2>2. Reaches(S, V, n) /\ V.total_people <= S.total_people + 1
      BY <1>7, <2>1, OneTwoOK, OneTwoAdds
  <2>3. Cardinality(Open(S)) + 1 <= 2
      BY <1>7, <1>8, OpenFact
  <2>4. TwoBodies(T, ring, f, key, stale) = V
      BY <1>6, <1>8
  <2> HIDE DEF V
  <2> QED
      BY <1>7, <2>2, <2>3, <2>4, StillFew
<1>9. CASE size = 2
  <2>1. TwoBodies(T, ring, f, key, stale) = TwoTwo(S, ring, bs, key, stale)
      BY <1>6, <1>9
  <2> QED
      BY <1>7, <1>9, <2>1, TwoTwoFew
<1>10. CASE size \notin {1, 2}
    BY <1>5, <1>6, <1>10
<1> QED
    BY <1>8, <1>9, <1>10

\* match_body_person leaves at most two people open.
LEMMA MatchedFew ==
    ASSUME NEW n \in Nat, NEW T, TrackerOK(T, n + 1), NEW ring, RingOK(ring, n), NEW stale, Few(T)
    PROVE  Few(Matched(T, ring, n, stale))
<1> DEFINE f == Delayed(ring, n)
           M == IF NumBodies(f) = 1 THEN OneBody(T, ring, f, n)
                ELSE TwoBodies(T, ring, f, n, stale)
           D == With(M, Directed(M.people))
<1>1. IsFrame(f, n)
  <2>1. n - MatchDelay \in Int
      BY TrackerAssumption
  <2> QED
      BY <2>1, SlotFact DEF Delayed, Back, RingOK
<1>2. f.frameN \in 0..(n + 1) - 1 /\ n \in 0..(n + 1) - 1 /\ n + 1 \in Nat
    BY <1>1 DEF IsFrame
<1>3. CASE ~IsCorrect(ring, Slot(f.frameN)) \/ NumBodies(f) = 0
    BY <1>3 DEF Matched
<1>4. CASE ~(~IsCorrect(ring, Slot(f.frameN)) \/ NumBodies(f) = 0)
  <2>1. Matched(T, ring, n, stale) = D
      BY <1>4 DEF Matched
  <2> HIDE DEF f
  <2>2. TrackerOK(M, n + 1) /\ Few(M)
    <3>1. CASE NumBodies(f) = 1
      <4>1. f.found_bodies[1] \in Body
          BY <1>1, <3>1 DEF IsFrame, NumBodies
      <4>2. M = OneBody(T, ring, f, n)
          BY <3>1
      <4> HIDE DEF M
      <4> QED
          BY <1>2, <4>1, <4>2, OneBodyOK, OneBodyFew DEF Reaches
    <3>2. CASE NumBodies(f) # 1
      <4> DEFINE bs == f.found_bodies
      <4>0. Len(bs) \in 0..2 /\ bs \in [1..Len(bs) -> Body] /\ Len(bs) # 0 /\ Len(bs) # 1
          BY <1>1, <1>4, <3>2 DEF IsFrame, NumBodies
      <4> HIDE DEF bs
      <4>1. Len(bs) = 2
          BY <4>0
      <4>2. bs \in Pair
          BY <4>0, <4>1 DEF Pair
      <4> USE DEF bs
      <4>3. M = TwoBodies(T, ring, f, n, stale)
          BY <3>2
      <4> HIDE DEF M
      <4> QED
          BY <1>2, <4>2, <4>3, TwoBodiesOK, TwoBodiesFew DEF Reaches
    <3> QED
        BY <3>1, <3>2
  <2> HIDE DEF M
  <2>3. Reaches(M, D, n + 1) /\ D.total_people = M.total_people
      BY <1>2, <2>2, DirectedOK DEF With
  <2> HIDE DEF D
  <2>4. M.total_people \in Nat /\ Cardinality(Open(M)) \in Nat
      BY <2>2, OpenFact DEF TrackerOK
  <2>5. D.total_people <= M.total_people + 0 /\ Cardinality(Open(M)) + 0 <= 2
      BY <2>2, <2>3, <2>4 DEF Few
  <2> QED
      BY <2>1, <2>2, <2>3, <2>5, StillFew
<1> QED
    BY <1>3, <1>4
-----------------------------------------------------------------------------
(* Who is kept.                                                            *)

\* Someone kept uncounted is still open, or at most two people are kept.
LEMMA KeptFew ==
    ASSUME NEW n \in Nat, NEW T, TrackerOK(T, n + 1), Few(T), NEW E \in SUBSET DOMAIN T.people,
           ErasedBy(T.people, n, E)
    PROVE  Cardinality(Uncounted(Kept(T.people, E))) <= 2
<1> DEFINE P == T.people
           Q == Kept(P, E)
           left == DOMAIN P \ E
<1>1. DOMAIN Q = left /\ Uncounted(Q) \subseteq left
    BY DEF Kept, Uncounted
<1>2. /\ IsFiniteSet(DOMAIN P) /\ IsFiniteSet(E) /\ IsFiniteSet(left)
      /\ Cardinality(left) = Cardinality(DOMAIN P) - Cardinality(E)
      /\ Cardinality(DOMAIN P) \in Nat /\ Cardinality(E) \in Nat
  <2>1. IsFiniteSet(DOMAIN P) /\ IsFiniteSet(E)
      BY IdsFinite, FS_Subset
  <2>2. Cardinality(left) = Cardinality(DOMAIN P) - Cardinality(DOMAIN P \cap E)
      BY <2>1, FS_Difference
  <2>3. DOMAIN P \cap E = E
      OBVIOUS
  <2> QED
      BY <2>1, <2>2, <2>3, FS_Difference, FS_CardinalityType
<1>3. CASE \E i \in Uncounted(Q) : i \notin Open(T)
  <2>1. PICK i \in Uncounted(Q) : i \notin Open(T)
      BY <1>3
  <2>2. i \in left /\ IsPerson(P[i], n + 1) /\ Q[i].counted_ = "NOTYET"
      BY <1>1, <2>1 DEF Uncounted, TrackerOK
  <2>3. ~IsLong(P[i]) /\ Countable(P[i])
    <3>1. CASE IsLong(P[i])
      <4>1. Q[i] = [P[i] EXCEPT !.trajectory = Cut(P[i]), !.counted_ = Mark(P[i])]
          BY <2>2, <3>1 DEF Kept
      <4>2. Mark(P[i]) = "NOTYET"
          BY <2>2, <4>1 DEF IsPerson
      <4>3. ~Countable(P[i]) /\ P[i].counted_ = "NOTYET"
          BY <4>2 DEF Mark
      <4>4. P[i].direction_ = "UNKNOWNDIR"
          BY <2>2, <4>3 DEF Countable, IsPerson, Direction
      <4> QED
          BY <2>1, <2>2, <4>3, <4>4 DEF Open, Uncounted
    <3>2. CASE ~IsLong(P[i])
      <4>1. P[i].counted_ = "NOTYET"
          BY <2>2, <3>2 DEF Kept
      <4>2. P[i].direction_ # "UNKNOWNDIR"
          BY <2>1, <2>2, <4>1 DEF Open, Uncounted
      <4> QED
          BY <2>2, <3>2, <4>1, <4>2 DEF Countable, IsPerson, Direction
    <3> QED
        BY <3>1, <3>2
  <2> DEFINE above == {j \in E : j > i}
  <2>4. ~Crowded(P, E, i)
      BY <2>2, <2>3 DEF ErasedBy
  <2>5. Cardinality(above) \in Nat /\ Cardinality(above) <= Cardinality(E)
      BY <1>2, SubsetFact
  <2>6. ~(Cardinality(DOMAIN P) - Cardinality(above) > 2)
      BY <2>4 DEF Crowded
  <2> HIDE DEF above
  <2>7. Cardinality(left) \in Nat /\ Cardinality(left) <= 2
      BY <1>2, <2>5, <2>6, FS_CardinalityType
  <2> QED
      BY <1>1, <1>2, <2>7, SubsetFact
<1>4. CASE ~ \E i \in Uncounted(Q) : i \notin Open(T)
  <2>1. Uncounted(Q) \subseteq Open(T)
      BY <1>4
  <2>2. IsFiniteSet(Open(T)) /\ Cardinality(Open(T)) \in Nat
      BY OpenFact
  <2> QED
      BY <2>1, <2>2, SubsetFact DEF Few
<1> QED
    BY <1>3, <1>4
-----------------------------------------------------------------------------
LEMMA StepFew ==
    ASSUME IInv, AtMostTwoUncounted, NEW scene \in Scenes, NEW stale, ProcessFrame(scene, stale)
    PROVE  AtMostTwoUncounted'
<1> DEFINE n == frameN
           ring == [frames EXCEPT ![Slot(n)] = FrameOf(n, scene)]
           T0 == [people |-> people, total_people |-> total_people, capacity |-> capacity]
           T == Matched(T0, ring, n, stale)
<1>1. n \in Nat /\ RingOK(frames, n)
    BY DEF IInv, TypeOK, RingOK
<1>2. RingOK(ring, n)
  <2>1. Slot(n) \in 0..HISTORY_LENGTH-1
      BY <1>1, SlotFact DEF Slot
  <2>2. IsFrame(FrameOf(n, scene), n)
      BY <1>1, FrameOfType
  <2> QED
      BY <1>1, <2>1, <2>2 DEF RingOK
<1>3. TrackerOK(T0, n + 1)
  <2>1. \A j \in DOMAIN people : IsPerson(people[j], n + 1)
      BY <1>1 DEF IInv, TypeOK, IsPerson, IsTrajectory
  <2> QED
      BY <2>1 DEF TrackerOK, With, IInv, TypeOK
<1>4. Few(T0)
  <2>1. Open(T0) \subseteq Uncounted(people) /\ Uncounted(people) \subseteq DOMAIN T0.people
      BY DEF Open, Uncounted
  <2>2. Cardinality(Uncounted(people)) <= 2
      BY DEF AtMostTwoUncounted, Uncounted
  <2>3. IsFiniteSet(Uncounted(people))
      BY <1>3, <2>1, IdsFinite, FS_Subset
  <2>4. /\ Cardinality(Open(T0)) \in Nat /\ Cardinality(Uncounted(people)) \in Nat
        /\ Cardinality(Open(T0)) <= Cardinality(Uncounted(people))
      BY <2>1, <2>3, SubsetFact
  <2> QED
      BY <2>2, <2>4 DEF Few
<1> HIDE DEF ring, T0
<1>5. TrackerOK(T, n + 1) /\ Few(T)
    BY <1>1, <1>2, <1>3, <1>4, MatchedOK, MatchedFew DEF Reaches
<1> HIDE DEF T
<1>6. PICK E \in SUBSET DOMAIN T.people : ErasedBy(T.people, n, E) /\ people' = Kept(T.people, E)
    BY DEF ProcessFrame, T, T0, ring
<1> HIDE DEF n
<1>7. Cardinality(Uncounted(people')) <= 2
    BY <1>1, <1>5, <1>6, KeptFew
<1> QED
    BY <1>7 DEF AtMostTwoUncounted, Uncounted

\* At most two uncounted people survive a frame, for any sequence of frames.
THEOREM AtMostTwo == Spec => []AtMostTwoUncounted
<1>1. Init => AtMostTwoUncounted
  <2> SUFFICES ASSUME Init PROVE AtMostTwoUncounted
      OBVIOUS
  <2>1. {i \in DOMAIN people : people[i].counted_ = "NOTYET"} = {}
      BY DEF Init
  <2> QED
      BY <2>1, FS_EmptySet DEF AtMostTwoUncounted
<1>2. IInv /\ AtMostTwoUncounted /\ [Next]_vars => AtMostTwoUncounted'
    BY StepFew DEF Next, vars, AtMostTwoUncounted
<1> QED
    BY Invariance, <1>1, <1>2, PTL DEF Spec
-----------------------------------------------------------------------------
(***************************************************************************)
(* A body is given to one person.  Touched is who got an entry between two *)
(* states of the tracker; every helper of the matcher touches the persons  *)
(* it names and nobody else, and the touched add up along a sequence of    *)
(* helpers.                                                                *)
(***************************************************************************)

Entries(T, i) == IF i \in DOMAIN T.people THEN DOMAIN T.people[i].trajectory ELSE {}

\* The persons of S who are new, or have an entry that they lack in T.
Touched(T, S) == {i \in DOMAIN S.people : ~(DOMAIN S.people[i].trajectory \subseteq Entries(T, i))}

GivesOne(T, S) == \E a : Touched(T, S) \subseteq {a}
GivesTwo(T, S) == \E a, b : Touched(T, S) \subseteq {a, b}

LEMMA TouchedSelf == ASSUME NEW T PROVE Touched(T, T) = {}
BY DEF Touched, Entries

LEMMA TouchedAdds ==
    ASSUME NEW T, NEW S, NEW U
    PROVE  Touched(T, U) \subseteq Touched(T, S) \cup Touched(S, U)
BY DEF Touched, Entries

LEMMA ExtendTouches ==
    ASSUME NEW n, NEW T, TrackerOK(T, n), NEW i \in DOMAIN T.people, NEW b, NEW key
    PROVE  /\ Touched(T, Extend(T, i, b, key)) \subseteq {i}
           /\ DOMAIN Extend(T, i, b, key).people = DOMAIN T.people
BY DEF Touched, Entries, Extend, With, Record

LEMMA CreateTouches ==
    ASSUME NEW n, NEW T, TrackerOK(T, n), NEW ring, NEW b, NEW key
    PROVE  /\ Touched(T, Create(T, ring, b, key)) \subseteq {T.total_people}
           /\ DOMAIN Create(T, ring, b, key).people \subseteq DOMAIN T.people \cup {T.total_people}
BY TouchedSelf DEF Touched, Entries, Create, Record, TrackerOK

\* A newcomer on the side of body k only for body k.
LEMMA CreateOnTouches ==
    ASSUME NEW n \in Nat, NEW T, TrackerOK(T, n), NEW ring, NEW m \in Nat, RingOK(ring, m),
           NEW bs \in Pair, NEW side, NEW key \in 0..n-1
    PROVE  \E a, b : Touched(T, CreateOn(T, ring, bs, side, key))
                       \subseteq {x \in {a} : bs[1].side = side} \cup {x \in {b} : bs[2].side = side}
<1> DEFINE one == IF bs[1].side = side THEN Create(T, ring, bs[1], key) ELSE T
           both == CreateOn(T, ring, bs, side, key)
           a == T.total_people
           b == one.total_people
<1>1. bs[1] \in Body
    BY DEF Pair
<1>2. TrackerOK(one, n)
    BY <1>1, CreateOK
<1>3. Touched(T, one) \subseteq {x \in {a} : bs[1].side = side}
    BY CreateTouches, TouchedSelf
<1>4. both = IF bs[2].side = side THEN Create(one, ring, bs[2], key) ELSE one
    BY DEF CreateOn
<1> HIDE DEF one, both
<1>5. Touched(one, both) \subseteq {x \in {b} : bs[2].side = side}
    BY <1>2, <1>4, CreateTouches, TouchedSelf
<1>6. Touched(T, both) \subseteq {x \in {a} : bs[1].side = side} \cup {x \in {b} : bs[2].side = side}
    BY <1>3, <1>5, TouchedAdds
<1> QED
    BY <1>6 DEF both

LEMMA OneBodyGives ==
    ASSUME NEW n \in Nat, NEW T, TrackerOK(T, n), NEW ring, NEW f, NEW key
    PROVE  GivesOne(T, OneBody(T, ring, f, key))
<1> DEFINE b == f.found_bodies[1]
           S == OneBody(T, ring, f, key)
           size == Cardinality(DOMAIN T.people)
<1>1. ASSUME NEW k PROVE GivesOne(T, Create(T, ring, b, k))
    BY CreateTouches DEF GivesOne
<1>2. ASSUME NEW i \in DOMAIN T.people, NEW k PROVE GivesOne(T, Extend(T, i, b, k))
    BY ExtendTouches DEF GivesOne
<1>3. GivesOne(T, T)
    BY TouchedSelf DEF GivesOne
<1>4. CASE size = 0
    BY <1>1, <1>4 DEF OneBody
<1>5. CASE size = 1
  <2>1. Min(DOMAIN T.people) \in DOMAIN T.people
      BY <1>5, NotEmptyFact, IdsFact
  <2>2. S = OneOne(T, ring, b, f)
      BY <1>5 DEF OneBody
  <2> QED
      BY <1>1, <1>2, <2>1, <2>2 DEF OneOne
<1>6. CASE size = 2
  <2> DEFINE ids == DOMAIN T.people
             candidates ==
               IF Undirected(T) = ids THEN {i \in ids : First(T.people[i]) # b.side}
               ELSE IF Undirected(T) = {} THEN {i \in ids : is_match(T.people[i], b)}
               ELSE Undirected(T)
  <2>1. candidates \subseteq ids /\ ids \subseteq Nat
      BY DEF Undirected, TrackerOK
  <2>2. S = TwoOne(T, ring, b, key)
      BY <1>6 DEF OneBody
  <2>3. S = IF candidates # {} THEN Extend(T, Min(candidates), b, key)
            ELSE IF Undirected(T) = {} THEN Create(T, ring, b, key) ELSE T
      BY <2>2 DEF TwoOne
  <2> HIDE DEF candidates
  <2>4. candidates # {} => Min(candidates) \in DOMAIN T.people
      BY <2>1, MinFact
  <2> QED
      BY <1>1, <1>2, <1>3, <2>3, <2>4
<1>7. CASE size \notin {0, 1, 2}
    BY <1>3, <1>7 DEF OneBody
<1> QED
    BY <1>4, <1>5, <1>6, <1>7

LEMMA OneTwoTouches ==
    ASSUME NEW n \in Nat, NEW T, TrackerOK(T, n), NEW ring,
           NEW bs \in Pair, NEW key \in 0..n-1, DOMAIN T.people # {}
    PROVE  Touched(T, OneTwo(T, ring, bs, key)) \subseteq {Min(DOMAIN T.people), T.total_people}
<1> DEFINE i == Min(DOMAIN T.people)
           w == Newcomer(T.people[i], bs)
           S == Extend(T, i, bs[3 - w], key)
           V == OneTwo(T, ring, bs, key)
<1>1. i \in DOMAIN T.people /\ w \in {0, 1, 2}
    BY IdsFact DEF Newcomer
<1>2. CASE w = 0
    BY <1>2, TouchedSelf DEF OneTwo
<1>3. CASE w # 0
  <2>1. bs[3 - w] \in Body
      BY <1>1, <1>3 DEF Pair
  <2>2. TrackerOK(S, n) /\ S.total_people = T.total_people
      BY <1>1, <2>1, ExtendOK, ExtendAdds
  <2>3. V = Create(S, ring, bs[w], key)
      BY <1>3 DEF OneTwo
  <2>4. Touched(T, S) \subseteq {i}
      BY <1>1, ExtendTouches
  <2> HIDE DEF S, w, i
  <2>5. Touched(S, V) \subseteq {T.total_people}
      BY <2>2, <2>3, CreateTouches
  <2>6. Touched(T, V) \subseteq Touched(T, S) \cup Touched(S, V)
      BY TouchedAdds
  <2>7. Touched(T, V) \subseteq {i, T.total_people}
      BY <2>4, <2>5, <2>6
  <2> QED
      BY <2>7 DEF i
<1> QED
    BY <1>2, <1>3

\* Two persons of unknown direction are both extended.
LEMMA TwoTwoOpen ==
    ASSUME NEW n \in Nat, NEW T, TrackerOK(T, n), NEW ring,
           NEW bs \in Pair, NEW key \in 0..n-1, DOMAIN T.people # {}, NEW stale,
           \/ T.people[Min(DOMAIN T.people)].direction_ = "UNKNOWNDIR"
           \/ T.people[Max(DOMAIN T.people)].direction_ = "UNKNOWNDIR"
    PROVE  Touched(T, TwoTwo(T, ring, bs, key, stale))
             \subseteq {Min(DOMAIN T.people), Max(DOMAIN T.people)}
<1> DEFINE p1 == Min(DOMAIN T.people)
           p2 == Max(DOMAIN T.people)
           near == IF bs[1].cx <= bs[2].cx THEN 1 ELSE 2
           S == Extend(T, p1, bs[near], key)
           U == Extend(S, p2, bs[3 - near], key)
<1>1. p1 \in DOMAIN T.people /\ p2 \in DOMAIN T.people
    BY IdsFact
<1>2. bs[near] \in Body
    BY DEF Pair
<1>3. TwoTwo(T, ring, bs, key, stale) = U
    BY DEF TwoTwo
<1>4. TrackerOK(S, n) /\ Touched(T, S) \subseteq {p1} /\ DOMAIN S.people = DOMAIN T.people
    BY <1>1, <1>2, ExtendOK, ExtendTouches
<1> HIDE DEF S, near
<1>5. Touched(S, U) \subseteq {p2}
    BY <1>1, <1>4, ExtendTouches
<1> HIDE DEF p1, p2, U
<1>6. Touched(T, U) \subseteq {p1, p2}
    BY <1>4, <1>5, TouchedAdds
<1> QED
    BY <1>3, <1>6 DEF p1, p2

LEMMA TwoTwoGives ==
    ASSUME NEW n \in Nat, NEW T, TrackerOK(T, n), NEW ring, NEW m \in Nat, RingOK(ring, m),
           NEW bs \in Pair, NEW key \in 0..n-1, DOMAIN T.people # {}, NEW stale
    PROVE  GivesTwo(T, TwoTwo(T, ring, bs, key, stale))
<1> DEFINE p1 == Min(DOMAIN T.people)
           p2 == Max(DOMAIN T.people)
           directions == {T.people[p1].direction_, T.people[p2].direction_}
           newLeft == CreateOn(T, ring, bs, LEFTSIDE, key)
           newRight == CreateOn(T, ring, bs, RIGHTSIDE, key)
           all == CreateOn(newLeft, ring, bs, RIGHTSIDE, key)
           S == TwoTwo(T, ring, bs, key, stale)
<1>1. CASE "UNKNOWNDIR" \in directions
  <2>1. T.people[p1].direction_ = "UNKNOWNDIR" \/ T.people[p2].direction_ = "UNKNOWNDIR"
      BY <1>1
  <2>2. Touched(T, S) \subseteq {p1, p2}
      BY <2>1, TwoTwoOpen
  <2> QED
      BY <2>2 DEF GivesTwo
<1>2. CASE "UNKNOWNDIR" \notin directions
  <2>1. S \in {T, newLeft, newRight, all}
      BY <1>2 DEF TwoTwo
  <2>2. PICK a, b : Touched(T, newLeft)
                \subseteq {x \in {a} : bs[1].side = LEFTSIDE} \cup {x \in {b} : bs[2].side = LEFTSIDE}
      BY CreateOnTouches
  <2>3. GivesTwo(T, newLeft)
      BY <2>2 DEF GivesTwo
  <2>4. GivesTwo(T, newRight)
      BY CreateOnTouches DEF GivesTwo
  <2>5. GivesTwo(T, T)
      BY TouchedSelf DEF GivesTwo
  <2>6. TrackerOK(newLeft, n)
      BY CreateOnOK DEF Reaches
  <2> HIDE DEF newLeft
  <2>7. PICK c, d : Touched(newLeft, all)
                \subseteq {x \in {c} : bs[1].side = RIGHTSIDE} \cup {x \in {d} : bs[2].side = RIGHTSIDE}
      BY <2>6, CreateOnTouches
  <2> HIDE DEF all
  <2>8. Touched(T, all) \subseteq Touched(T, newLeft) \cup Touched(newLeft, all)
      BY TouchedAdds
  <2>9. GivesTwo(T, all)
    <3> DEFINE x == IF bs[1].side = LEFTSIDE THEN a ELSE c
               y == IF bs[2].side = LEFTSIDE THEN b ELSE d
    <3>1. Touched(T, all) \subseteq {x, y}
        BY <2>2, <2>7, <2>8 DEF LEFTSIDE, RIGHTSIDE
    <3> QED
        BY <3>1 DEF GivesTwo
  <2> QED
      BY <2>1, <2>3, <2>4, <2>5, <2>9
<1> QED
    BY <1>1, <1>2

\* Whom create_new_person adds has no direction yet.
LEMMA CreateOpen ==
    ASSUME NEW n, NEW T, TrackerOK(T, n), NEW ring, NEW b, NEW key, Undirected(T) = DOMAIN T.people
    PROVE  LET S == Create(T, ring, b, key) IN Undirected(S) = DOMAIN S.people
BY DEF Undirected, Create, Record, NewPerson, TrackerOK

LEMMA TwoBodiesGives ==
    ASSUME NEW n \in Nat, NEW T, TrackerOK(T, n), NEW ring, NEW m \in Nat, RingOK(ring, m),
           NEW f, f.found_bodies \in Pair, f.frameN \in 0..n-1, NEW key \in 0..n-1, NEW stale
    PROVE  GivesTwo(T, TwoBodies(T, ring, f, key, stale))
<1> DEFINE bs == f.found_bodies
           R == Create(T, ring, bs[1], f.frameN)
           U == Create(R, ring, bs[2], f.frameN)
           S == IF DOMAIN T.people # {} THEN T ELSE U
           size == Cardinality(DOMAIN S.people)
           V == TwoBodies(T, ring, f, key, stale)
<1>1. bs[1] \in Body /\ bs[2] \in Body
    BY DEF Pair
<1>2. TrackerOK(R, n)
    BY <1>1, CreateOK
<1>3. TrackerOK(U, n)
    BY <1>1, <1>2, CreateOK
<1>4. V = CASE size = 1 -> OneTwo(S, ring, bs, key)
            [] size = 2 -> TwoTwo(S, ring, bs, key, stale)
            [] OTHER -> S
    BY DEF TwoBodies
<1>5. CASE DOMAIN T.people # {}
  <2>1. S = T
      BY <1>5
  <2> HIDE DEF S
  <2>2. CASE size = 1
    <3>1. Touched(T, V) \subseteq {Min(DOMAIN T.people), T.total_people}
        BY <1>4, <1>5, <2>1, <2>2, OneTwoTouches
    <3> QED
        BY <3>1 DEF GivesTwo
  <2>3. CASE size = 2
      BY <1>4, <1>5, <2>1, <2>3, TwoTwoGives
  <2>4. CASE size \notin {1, 2}
      BY <1>4, <2>1, <2>4, TouchedSelf DEF GivesTwo
  <2> QED
      BY <2>2, <2>3, <2>4
<1>6. CASE DOMAIN T.people = {}
  <2>1. S = U
      BY <1>6
  <2>2. Undirected(T) = DOMAIN T.people
      BY <1>6 DEF Undirected
  <2>3. Undirected(R) = DOMAIN R.people
      BY <2>2, CreateOpen
  <2>4. Touched(T, R) \subseteq {T.total_people}
      BY CreateTouches
  <2> HIDE DEF R
  <2>5. Undirected(U) = DOMAIN U.people
      BY <1>2, <2>3, CreateOpen
  <2>6. Touched(R, U) \subseteq {R.total_people}
      BY <1>2, CreateTouches
  <2> HIDE DEF U, S
  <2>7. Touched(T, S) \subseteq {T.total_people, R.total_people}
      BY <2>1, <2>4, <2>6, TouchedAdds
  <2>8. TrackerOK(S, n) /\ Undirected(S) = DOMAIN S.people
      BY <1>3, <2>1, <2>5
  <2>9. Touched(T, S) \subseteq DOMAIN S.people
      BY DEF Touched
  <2>10. Touched(T, V) \subseteq Touched(T, S) \cup Touched(S, V)
      BY TouchedAdds
  <2>11. CASE size = 1
    <3>1. DOMAIN S.people # {}
        BY <2>11, NotEmptyFact
    <3>2. Touched(S, V) \subseteq {Min(DOMAIN S.people), S.total_people}
        BY <1>4, <2>8, <2>11, <3>1, OneTwoTouches
    <3>3. PICK i : DOMAIN S.people = {i}
        BY <2>8, <2>11, IdsFinite, FS_Singleton
    <3>4. Min(DOMAIN S.people) = i
        BY <2>8, <3>1, <3>3, IdsFact
    <3>5. Touched(T, V) \subseteq {i, S.total_people}
        BY <2>9, <2>10, <3>2, <3>3, <3>4
    <3> QED
        BY <3>5 DEF GivesTwo
  <2>12. CASE size = 2
    <3> DEFINE p1 == Min(DOMAIN S.people)
               p2 == Max(DOMAIN S.people)
    <3>1. DOMAIN S.people # {} /\ DOMAIN S.people = {p1, p2}
        BY <2>8, <2>12, NotEmptyFact, TwoIds
    <3>2. S.people[p1].direction_ = "UNKNOWNDIR"
        BY <2>8, <3>1 DEF Undirected
    <3>v. V = TwoTwo(S, ring, bs, key, stale)
        BY <1>4, <2>12
    <3> HIDE DEF V, bs
    <3>3. Touched(S, V) \subseteq {p1, p2}
        BY <2>8, <3>1, <3>2, <3>v, TwoTwoOpen DEF bs
    <3> HIDE DEF p1, p2
    <3>4. Touched(T, V) \subseteq {p1, p2}
        BY <2>9, <2>10, <3>1, <3>3
    <3> QED
        BY <3>4 DEF GivesTwo, V
  <2>13. CASE size \notin {1, 2}
    <3>1. V = S
        BY <1>4, <2>13
    <3> QED
        BY <2>7, <3>1 DEF GivesTwo
  <2> QED
      BY <2>11, <2>12, <2>13
<1> QED
    BY <1>5, <1>6

\* update_people_direction gives nobody an entry.
LEMMA DirectedTouches ==
    ASSUME NEW n, NEW T, NEW S, TrackerOK(S, n)
    PROVE  Touched(T, With(S, Directed(S.people))) = Touched(T, S)
<1> DEFINE D == With(S, Directed(S.people))
<1>1. D.people = Directed(S.people) /\ DOMAIN D.people = DOMAIN S.people
    BY DEF With, Directed
<1> HIDE DEF D
<1>2. ASSUME NEW i \in DOMAIN S.people PROVE D.people[i].trajectory = S.people[i].trajectory
  <2>1. IsPerson(S.people[i], n)
      BY DEF TrackerOK
  <2> QED
      BY <1>1, <2>1 DEF Directed, IsPerson
<1> QED
    BY <1>1, <1>2 DEF Touched, D

\* match_body_person gives the delayed frame's bodies to no more people than
\* there are bodies, and nothing when the frame is not accepted.
Given(T, S, k) ==
    /\ k = 0 => Touched(T, S) = {}
    /\ k = 1 => GivesOne(T, S)
    /\ k = 2 => GivesTwo(T, S)

LEMMA MatchedGives ==
    ASSUME NEW n \in Nat, NEW T, TrackerOK(T, n + 1), NEW ring, RingOK(ring, n), NEW stale
    PROVE  LET f == Delayed(ring, n)
           IN /\ NumBodies(f) \in 0..2
              /\ Given(T, Matched(T, ring, n, stale),
                       IF IsCorrect(ring, Slot(f.frameN)) THEN NumBodies(f) ELSE 0)
<1> DEFINE f == Delayed(ring, n)
           ok == IsCorrect(ring, Slot(f.frameN))
           M == IF NumBodies(f) = 1 THEN OneBody(T, ring, f, n)
                ELSE TwoBodies(T, ring, f, n, stale)
           D == With(M, Directed(M.people))
           V == Matched(T, ring, n, stale)
<1>1. IsFrame(f, n)
  <2>1. n - MatchDelay \in Int
      BY TrackerAssumption
  <2> QED
      BY <2>1, SlotFact DEF Delayed, Back, RingOK
<1>2. f.frameN \in 0..(n + 1) - 1 /\ n \in 0..(n + 1) - 1 /\ n + 1 \in Nat
    BY <1>1 DEF IsFrame
<1>3. V = IF ~ok \/ NumBodies(f) = 0 THEN T ELSE D
    BY DEF Matched
<1> HIDE DEF f
<1>4. NumBodies(f) \in 0..2
    BY <1>1 DEF IsFrame, NumBodies
<1>5. CASE ~ok \/ NumBodies(f) = 0
  <2> HIDE DEF ok, V
  <2> QED
      BY <1>3, <1>4, <1>5, TouchedSelf DEF Given, f, ok, V
<1>6. CASE ok /\ NumBodies(f) = 1
  <2>1. V = D /\ M = OneBody(T, ring, f, n)
      BY <1>3, <1>6
  <2> HIDE DEF M
  <2>2. f.found_bodies[1] \in Body
      BY <1>1, <1>6 DEF IsFrame, NumBodies
  <2>3. GivesOne(T, M) /\ TrackerOK(M, n + 1)
      BY <1>2, <2>1, <2>2, OneBodyGives, OneBodyOK DEF Reaches
  <2>4. Touched(T, D) = Touched(T, M)
      BY <2>3, DirectedTouches
  <2>5. GivesOne(T, V)
      BY <2>1, <2>3, <2>4 DEF GivesOne
  <2> HIDE DEF V, D
  <2> QED
      BY <1>4, <1>6, <2>5 DEF Given, f, V
<1>7. CASE ok /\ NumBodies(f) = 2
  <2>1. V = D /\ M = TwoBodies(T, ring, f, n, stale)
      BY <1>3, <1>7
  <2>2. f.found_bodies \in Pair
    <3> DEFINE bs == f.found_bodies
    <3>1. bs \in [1..Len(bs) -> Body] /\ Len(bs) = 2
        BY <1>1, <1>7 DEF IsFrame, NumBodies
    <3> HIDE DEF bs
    <3>2. bs \in Pair
        BY <3>1 DEF Pair
    <3> QED
        BY <3>2 DEF bs
  <2> HIDE DEF M
  <2>3. GivesTwo(T, M) /\ TrackerOK(M, n + 1)
      BY <1>2, <2>1, <2>2, TwoBodiesGives, TwoBodiesOK DEF Reaches
  <2>4. Touched(T, D) = Touched(T, M)
      BY <2>3, DirectedTouches
  <2>5. GivesTwo(T, V)
      BY <2>1, <2>3, <2>4 DEF GivesTwo
  <2> HIDE DEF V, D
  <2> QED
      BY <1>4, <1>7, <2>5 DEF Given, f, V
<1> QED
    BY <1>4, <1>5, <1>6, <1>7

\* Nobody gets an entry when trajectories are cut and people dropped.
LEMMA KeptTouches ==
    ASSUME NEW n \in Nat, NEW T, NEW S, TrackerOK(S, n), NEW E \in SUBSET DOMAIN S.people,
           NEW i \in DOMAIN Kept(S.people, E)
    PROVE  /\ i \in DOMAIN S.people
           /\ DOMAIN Kept(S.people, E)[i].trajectory \subseteq DOMAIN S.people[i].trajectory
<1> DEFINE p == S.people[i]
<1>1. i \in DOMAIN S.people /\ i \notin E
    BY DEF Kept
<1>2. IsPerson(p, n)
    BY <1>1 DEF TrackerOK
<1>3. LastKey(p) \in DOMAIN p.trajectory
  <2>1. DOMAIN p.trajectory \subseteq 0..n /\ DOMAIN p.trajectory # {}
      BY <1>2 DEF IsPerson, IsTrajectory
  <2> QED
      BY <2>1, MaxFact DEF LastKey
<1>4. CASE IsLong(p)
  <2> DEFINE t == Cut(p)
             c == Mark(p)
  <2>1. DOMAIN t = {LastKey(p)}
      BY DEF Cut
  <2> HIDE DEF t, c
  <2>2. Kept(S.people, E)[i] = [p EXCEPT !.trajectory = t, !.counted_ = c]
      BY <1>1, <1>4 DEF Kept, t, c
  <2>3. Kept(S.people, E)[i].trajectory = t
      BY <1>2, <2>2 DEF IsPerson
  <2> QED
      BY <1>1, <1>3, <2>1, <2>3
<1>5. CASE ~IsLong(p)
  <2>1. Kept(S.people, E)[i] = p
      BY <1>1, <1>5 DEF Kept
  <2> QED
      BY <1>1, <2>1
<1> QED
    BY <1>4, <1>5

LEMMA PairFact ==
    ASSUME NEW a, NEW b
    PROVE  IsFiniteSet({a, b}) /\ Cardinality({a, b}) <= 2
<1>1. IsFiniteSet({a}) /\ Cardinality({a}) = 1
    BY FS_Singleton
<1>2. {a, b} = {a} \cup {b}
    OBVIOUS
<1>3. CASE a = b
  <2>1. {a, b} = {a}
      BY <1>3
  <2> QED
      BY <1>1, <2>1
<1>4. CASE a # b
    BY <1>1, <1>2, <1>4, FS_AddElement
<1> QED
    BY <1>3, <1>4

LEMMA StepGives ==
    ASSUME IInv, NEW scene \in Scenes, NEW stale, ProcessFrame(scene, stale)
    PROVE  LET f == Delayed(frames', frameN)
               before(i) == IF i \in DOMAIN people THEN DOMAIN people[i].trajectory ELSE {}
               given == {i \in DOMAIN people' : ~(DOMAIN people'[i].trajectory \subseteq before(i))}
           IN Cardinality(given)
                <= IF frames'[Slot(f.frameN)].valid THEN NumBodies(f) ELSE 0
<1> DEFINE n == frameN
           ring == [frames EXCEPT ![Slot(n)] = FrameOf(n, scene)]
           f == Delayed(ring, n)
           idx == Slot(f.frameN)
           T0 == [people |-> people, total_people |-> total_people, capacity |-> capacity]
           T == Matched(T0, ring, n, stale)
           before(i) == IF i \in DOMAIN people THEN DOMAIN people[i].trajectory ELSE {}
           given == {i \in DOMAIN people' : ~(DOMAIN people'[i].trajectory \subseteq before(i))}
           k == IF IsCorrect(ring, idx) THEN NumBodies(f) ELSE 0
<1>1. n \in Nat /\ RingOK(frames, n)
    BY DEF IInv, TypeOK, RingOK
<1>2. RingOK(ring, n)
  <2>1. Slot(n) \in 0..HISTORY_LENGTH-1
      BY <1>1, SlotFact DEF Slot
  <2>2. IsFrame(FrameOf(n, scene), n)
      BY <1>1, FrameOfType
  <2> QED
      BY <1>1, <2>1, <2>2 DEF RingOK
<1>3. TrackerOK(T0, n + 1)
  <2>1. \A j \in DOMAIN people : IsPerson(people[j], n + 1)
      BY <1>1 DEF IInv, TypeOK, IsPerson, IsTrajectory
  <2> QED
      BY <2>1 DEF TrackerOK, With, IInv, TypeOK
<1>4. T0.people = people
    OBVIOUS
<1>5. frames' = Corrected(ring, idx)
    BY DEF ProcessFrame
<1>6. PICK E \in SUBSET DOMAIN T.people : people' = Kept(T.people, E)
    BY DEF ProcessFrame
<1> HIDE DEF ring, T0
<1>7. TrackerOK(T, n + 1)
    BY <1>1, <1>2, <1>3, MatchedOK DEF Reaches
<1>8. NumBodies(f) \in 0..2 /\ Given(T0, T, k)
    BY <1>1, <1>2, <1>3, MatchedGives
\* What the action property reads in the ring of the next state.
<1>9. /\ Delayed(frames', n).frameN = f.frameN
      /\ NumBodies(Delayed(frames', n)) = NumBodies(f)
      /\ frames'[idx].valid = IsCorrect(ring, idx)
  <2> DEFINE j == Back(n, MatchDelay)
             c == IsCorrect(ring, idx)
  <2>1. j \in 0..HISTORY_LENGTH-1
    <3>1. n - MatchDelay \in Int
        BY <1>1, TrackerAssumption
    <3> QED
        BY <3>1, SlotFact DEF Back
  <2>2. f = ring[j] /\ IsFrame(f, n)
      BY <1>2, <2>1 DEF Delayed, RingOK
  <2>3. idx \in 0..HISTORY_LENGTH-1
      BY <2>2, SlotFact DEF IsFrame, Slot
  <2> HIDE DEF idx, c, f, j
  <2>4. IsFrame(ring[idx], n) /\ DOMAIN ring = 0..HISTORY_LENGTH-1
      BY <1>2, <2>3 DEF RingOK
  <2>5. frames' = [ring EXCEPT ![idx] = [ring[idx] EXCEPT !.valid = c]]
      BY <1>5, <2>3, <2>4 DEF Corrected, c
  <2>6. /\ frames'[j].frameN = ring[j].frameN
        /\ frames'[j].found_bodies = ring[j].found_bodies
      BY <2>1, <2>3, <2>4, <2>5 DEF IsFrame
  <2>7. frames'[idx].valid = c
      BY <2>3, <2>4, <2>5 DEF IsFrame
  <2> QED
      BY <2>2, <2>6, <2>7 DEF Delayed, NumBodies, j, c
<1>10. given \subseteq Touched(T0, T)
  <2> HIDE DEF T
  <2> SUFFICES ASSUME NEW i \in given PROVE i \in Touched(T0, T)
      OBVIOUS
  <2>1. n + 1 \in Nat
      BY <1>1
  <2>2. i \in DOMAIN Kept(T.people, E) /\ ~(DOMAIN people'[i].trajectory \subseteq Entries(T0, i))
      BY <1>4, <1>6 DEF Entries
  <2>3. /\ i \in DOMAIN T.people
        /\ DOMAIN people'[i].trajectory \subseteq DOMAIN T.people[i].trajectory
      BY <1>6, <1>7, <2>1, <2>2, KeptTouches
  <2> QED
      BY <2>2, <2>3 DEF Touched
<1> HIDE DEF T, f, given
<1>11. k \in 0..2
    BY <1>8
<1>12. Cardinality(given) <= k
  <2> HIDE DEF k
  <2>1. CASE k = 0
    <3>1. given = {}
        BY <1>8, <1>10, <2>1 DEF Given
    <3> QED
        BY <2>1, <3>1, FS_EmptySet
  <2>2. CASE k = 1
    <3>1. PICK a : given \subseteq {a}
        BY <1>8, <1>10, <2>2 DEF Given, GivesOne
    <3>2. IsFiniteSet({a}) /\ Cardinality({a}) = 1
        BY FS_Singleton
    <3>3. Cardinality(given) <= Cardinality({a})
        BY <3>1, <3>2, SubsetFact
    <3> QED
        BY <2>2, <3>2, <3>3
  <2>3. CASE k = 2
    <3>1. PICK a, b : given \subseteq {a, b}
        BY <1>8, <1>10, <2>3 DEF Given, GivesTwo
    <3>2. IsFiniteSet({a, b}) /\ Cardinality({a, b}) <= 2
        BY PairFact
    <3>3. Cardinality(given) <= Cardinality({a, b}) /\ Cardinality(given) \in Nat /\ Cardinality({a, b}) \in Nat
        BY <3>1, <3>2, SubsetFact
    <3> QED
        BY <2>3, <3>2, <3>3
  <2> QED
      BY <1>11, <2>1, <2>2, <2>3
<1> QED
    BY <1>9, <1>12 DEF given

\* A body is one person's: no more people are given an entry than the delayed
\* frame has bodies, nobody when it is a glitch, for any sequence of frames.
THEOREM EachBodyIsGivenOnce == Spec => BodyIsGivenOnce
<1>1. IInv /\ [Next]_vars =>
        [LET f == Delayed(frames', frameN)
             before(i) == IF i \in DOMAIN people THEN DOMAIN people[i].trajectory ELSE {}
             given == {i \in DOMAIN people' : ~(DOMAIN people'[i].trajectory \subseteq before(i))}
         IN Cardinality(given)
              <= IF frames'[Slot(f.frameN)].valid THEN NumBodies(f) ELSE 0]_vars
    BY StepGives DEF Next
<1> QED
    BY Invariance, <1>1, PTL DEF Spec, BodyIsGivenOnce
-----------------------------------------------------------------------------
(***************************************************************************)
(* Phantom crossings come in pairs.  Whoever is created is Fresh, one      *)
(* entry and no direction, and nobody touches it again in that frame,      *)
(* except when two people are created from an empty scene: they are        *)
(* matched with the same two bodies, straight or crosswise, and crosswise  *)
(* turns both or neither, in opposite directions.                          *)
(***************************************************************************)

Fresh(p) == p.direction_ = "UNKNOWNDIR" /\ \E k \in Nat : DOMAIN p.trajectory = {k}

\* Who is in S and not in T is fresh.
Freshly(T, S) == \A i \in DOMAIN S.people \ DOMAIN T.people : Fresh(S.people[i])

LEMMA CreateFresh ==
    ASSUME NEW T, NEW S, Freshly(T, S), NEW ring, NEW b, NEW key \in Nat
    PROVE  Freshly(T, Create(S, ring, b, key))
<1> DEFINE side == IF b.side = UNKNOWNSIDE THEN SideBefore(ring, key) ELSE b.side
           q == NewPerson(side, key)
           U == Create(S, ring, b, key)
<1>1. Fresh(q)
    BY DEF Fresh, NewPerson
<1> HIDE DEF q
<1>2. U = S \/ U.people = Record(S.people, S.total_people, q)
    BY DEF Create, q
<1> HIDE DEF U
<1>3. Freshly(T, U)
    BY <1>1, <1>2 DEF Freshly, Record
<1> QED
    BY <1>3 DEF U

LEMMA ExtendFresh ==
    ASSUME NEW T, NEW S, Freshly(T, S), NEW i \in DOMAIN T.people, NEW b, NEW key
    PROVE  Freshly(T, Extend(S, i, b, key))
BY DEF Freshly, Extend, With, Record

LEMMA FreshSelf == ASSUME NEW T PROVE Freshly(T, T)
BY DEF Freshly

LEMMA OneBodyFresh ==
    ASSUME NEW n \in Nat, NEW T, TrackerOK(T, n), NEW ring, NEW f, f.frameN \in Nat, NEW key \in Nat
    PROVE  Freshly(T, OneBody(T, ring, f, key))
<1> DEFINE b == f.found_bodies[1]
           S == OneBody(T, ring, f, key)
           size == Cardinality(DOMAIN T.people)
<1>1. ASSUME NEW k \in Nat PROVE Freshly(T, Create(T, ring, b, k))
    BY FreshSelf, CreateFresh
<1>2. ASSUME NEW i \in DOMAIN T.people, NEW k PROVE Freshly(T, Extend(T, i, b, k))
    BY FreshSelf, ExtendFresh
<1>3. Freshly(T, T)
    BY FreshSelf
<1>4. CASE size = 0
    BY <1>1, <1>4 DEF OneBody
<1>5. CASE size = 1
  <2>1. Min(DOMAIN T.people) \in DOMAIN T.people
      BY <1>5, NotEmptyFact, IdsFact
  <2>2. S = OneOne(T, ring, b, f)
      BY <1>5 DEF OneBody
  <2> QED
      BY <1>1, <1>2, <2>1, <2>2 DEF OneOne
<1>6. CASE size = 2
  <2> DEFINE ids == DOMAIN T.people
             candidates ==
               IF Undirected(T) = ids THEN {i \in ids : First(T.people[i]) # b.side}
               ELSE IF Undirected(T) = {} THEN {i \in ids : is_match(T.people[i], b)}
               ELSE Undirected(T)
  <2>1. candidates \subseteq ids /\ ids \subseteq Nat
      BY DEF Undirected, TrackerOK
  <2>2. S = TwoOne(T, ring, b, key)
      BY <1>6 DEF OneBody
  <2>3. S = IF candidates # {} THEN Extend(T, Min(candidates), b, key)
            ELSE IF Undirected(T) = {} THEN Create(T, ring, b, key) ELSE T
      BY <2>2 DEF TwoOne
  <2> HIDE DEF candidates
  <2>4. candidates # {} => Min(candidates) \in DOMAIN T.people
      BY <2>1, MinFact
  <2> QED
      BY <1>1, <1>2, <1>3, <2>3, <2>4
<1>7. CASE size \notin {0, 1, 2}
    BY <1>3, <1>7 DEF OneBody
<1> QED
    BY <1>4, <1>5, <1>6, <1>7

LEMMA CreateOnFresh ==
    ASSUME NEW T, NEW S, Freshly(T, S), NEW ring, NEW bs, NEW side, NEW key \in Nat
    PROVE  Freshly(T, CreateOn(S, ring, bs, side, key))
<1> DEFINE one == IF bs[1].side = side THEN Create(S, ring, bs[1], key) ELSE S
<1>1. Freshly(T, one)
    BY CreateFresh
<1> HIDE DEF one
<1>2. Freshly(T, Create(one, ring, bs[2], key))
    BY <1>1, CreateFresh
<1> QED
    BY <1>1, <1>2 DEF CreateOn, one

\* With somebody in the scene.
LEMMA TwoBodiesFresh ==
    ASSUME NEW n \in Nat, NEW T, TrackerOK(T, n), NEW ring, NEW f, NEW key \in Nat, NEW stale,
           DOMAIN T.people # {}
    PROVE  Freshly(T, TwoBodies(T, ring, f, key, stale))
<1> DEFINE bs == f.found_bodies
           p1 == Min(DOMAIN T.people)
           p2 == Max(DOMAIN T.people)
           V == TwoBodies(T, ring, f, key, stale)
<1>1. p1 \in DOMAIN T.people /\ p2 \in DOMAIN T.people
    BY IdsFact
<1>2. Freshly(T, T)
    BY FreshSelf
<1>3. V \in {T, OneTwo(T, ring, bs, key), TwoTwo(T, ring, bs, key, stale)}
    BY DEF TwoBodies
<1> HIDE DEF V, bs
<1>4. Freshly(T, OneTwo(T, ring, bs, key))
  <2> DEFINE w == Newcomer(T.people[p1], bs)
             S == Extend(T, p1, bs[3 - w], key)
  <2>1. Freshly(T, S)
      BY <1>1, <1>2, ExtendFresh
  <2>2. OneTwo(T, ring, bs, key) \in {T, Create(S, ring, bs[w], key)}
      BY DEF OneTwo
  <2> HIDE DEF S, w
  <2> QED
      BY <1>2, <2>1, <2>2, CreateFresh
<1>5. Freshly(T, TwoTwo(T, ring, bs, key, stale))
  <2> DEFINE near == IF bs[1].cx <= bs[2].cx THEN 1 ELSE 2
             S == Extend(T, p1, bs[near], key)
             U == Extend(S, p2, bs[3 - near], key)
             newLeft == CreateOn(T, ring, bs, LEFTSIDE, key)
             newRight == CreateOn(T, ring, bs, RIGHTSIDE, key)
             all == CreateOn(newLeft, ring, bs, RIGHTSIDE, key)
  <2>1. TwoTwo(T, ring, bs, key, stale) \in {U, all, newLeft, newRight, T}
      BY DEF TwoTwo
  <2>2. Freshly(T, S)
      BY <1>1, <1>2, ExtendFresh
  <2>3. Freshly(T, newLeft) /\ Freshly(T, newRight)
      BY <1>2, CreateOnFresh
  <2> HIDE DEF S, newLeft, newRight, p1, p2
  <2>4. Freshly(T, U)
      BY <1>1, <2>2, ExtendFresh
  <2>5. Freshly(T, all)
      BY <2>3, CreateOnFresh
  <2> QED
      BY <1>2, <2>1, <2>3, <2>4, <2>5
<1> QED
    BY <1>2, <1>3, <1>4, <1>5 DEF V
-----------------------------------------------------------------------------
(* From an empty scene.                                                    *)

Sided(bs) == bs[1].side \in {LEFTSIDE, RIGHTSIDE} /\ bs[2].side \in {LEFTSIDE, RIGHTSIDE}

Entry(k, s) == [x \in {k} |-> s]

\* A trajectory of the body a person was created from and the one of frame n.
LEMMA TwoEntries ==
    ASSUME NEW n \in Nat, NEW k \in 0..n, NEW s, NEW v,
           NEW p, p.trajectory = Record(Entry(k, s), n, v)
    PROVE  LastKey(p) = n /\ Last(p) = v /\ First(p) = IF k = n THEN v ELSE s
<1> DEFINE t == p.trajectory
           D == DOMAIN t
<1>1. D = {k, n} /\ k \in Nat /\ k <= n
    BY DEF Record, Entry
<1>2. D \subseteq Nat /\ D # {} /\ D \subseteq 0..n
    BY <1>1
<1>3. t[n] = v /\ (k # n => t[k] = s)
    BY DEF Record, Entry
<1> HIDE DEF t
<1>4. Min(D) \in D /\ (\A y \in D : Min(D) <= y) /\ Max(D) \in D /\ (\A y \in D : Max(D) >= y)
    BY <1>2, MinFact, MaxFact
<1> DEFINE lo == Min(D)
           hi == Max(D)
<1> HIDE DEF lo, hi, D
<1>5. lo \in {k, n} /\ hi \in {k, n} /\ lo <= k /\ hi >= n
    BY <1>1, <1>4 DEF lo, hi
<1>6. lo = k /\ hi = n
    BY <1>1, <1>5
<1> QED
    BY <1>3, <1>6 DEF lo, hi, D, t, LastKey, Last, First

\* Two people were created, a from the first body and b from the second, and
\* matched with the bodies of frame n, straight or crosswise.
Mirrored(T, V, n) ==
    /\ DOMAIN T.people = {}
    /\ \E a \in Nat, b \in Nat :
          LET p == V.people[a]
              q == V.people[b]
          IN /\ a # b /\ DOMAIN V.people = {a, b}
             /\ p.direction_ = "UNKNOWNDIR" /\ q.direction_ = "UNKNOWNDIR"
             /\ LastKey(p) = n /\ LastKey(q) = n
             /\ {First(p), First(q)} \subseteq {LEFTSIDE, RIGHTSIDE}
             /\ \/ First(p) = Last(p) /\ First(q) = Last(q)
                \/ First(p) = Last(q) /\ First(q) = Last(p)

LEMMA EmptyMirrored ==
    ASSUME NEW n \in Nat, NEW T, TrackerOK(T, n + 1), NEW ring,
           NEW f, Sided(f.found_bodies), f.frameN \in 0..n, NEW stale,
           DOMAIN T.people = {}
    PROVE  Mirrored(T, TwoBodies(T, ring, f, n, stale), n)
<1> DEFINE bs == f.found_bodies
           k == f.frameN
           a == T.total_people
           b == a + 1
           R == Create(T, ring, bs[1], k)
           S == Create(R, ring, bs[2], k)
           q1 == NewPerson(bs[1].side, k)
           q2 == NewPerson(bs[2].side, k)
           near == IF bs[1].cx <= bs[2].cx THEN 1 ELSE 2
           V1 == Extend(S, a, bs[near], n)
           V == Extend(V1, b, bs[3 - near], n)
           r1 == [q1 EXCEPT !.trajectory = Record(@, n, bs[near].side)]
           r2 == [q2 EXCEPT !.trajectory = Record(@, n, bs[3 - near].side)]
<1>1. a \in Nat /\ b \in Nat /\ a # b
    BY DEF TrackerOK
<1>2. R.people = Record(T.people, a, q1) /\ R.total_people = b
    BY DEF Create, Sided, LEFTSIDE, RIGHTSIDE, UNKNOWNSIDE
<1>3. S.people = Record(R.people, R.total_people, q2)
    BY DEF Create, Sided, LEFTSIDE, RIGHTSIDE, UNKNOWNSIDE
<1> HIDE DEF R, S, q1, q2
<1>4. DOMAIN R.people = {a} /\ R.people[a] = q1
    BY <1>2 DEF Record
<1>5. DOMAIN S.people = {a, b} /\ S.people[a] = q1 /\ S.people[b] = q2
    BY <1>1, <1>2, <1>3, <1>4 DEF Record
<1>6. Cardinality(DOMAIN S.people) = 2
  <2> HIDE DEF a, b
  <2>1. Cardinality({a, b}) = 2
      BY <1>1, TwoElements
  <2> QED
      BY <1>5, <2>1
<1>7. Min(DOMAIN S.people) = a /\ Max(DOMAIN S.people) = b
  <2> DEFINE D == DOMAIN S.people
             lo == Min(D)
             hi == Max(D)
  <2>1. D \subseteq Nat /\ D # {} /\ D \subseteq 0..b
      BY <1>1, <1>5
  <2> HIDE DEF D
  <2>2. lo \in D /\ (\A y \in D : lo <= y) /\ hi \in D /\ (\A y \in D : hi >= y)
      BY <1>1, <2>1, MinFact, MaxFact
  <2> HIDE DEF lo, hi
  <2>3. lo \in {a, b} /\ hi \in {a, b} /\ lo <= a /\ hi >= b
      BY <1>5, <2>2 DEF D
  <2>4. lo = a /\ hi = b
      BY <1>1, <2>3
  <2> QED
      BY <2>4 DEF lo, hi, D
<1>8. TwoBodies(T, ring, f, n, stale) = TwoTwo(S, ring, bs, n, stale)
    BY <1>6 DEF TwoBodies, S, R
<1>9. q1.direction_ = "UNKNOWNDIR" /\ q2.direction_ = "UNKNOWNDIR"
    BY DEF NewPerson, q1, q2
<1>10. TwoTwo(S, ring, bs, n, stale) = V
    BY <1>5, <1>7, <1>9 DEF TwoTwo
<1> HIDE DEF near
<1>11. /\ DOMAIN V.people = {a, b}
       /\ V.people[a] = r1
       /\ V.people[b] = r2
  <2> HIDE DEF r1, r2, V, V1
  <2>1. V1.people = Record(S.people, a, r1)
      BY <1>5 DEF Extend, With, V1, r1
  <2>2. DOMAIN V1.people = {a, b} /\ V1.people[a] = r1 /\ V1.people[b] = q2
      BY <1>1, <1>5, <2>1 DEF Record
  <2>3. V.people = Record(V1.people, b, r2)
      BY <2>2 DEF Extend, With, V, r2
  <2> QED
      BY <1>1, <2>2, <2>3 DEF Record
<1> DEFINE s1 == bs[1].side
           s2 == bs[2].side
           v1 == bs[near].side
           v2 == bs[3 - near].side
<1>12. /\ r1.trajectory = Record(Entry(k, s1), n, v1)
       /\ r1.direction_ = "UNKNOWNDIR"
       /\ r2.trajectory = Record(Entry(k, s2), n, v2)
       /\ r2.direction_ = "UNKNOWNDIR"
    BY DEF NewPerson, q1, q2, Entry
<1>13. s1 \in {LEFTSIDE, RIGHTSIDE} /\ s2 \in {LEFTSIDE, RIGHTSIDE}
    BY DEF Sided
<1>14. \/ v1 = s1 /\ v2 = s2
       \/ v1 = s2 /\ v2 = s1
  <2>1. near \in {1, 2}
      BY DEF near
  <2>2. near = 1 => 3 - near = 2
      OBVIOUS
  <2>3. near = 2 => 3 - near = 1
      OBVIOUS
  <2> QED
      BY <2>1, <2>2, <2>3
<1>k. k \in 0..n
    OBVIOUS
<1> HIDE DEF r1, r2, V, s1, s2, v1, v2, k
<1>15. /\ LastKey(r1) = n /\ Last(r1) = v1 /\ First(r1) = IF k = n THEN v1 ELSE s1
       /\ LastKey(r2) = n /\ Last(r2) = v2 /\ First(r2) = IF k = n THEN v2 ELSE s2
  <2>1. LastKey(r1) = n /\ Last(r1) = v1 /\ First(r1) = IF k = n THEN v1 ELSE s1
      BY <1>12, <1>k, TwoEntries
  <2>2. LastKey(r2) = n /\ Last(r2) = v2 /\ First(r2) = IF k = n THEN v2 ELSE s2
      BY <1>12, <1>k, TwoEntries
  <2> QED
      BY <2>1, <2>2
<1>16. Mirrored(T, V, n)
  <2>1. {First(r1), First(r2)} \subseteq {LEFTSIDE, RIGHTSIDE}
      BY <1>13, <1>14, <1>15
  <2>2. \/ First(r1) = Last(r1) /\ First(r2) = Last(r2)
        \/ First(r1) = Last(r2) /\ First(r2) = Last(r1)
      BY <1>14, <1>15
  <2> HIDE DEF a, b
  <2> QED
      BY <1>1, <1>11, <1>12, <1>15, <2>1, <2>2 DEF Mirrored
<1> QED
    BY <1>8, <1>10, <1>16
-----------------------------------------------------------------------------
(* The directions of the people created in a frame.                        *)

\* Nobody new has a direction, or two have opposite ones and an entry of frame n.
Cancels(T, V, n) ==
    \/ \A i \in DOMAIN V.people \ DOMAIN T.people : V.people[i].direction_ = "UNKNOWNDIR"
    \/ \E a \in Nat, b \in Nat :
          /\ a # b /\ DOMAIN T.people = {} /\ DOMAIN V.people = {a, b}
          /\ V.people[a].direction_ = "LtoR" /\ LastKey(V.people[a]) = n
          /\ V.people[b].direction_ = "RtoL" /\ LastKey(V.people[b]) = n

\* update_people_direction
LEMMA DirectedFact ==
    ASSUME NEW n, NEW S, TrackerOK(S, n), NEW i \in DOMAIN S.people
    PROVE  LET D == With(S, Directed(S.people))
           IN /\ DOMAIN D.people = DOMAIN S.people
              /\ D.people[i].direction_ = DirectionOf(S.people[i])
              /\ LastKey(D.people[i]) = LastKey(S.people[i])
<1> DEFINE D == With(S, Directed(S.people))
           p == S.people[i]
           d == DirectionOf(p)
<1>1. D.people = Directed(S.people) /\ DOMAIN D.people = DOMAIN S.people
    BY DEF With, Directed
<1>2. IsPerson(p, n)
    BY DEF TrackerOK
<1>3. D.people[i] = [p EXCEPT !.direction_ = d]
    BY <1>1 DEF Directed
<1> HIDE DEF D, d
<1>4. D.people[i].direction_ = d /\ D.people[i].trajectory = p.trajectory
    BY <1>2, <1>3 DEF IsPerson
<1> QED
    BY <1>1, <1>4 DEF LastKey, D, d

\* One entry gives no direction.
LEMMA FreshDirection ==
    ASSUME NEW p, Fresh(p)
    PROVE  DirectionOf(p) = "UNKNOWNDIR"
<1>1. PICK k \in Nat : DOMAIN p.trajectory = {k}
    BY DEF Fresh
<1> DEFINE D == DOMAIN p.trajectory
<1>2. D \subseteq Nat /\ D # {} /\ D \subseteq 0..k
    BY <1>1
<1> HIDE DEF D
<1>3. Min(D) \in D /\ Max(D) \in D
    BY <1>2, MinFact, MaxFact
<1>4. Min(D) = k /\ Max(D) = k
    BY <1>1, <1>3 DEF D
<1>5. First(p) = Last(p)
    BY <1>4 DEF First, Last, LastKey, D
<1>6. ~Opposite(First(p), Last(p))
    BY <1>5 DEF Opposite, LEFTSIDE, RIGHTSIDE
<1> QED
    BY <1>6 DEF DirectionOf, Fresh

LEMMA FreshCancels ==
    ASSUME NEW n, NEW m, NEW T, NEW S, TrackerOK(S, m), Freshly(T, S)
    PROVE  Cancels(T, With(S, Directed(S.people)), n)
<1> DEFINE D == With(S, Directed(S.people))
<1>1. ASSUME NEW i \in DOMAIN D.people \ DOMAIN T.people PROVE D.people[i].direction_ = "UNKNOWNDIR"
  <2>1. i \in DOMAIN S.people
      BY DEF With, Directed
  <2>2. Fresh(S.people[i])
      BY <2>1 DEF Freshly
  <2> QED
      BY <2>1, <2>2, DirectedFact, FreshDirection
<1> HIDE DEF D
<1>2. Cancels(T, D, n)
    BY <1>1 DEF Cancels
<1> QED
    BY <1>2 DEF D

LEMMA OppositeFact ==
    ASSUME NEW x \in {LEFTSIDE, RIGHTSIDE}, NEW y \in {LEFTSIDE, RIGHTSIDE}
    PROVE  Opposite(x, y) <=> x # y
<1>1. LEFTSIDE # RIGHTSIDE
    BY DEF LEFTSIDE, RIGHTSIDE
<1>2. CASE x = y
  <2>1. {x, y} = {x}
      BY <1>2
  <2> QED
      BY <1>1, <1>2, <2>1 DEF Opposite
<1>3. CASE x # y
  <2>1. {x, y} = {LEFTSIDE, RIGHTSIDE}
      BY <1>3
  <2> QED
      BY <1>3, <2>1 DEF Opposite
<1> QED
    BY <1>2, <1>3

LEMMA MirroredCancels ==
    ASSUME NEW n, NEW m, NEW T, NEW S, TrackerOK(S, m), Mirrored(T, S, n)
    PROVE  Cancels(T, With(S, Directed(S.people)), n)
<1> DEFINE D == With(S, Directed(S.people))
<1>1. PICK a \in Nat, b \in Nat :
          LET p == S.people[a]
              q == S.people[b]
          IN /\ a # b /\ DOMAIN S.people = {a, b}
             /\ p.direction_ = "UNKNOWNDIR" /\ q.direction_ = "UNKNOWNDIR"
             /\ LastKey(p) = n /\ LastKey(q) = n
             /\ {First(p), First(q)} \subseteq {LEFTSIDE, RIGHTSIDE}
             /\ \/ First(p) = Last(p) /\ First(q) = Last(q)
                \/ First(p) = Last(q) /\ First(q) = Last(p)
    BY DEF Mirrored
<1> DEFINE p == S.people[a]
           q == S.people[b]
<1>2. /\ DOMAIN D.people = {a, b}
      /\ D.people[a].direction_ = DirectionOf(p) /\ LastKey(D.people[a]) = n
      /\ D.people[b].direction_ = DirectionOf(q) /\ LastKey(D.people[b]) = n
    BY <1>1, DirectedFact
<1>3. \/ DirectionOf(p) = "UNKNOWNDIR" /\ DirectionOf(q) = "UNKNOWNDIR"
      \/ DirectionOf(p) = "LtoR" /\ DirectionOf(q) = "RtoL"
      \/ DirectionOf(p) = "RtoL" /\ DirectionOf(q) = "LtoR"
  <2> DEFINE x == First(p)
             y == First(q)
             u == Last(p)
             v == Last(q)
  <2>1. x \in {LEFTSIDE, RIGHTSIDE} /\ y \in {LEFTSIDE, RIGHTSIDE}
      BY <1>1
  <2>2. \/ x = u /\ y = v
        \/ x = v /\ y = u
      BY <1>1
  <2>3. /\ DirectionOf(p) = IF ~Opposite(x, u) THEN "UNKNOWNDIR"
                            ELSE IF x = LEFTSIDE THEN "LtoR" ELSE "RtoL"
        /\ DirectionOf(q) = IF ~Opposite(y, v) THEN "UNKNOWNDIR"
                            ELSE IF y = LEFTSIDE THEN "LtoR" ELSE "RtoL"
      BY <1>1 DEF DirectionOf
  <2> HIDE DEF p, q, x, y, u, v
  <2>4. CASE x = u /\ y = v
    <3>1. ~Opposite(x, u) /\ ~Opposite(y, v)
        BY <2>4 DEF Opposite, LEFTSIDE, RIGHTSIDE
    <3> QED
        BY <2>3, <3>1
  <2>5. CASE x = v /\ y = u
    <3>1. Opposite(x, u) <=> x # y
        BY <2>1, <2>5, OppositeFact
    <3>2. Opposite(y, v) <=> x # y
        BY <2>1, <2>5, OppositeFact
    <3> QED
        BY <2>1, <2>3, <3>1, <3>2 DEF LEFTSIDE, RIGHTSIDE
  <2> QED
      BY <2>2, <2>4, <2>5
<1>4. DOMAIN T.people = {}
    BY DEF Mirrored
<1> HIDE DEF D, p, q
<1>5. Cancels(T, D, n)
  <2>1. CASE DirectionOf(p) = "UNKNOWNDIR" /\ DirectionOf(q) = "UNKNOWNDIR"
      BY <1>2, <2>1 DEF Cancels
  <2>2. CASE DirectionOf(p) = "LtoR" /\ DirectionOf(q) = "RtoL"
      BY <1>1, <1>2, <1>4, <2>2 DEF Cancels
  <2>3. CASE DirectionOf(p) = "RtoL" /\ DirectionOf(q) = "LtoR"
      BY <1>1, <1>2, <1>4, <2>3 DEF Cancels
  <2> QED
      BY <1>3, <2>1, <2>2, <2>3
<1> QED
    BY <1>5 DEF D

\* Two bodies of a frame in the ring are each on one side.
SidedRing(ring) ==
    \A i \in 0..HISTORY_LENGTH-1 : NumBodies(ring[i]) = 2 => Sided(ring[i].found_bodies)

LEMMA MatchedCancels ==
    ASSUME NEW n \in Nat, NEW T, TrackerOK(T, n + 1), NEW ring, RingOK(ring, n), SidedRing(ring),
           NEW stale
    PROVE  Cancels(T, Matched(T, ring, n, stale), n)
<1> DEFINE f == Delayed(ring, n)
           ok == IsCorrect(ring, Slot(f.frameN))
           M == IF NumBodies(f) = 1 THEN OneBody(T, ring, f, n)
                ELSE TwoBodies(T, ring, f, n, stale)
           D == With(M, Directed(M.people))
           V == Matched(T, ring, n, stale)
<1>1. IsFrame(f, n) /\ (NumBodies(f) = 2 => Sided(f.found_bodies))
  <2>1. n - MatchDelay \in Int
      BY TrackerAssumption
  <2>2. Back(n, MatchDelay) \in 0..HISTORY_LENGTH-1
      BY <2>1, SlotFact DEF Back
  <2> QED
      BY <2>2 DEF Delayed, RingOK, SidedRing
<1>2. f.frameN \in 0..(n + 1) - 1 /\ n \in 0..(n + 1) - 1 /\ n + 1 \in Nat /\ f.frameN \in Nat
      /\ f.frameN \in 0..n
    BY <1>1 DEF IsFrame
<1>3. V = IF ~ok \/ NumBodies(f) = 0 THEN T ELSE D
    BY DEF Matched
<1> HIDE DEF f
<1>4. NumBodies(f) \in 0..2
    BY <1>1 DEF IsFrame, NumBodies
<1>5. CASE ~ok \/ NumBodies(f) = 0
  <2> HIDE DEF ok
  <2> QED
      BY <1>3, <1>5 DEF Cancels
<1>6. CASE ok /\ NumBodies(f) = 1
  <2>1. V = D /\ M = OneBody(T, ring, f, n)
      BY <1>3, <1>6
  <2>2. f.found_bodies[1] \in Body
      BY <1>1, <1>6 DEF IsFrame, NumBodies
  <2> HIDE DEF M, V
  <2>3. Freshly(T, M) /\ TrackerOK(M, n + 1)
      BY <1>2, <2>1, <2>2, OneBodyFresh, OneBodyOK DEF Reaches
  <2>4. Cancels(T, V, n)
      BY <2>1, <2>3, FreshCancels
  <2> QED
      BY <2>4 DEF V
<1>7. CASE ok /\ NumBodies(f) = 2
  <2>1. V = D /\ M = TwoBodies(T, ring, f, n, stale)
      BY <1>3, <1>7
  <2>2. f.found_bodies \in Pair
    <3> DEFINE bs == f.found_bodies
    <3>1. bs \in [1..Len(bs) -> Body] /\ Len(bs) = 2
        BY <1>1, <1>7 DEF IsFrame, NumBodies
    <3> HIDE DEF bs
    <3>2. bs \in Pair
        BY <3>1 DEF Pair
    <3> QED
        BY <3>2 DEF bs
  <2> HIDE DEF M, V
  <2>3. TrackerOK(M, n + 1)
      BY <1>2, <2>1, <2>2, TwoBodiesOK DEF Reaches
  <2>4. CASE DOMAIN T.people # {}
    <3>1. Freshly(T, M)
        BY <1>2, <2>1, <2>4, TwoBodiesFresh
    <3>2. Cancels(T, V, n)
        BY <2>1, <2>3, <3>1, FreshCancels
    <3> QED
        BY <3>2 DEF V
  <2>5. CASE DOMAIN T.people = {}
    <3>1. Mirrored(T, M, n)
        BY <1>1, <1>2, <1>7, <2>1, <2>5, EmptyMirrored
    <3>2. Cancels(T, V, n)
        BY <2>1, <2>3, <3>1, MirroredCancels
    <3> QED
        BY <3>2 DEF V
  <2> QED
      BY <2>4, <2>5
<1> QED
    BY <1>4, <1>5, <1>6, <1>7
-----------------------------------------------------------------------------
(* The step.                                                               *)

LEMMA FrameSided ==
    ASSUME NEW n \in Nat, NEW scene \in Scenes, NumBodies(FrameOf(n, scene)) = 2
    PROVE  Sided(FrameOf(n, scene).found_bodies)
<1> DEFINE bs == BodiesOf(scene)
           L == Len(scene.cxs)
<1>1. scene.cxs \in Seq(Nat)
    BY TrackerAssumption DEF IsScene
<1>2. L \in Nat
    BY <1>1
<1>3. DOMAIN bs = 1..L /\ bs = [k \in 1..L |-> bs[k]]
    BY DEF BodiesOf
<1>4. FrameOf(n, scene).found_bodies = IF SeesPeople(n) THEN bs ELSE <<>>
    BY DEF FrameOf
<1>5. SeesPeople(n) /\ Len(bs) = 2
    BY <1>4 DEF NumBodies
<1>6. L = 2
  <2> HIDE DEF bs, L
  <2> QED
      BY <1>2, <1>3, <1>5
<1>7. Sided(bs)
    BY <1>6 DEF BodiesOf, Sided
<1> QED
    BY <1>4, <1>5, <1>7

LEMMA CorrectedSided ==
    ASSUME NEW n, NEW ring, RingOK(ring, n), SidedRing(ring), NEW idx \in 0..HISTORY_LENGTH-1
    PROVE  SidedRing(Corrected(ring, idx))
<1> DEFINE c == IsCorrect(ring, idx)
           after == Corrected(ring, idx)
<1>1. after = [ring EXCEPT ![idx] = [ring[idx] EXCEPT !.valid = c]]
    BY DEF Corrected, RingOK
<1>2. IsFrame(ring[idx], n) /\ DOMAIN ring = 0..HISTORY_LENGTH-1
    BY DEF RingOK
<1> HIDE DEF c, after
<1>3. \A i \in 0..HISTORY_LENGTH-1 : after[i].found_bodies = ring[i].found_bodies
    BY <1>1, <1>2 DEF IsFrame
<1>4. SidedRing(after)
    BY <1>3 DEF SidedRing, NumBodies
<1> QED
    BY <1>4 DEF after

\* The people turned in one of the two directions.
LEMMA OneTurned ==
    ASSUME NEW P, NEW Q, NEW a, NEW b, a # b, DOMAIN P = {a, b}, NEW d,
           P[a].direction_ = d, P[b].direction_ # d, DOMAIN Q = {}
    PROVE  Cardinality({i \in DOMAIN P \ DOMAIN Q : P[i].direction_ = d}) = 1
<1>1. {i \in DOMAIN P \ DOMAIN Q : P[i].direction_ = d} = {a}
    OBVIOUS
<1> QED
    BY <1>1, FS_Singleton

\* Neither of two people with an entry of the frame itself is dropped in it.
LEMMA PairStays ==
    ASSUME NEW n \in Nat, NEW P, NEW a, NEW b, DOMAIN P = {a, b},
           LastKey(P[a]) = n, LastKey(P[b]) = n,
           NEW E \in SUBSET DOMAIN P, ErasedBy(P, n, E)
    PROVE  E = {}
<1> SUFFICES ASSUME NEW i \in E PROVE FALSE
    OBVIOUS
<1> DEFINE above == {j \in E : j > i}
<1>1. IsFiniteSet({a, b}) /\ Cardinality({a, b}) <= 2 /\ Cardinality({a, b}) \in Nat
    BY PairFact, FS_CardinalityType
<1>2. Cardinality(above) \in Nat
    BY <1>1, SubsetFact
<1> HIDE DEF above
<1>3. ~Crowded(P, E, i)
    BY <1>1, <1>2 DEF Crowded, above
<1>4. IsLate(P[i], n)
    BY <1>3 DEF ErasedBy
<1>5. LastKey(P[i]) = n
    OBVIOUS
<1>6. n - n - MatchDelay >= DETECTION_DELAY
    BY <1>4, <1>5 DEF IsLate
<1> QED
    BY <1>6, TrackerAssumption

\* Nobody changes direction when trajectories are cut and people dropped.
LEMMA KeptDirection ==
    ASSUME NEW n, NEW S, TrackerOK(S, n), NEW E \in SUBSET DOMAIN S.people,
           NEW i \in DOMAIN S.people \ E
    PROVE  Kept(S.people, E)[i].direction_ = S.people[i].direction_
<1> DEFINE p == S.people[i]
           t == Cut(p)
           c == Mark(p)
<1>1. IsPerson(p, n)
    BY DEF TrackerOK
<1> HIDE DEF t, c
<1>2. Kept(S.people, E)[i] \in {p, [p EXCEPT !.trajectory = t, !.counted_ = c]}
    BY DEF Kept, t, c
<1> QED
    BY <1>1, <1>2 DEF IsPerson

LEMMA StepCancels ==
    ASSUME IInv, SidedRing(frames), NEW scene \in Scenes, NEW stale, ProcessFrame(scene, stale)
    PROVE  /\ SidedRing(frames')
           /\ LET turned(d) == {i \in DOMAIN people' \ DOMAIN people : people'[i].direction_ = d}
              IN Cardinality(turned("LtoR")) = Cardinality(turned("RtoL"))
<1> DEFINE n == frameN
           ring == [frames EXCEPT ![Slot(n)] = FrameOf(n, scene)]
           f == Delayed(ring, n)
           idx == Slot(f.frameN)
           T0 == [people |-> people, total_people |-> total_people, capacity |-> capacity]
           T == Matched(T0, ring, n, stale)
           turned(d) == {i \in DOMAIN people' \ DOMAIN people : people'[i].direction_ = d}
<1>1. n \in Nat /\ RingOK(frames, n)
    BY DEF IInv, TypeOK, RingOK
<1>2. RingOK(ring, n) /\ SidedRing(ring)
  <2>1. Slot(n) \in 0..HISTORY_LENGTH-1
      BY <1>1, SlotFact DEF Slot
  <2>2. IsFrame(FrameOf(n, scene), n)
      BY <1>1, FrameOfType
  <2>3. NumBodies(FrameOf(n, scene)) = 2 => Sided(FrameOf(n, scene).found_bodies)
      BY <1>1, FrameSided
  <2>4. RingOK(ring, n)
      BY <1>1, <2>1, <2>2 DEF RingOK
  <2>5. SidedRing(ring)
      BY <1>1, <2>1, <2>3 DEF SidedRing, RingOK
  <2> QED
      BY <2>4, <2>5
<1>3. TrackerOK(T0, n + 1)
  <2>1. \A j \in DOMAIN people : IsPerson(people[j], n + 1)
      BY <1>1 DEF IInv, TypeOK, IsPerson, IsTrajectory
  <2> QED
      BY <2>1 DEF TrackerOK, With, IInv, TypeOK
<1>4. T0.people = people
    OBVIOUS
<1>5. frames' = Corrected(ring, idx)
    BY DEF ProcessFrame
<1>6. PICK E \in SUBSET DOMAIN T.people : ErasedBy(T.people, n, E) /\ people' = Kept(T.people, E)
    BY DEF ProcessFrame
<1> HIDE DEF ring, T0
<1>7. idx \in 0..HISTORY_LENGTH-1
  <2>1. n - MatchDelay \in Int
      BY <1>1, TrackerAssumption
  <2>2. IsFrame(f, n)
      BY <1>2, <2>1, SlotFact DEF Delayed, Back, RingOK
  <2> QED
      BY <2>2, SlotFact DEF IsFrame, Slot
<1>8. SidedRing(frames')
    BY <1>2, <1>5, <1>7, CorrectedSided
<1>9. TrackerOK(T, n + 1) /\ Cancels(T0, T, n)
    BY <1>1, <1>2, <1>3, MatchedOK, MatchedCancels DEF Reaches
<1> HIDE DEF T, f, n
<1>10. /\ DOMAIN people' = DOMAIN T.people \ E
       /\ \A i \in DOMAIN people' : people'[i].direction_ = T.people[i].direction_
  <2>1. DOMAIN people' = DOMAIN T.people \ E
      BY <1>6 DEF Kept
  <2> QED
      BY <1>6, <1>9, <2>1, KeptDirection
<1>11. CASE \A i \in DOMAIN T.people \ DOMAIN people : T.people[i].direction_ = "UNKNOWNDIR"
  <2>1. turned("LtoR") = {} /\ turned("RtoL") = {}
      BY <1>10, <1>11
  <2> QED
      BY <1>8, <2>1
<1>12. CASE ~ \A i \in DOMAIN T.people \ DOMAIN people : T.people[i].direction_ = "UNKNOWNDIR"
  <2>1. PICK a \in Nat, b \in Nat :
          /\ a # b /\ DOMAIN people = {} /\ DOMAIN T.people = {a, b}
          /\ T.people[a].direction_ = "LtoR" /\ LastKey(T.people[a]) = n
          /\ T.people[b].direction_ = "RtoL" /\ LastKey(T.people[b]) = n
      BY <1>4, <1>9, <1>12 DEF Cancels
  <2>2. E = {}
      BY <1>1, <1>6, <2>1, PairStays
  <2>3. /\ DOMAIN people' = {a, b}
        /\ people'[a].direction_ = "LtoR" /\ people'[b].direction_ = "RtoL"
      BY <1>10, <2>1, <2>2
  <2>4. Cardinality(turned("LtoR")) = 1 /\ Cardinality(turned("RtoL")) = 1
      BY <2>1, <2>3, OneTurned
  <2> QED
      BY <1>8, <2>4
<1> QED
    BY <1>11, <1>12

\* The phantom crossings of people created from an empty scene come in pairs of
\* opposite directions, for any sequence of frames.
THEOREM PhantomsCancelOut == Spec => NewcomersCancelOut
<1> DEFINE even == LET turned(d) == {i \in DOMAIN people' \ DOMAIN people : people'[i].direction_ = d}
                   IN Cardinality(turned("LtoR")) = Cardinality(turned("RtoL"))
<1>1. Init => SidedRing(frames)
    BY DEF Init, SidedRing, NoFrameYet, NumBodies
<1>2. IInv /\ SidedRing(frames) /\ [Next]_vars => SidedRing(frames)' /\ [even]_vars
  <2>1. ASSUME IInv, SidedRing(frames), Next PROVE SidedRing(frames') /\ even
      BY <2>1, StepCancels DEF Next
  <2>2. UNCHANGED vars => frames' = frames
      BY DEF vars
  <2> HIDE DEF even
  <2> QED
      BY <2>1, <2>2
<1> QED
    BY Invariance, <1>1, <1>2, PTL DEF Spec, NewcomersCancelOut
-----------------------------------------------------------------------------
(* Remainders: the slots of the ring.                                      *)

\* A number is its quotient times the divisor plus its remainder.
LEMMA Division ==
    ASSUME NEW m \in Nat, m > 0, NEW a \in Int
    PROVE  a = m * (a \div m) + (a % m) /\ a % m \in 0..m - 1 /\ a \div m \in Int
OBVIOUS

\* Multiples of m are m apart.
LEMMA Products ==
    ASSUME NEW m \in Nat, m > 0, NEW x \in Int, NEW y \in Int
    PROVE  /\ m * x \in Int /\ m * y \in Int /\ m * (x - y) = m * x - m * y
           /\ m * (x + y) = m * x + m * y
           /\ x < y => m * x + m <= m * y
OBVIOUS

\* The remainder is the only one.
LEMMA Remainder ==
    ASSUME NEW m \in Nat, m > 0, NEW a \in Int, NEW q \in Int, NEW r \in 0..m - 1,
           a = m * q + r
    PROVE  a % m = r
<1> DEFINE p == a \div m
           s == a % m
<1>1. a = m * p + s /\ s \in 0..m - 1 /\ p \in Int
    BY Division
<1> HIDE DEF p, s
<1>2. /\ m * p \in Int /\ m * q \in Int
      /\ p < q => m * p + m <= m * q
      /\ q < p => m * q + m <= m * p
    BY <1>1, Products
<1>3. p = q
    BY <1>1, <1>2
<1>4. s = r
    BY <1>1, <1>2, <1>3
<1> QED
    BY <1>4 DEF s

\* Numbers with the same remainder are apart.
LEMMA SameRemainder ==
    ASSUME NEW m \in Nat, m > 0, NEW a \in Int, NEW b \in Int, a % m = b % m, a < b
    PROVE  b - a >= m
<1> DEFINE p == a \div m
           q == b \div m
           r == a % m
<1>1. a = m * p + r /\ b = m * q + r /\ p \in Int /\ q \in Int /\ r \in Int
    BY Division
<1> HIDE DEF p, q, r
<1>2. /\ m * p \in Int /\ m * q \in Int
      /\ p < q => m * p + m <= m * q
      /\ q < p => m * q + m <= m * p
    BY <1>1, Products
<1> QED
    BY <1>1, <1>2

\* A remainder may be taken before adding or after.
LEMMA SumOfRemainder ==
    ASSUME NEW m \in Nat, m > 0, NEW a \in Int, NEW b \in Int
    PROVE  ((a % m) + b) % m = (a + b) % m
<1> DEFINE p == a \div m
           r == a % m
           x == r + b
           q == x \div m
           s == x % m
<1>1. a = m * p + r /\ p \in Int /\ r \in 0..m - 1
    BY Division
<1>2. x = m * q + s /\ q \in Int /\ s \in 0..m - 1
  <2>1. x \in Int
      BY <1>1
  <2> HIDE DEF x
  <2> QED
      BY <2>1, Division
<1>3. x = r + b
    OBVIOUS
<1> HIDE DEF p, r, x, q, s
<1>4. m * (p + q) = m * p + m * q /\ m * p \in Int /\ m * q \in Int
    BY <1>1, <1>2, Products
<1>5. a + b = m * (p + q) + s /\ p + q \in Int /\ a + b \in Int
    BY <1>1, <1>2, <1>3, <1>4
<1>6. (a + b) % m = s
    BY <1>2, <1>5, Remainder
<1> QED
    BY <1>6 DEF s, x, r

\* The constants as numbers.
LEMMA DelayFacts ==
    /\ HISTORY_LENGTH \in Nat /\ HISTORY_LENGTH > 0 /\ WINDOW_SIZE \in Nat
    /\ HISTORY_LENGTH > WINDOW_SIZE + MatchDelay + 1
    /\ MatchDelay \in Nat /\ MatchDelay > 0
    /\ DETECTION_DELAY \in Nat /\ BACKGROUND_FRAMES \in Nat
    /\ START_FRAME \in Nat /\ END_FRAME \in Nat /\ TRAJECTORY_LENGTH \in Nat
    /\ MinSighting \in Nat /\ Gap \in Nat /\ MaxAge \in Nat
    /\ MinSighting <= MaxAge /\ Gap <= MaxAge
    /\ PeopleAtStart \in Int
BY TrackerAssumption, WalkAssumption

\* Frames less than a ring apart have different slots.
LEMMA SlotsDiffer ==
    ASSUME NEW a \in Int, NEW b \in Int, a < b, b - a < HISTORY_LENGTH
    PROVE  Slot(a) # Slot(b)
<1>1. HISTORY_LENGTH \in Nat /\ HISTORY_LENGTH > 0
    BY DelayFacts
<1>2. a % HISTORY_LENGTH = b % HISTORY_LENGTH => b - a >= HISTORY_LENGTH
    BY <1>1, SameRemainder
<1> QED
    BY <1>1, <1>2 DEF Slot

\* Counting from a slot is counting from its frame.
LEMMA SlotOfSlot ==
    ASSUME NEW a \in Int, NEW c \in Int
    PROVE  /\ Slot(a) \in 0..HISTORY_LENGTH-1
           /\ Slot(Slot(a) + c) = Slot(a + c)
           /\ Back(Slot(a), c) = Slot(a - c)
           /\ Back(a, c) = Slot(a - c)
<1>1. HISTORY_LENGTH \in Nat /\ HISTORY_LENGTH > 0
    BY DelayFacts
<1>2. a % HISTORY_LENGTH \in 0..HISTORY_LENGTH-1
    BY <1>1, Division
<1>3. ((a % HISTORY_LENGTH) + c) % HISTORY_LENGTH = (a + c) % HISTORY_LENGTH
    BY <1>1, SumOfRemainder
<1>4. /\ -c \in Int /\ a + (-c) = a - c
      /\ (a % HISTORY_LENGTH) + (-c) = (a % HISTORY_LENGTH) - c
    BY <1>1, <1>2
<1>5. ((a % HISTORY_LENGTH) + (-c)) % HISTORY_LENGTH = (a + (-c)) % HISTORY_LENGTH
    BY <1>1, <1>4, SumOfRemainder
<1> QED
    BY <1>2, <1>3, <1>4, <1>5 DEF Slot, Back
-----------------------------------------------------------------------------
(* The past of the doorway: a function from frame numbers to what was going *)
(* on, which the proof carries along instead of a variable.                 *)

Phases == {"empty", "near", "middle", "far"}
Sides == {LEFTSIDE, RIGHTSIDE}

\* Before the first frame the doorway has been empty.
Before == [phase |-> "empty", age |-> MaxAge, from |-> LEFTSIDE, truth |-> PeopleAtStart,
           shows |-> 0, side |-> UNKNOWNSIDE]

\* What may be said of a single frame.
Sound(d) ==
    /\ d.phase \in Phases /\ d.from \in Sides /\ d.truth \in Int
    /\ d.age \in 0..MaxAge /\ d.shows \in 0..2
    /\ d.age > 0 => /\ d.shows = IF d.phase = "empty" THEN 0 ELSE 1
                    /\ d.side = View(d.phase, d.from).side
    /\ d.age = 0 => d.phase # "empty" /\ d.shows # 1

Older(a) == IF a < MaxAge THEN a + 1 ELSE a

\* How many people a visitor who has crossed adds.
Gain(side) == IF Enters(side) THEN 1 ELSE -1

\* How frame e follows frame d: the actions of the doorway.
Stays(d, e) ==
    /\ e.age = Older(d.age)
    /\ e.phase = d.phase /\ e.from = d.from /\ e.truth = d.truth
Arrives(d, e) ==
    /\ d.phase = "empty" /\ d.age >= Gap
    /\ e.phase = "near" /\ e.age = 1 /\ e.truth = d.truth
Moves(d, e) ==
    /\ <<d.phase, e.phase>> \in {<<"near", "middle">>, <<"near", "far">>, <<"middle", "far">>,
                                 <<"middle", "near">>, <<"near", "empty">>, <<"far", "empty">>}
    /\ d.phase = "middle" \/ d.age >= MinSighting
    /\ e.age = 1 /\ e.from = d.from
    /\ e.truth = IF d.phase = "far" THEN d.truth + Gain(d.from) ELSE d.truth
Glitches(d, e) ==
    /\ d.phase # "empty" /\ d.age > 0
    /\ e.age = 0
    /\ e.phase = d.phase /\ e.from = d.from /\ e.truth = d.truth
Follows(d, e) == Stays(d, e) \/ Arrives(d, e) \/ Moves(d, e) \/ Glitches(d, e)

\* h is what went on in the frames before frame N.
IsPast(h, N) ==
    /\ \A j \in Int : j < START_FRAME => h[j] = Before
    /\ \A j \in Int : j < N => Sound(h[j])
    /\ \A j \in Int : j < N => Follows(h[j-1], h[j])
    /\ \A j \in Int : j < N /\ ~SeesPeople(j) => h[j].phase = "empty" /\ h[j].truth = PeopleAtStart

\* A doorway that has been empty for some frames was empty in each of them.
LongEmpty(h, N) ==
    \A j \in Int, i \in Int :
        j < N /\ i <= j /\ h[j].phase = "empty" /\ h[j].age > j - i
            => /\ h[i].phase = "empty" /\ h[i].truth = h[j].truth
               /\ h[i].age >= h[j].age - (j - i)

\* The ring shows what h says of the frames before N; those from lo on have not
\* been corrected.
RingShows(h, ring, N, lo) ==
    /\ \A j \in Int : START_FRAME <= j /\ N - HISTORY_LENGTH <= j /\ j < N =>
            /\ ring[Slot(j)].frameN = j
            /\ NumBodies(ring[Slot(j)]) = h[j].shows
            /\ h[j].shows = 1 => ring[Slot(j)].found_bodies[1].side = h[j].side
            /\ j >= lo => ring[Slot(j)].valid
    /\ N <= START_FRAME + BACKGROUND_FRAMES =>
            \A i \in 0..HISTORY_LENGTH-1 : NumBodies(ring[i]) = 0

\* The nearest valid frame up to k is k or the one before, and shows s bodies.
Steady(h, ring, k, s) ==
    \/ ring[Slot(k)].valid /\ h[k].shows = s
    \/ /\ ~ring[Slot(k)].valid /\ k - 1 >= START_FRAME
       /\ ring[Slot(k-1)].valid /\ h[k-1].shows = s

\* correct_frame finds the nearest valid frame, which is at most two back.
LEMMA PreviousFact ==
    ASSUME NEW ring, NEW k \in Int, WINDOW_SIZE > 0
    PROVE  /\ ring[Slot(k-1)].valid => PreviousValid(ring, Slot(k)) = Slot(k-1)
           /\ ~ring[Slot(k-1)].valid /\ ring[Slot(k-2)].valid
                => PreviousValid(ring, Slot(k)) = Slot(k-2)
<1> DEFINE idx == Slot(k)
           valid == {c \in 1..WINDOW_SIZE : ring[Back(idx, c)].valid}
           m == IF valid = {} THEN WINDOW_SIZE + 1 ELSE Min(valid)
<1>1. PreviousValid(ring, Slot(k)) = Back(idx, m)
    BY DEF PreviousValid
<1>2. \A c \in Int : Back(idx, c) = Slot(k - c)
    BY SlotOfSlot
<1>3. WINDOW_SIZE \in Nat
    BY DelayFacts
<1>4. valid \subseteq Nat /\ (valid # {} => Min(valid) \in valid /\ \A y \in valid : Min(valid) <= y)
  <2>1. valid \subseteq Nat
      OBVIOUS
  <2> HIDE DEF valid
  <2> QED
      BY <2>1, MinFact
<1>5. ASSUME ring[Slot(k-1)].valid PROVE m = 1
  <2>1. 1 \in valid
      BY <1>2, <1>3, <1>5
  <2>2. Min(valid) \in 1..WINDOW_SIZE /\ Min(valid) <= 1
      BY <2>1, <1>4
  <2> HIDE DEF valid
  <2> QED
      BY <2>1, <2>2
<1>6. ASSUME ~ring[Slot(k-1)].valid, ring[Slot(k-2)].valid PROVE m = 2
  <2>1. 1 \notin valid
      BY <1>2, <1>3, <1>6
  <2>2. CASE WINDOW_SIZE = 1
    <3>1. valid = {}
        BY <2>1, <2>2
    <3> HIDE DEF valid
    <3> QED
        BY <3>1, <2>2
  <2>3. CASE WINDOW_SIZE # 1
    <3>1. 2 \in valid
        BY <1>2, <1>3, <1>6, <2>3
    <3>2. Min(valid) \in 1..WINDOW_SIZE /\ Min(valid) <= 2 /\ Min(valid) # 1
        BY <3>1, <1>4, <2>1
    <3> HIDE DEF valid
    <3> QED
        BY <3>1, <3>2
  <2> QED
      BY <2>2, <2>3
<1> HIDE DEF m, idx
<1> QED
    BY <1>1, <1>2, <1>5, <1>6

\* What correct_frame decides of frame k = n - MatchDelay, when the nearest
\* valid frame before it shows s bodies.
LEMMA CorrectFact ==
    ASSUME DelaysFit, NEW n \in Nat, NEW h, NEW ring,
           RingShows(h, ring, n + 1, n - MatchDelay),
           NEW k, k = n - MatchDelay, k > START_FRAME,
           NEW s, Steady(h, ring, k - 1, s)
    PROVE  IsCorrect(ring, Slot(k)) <=> h[k].shows = h[k+1].shows \/ s # h[k+1].shows
<1>0. /\ k \in Int /\ k - 1 \in Int /\ k - 2 \in Int /\ k + 1 \in Int
      /\ WINDOW_SIZE > 0 /\ START_FRAME \in Nat /\ HISTORY_LENGTH \in Nat
      /\ HISTORY_LENGTH > WINDOW_SIZE + MatchDelay + 1
      /\ MatchDelay \in Nat /\ MatchDelay > 0 /\ WINDOW_SIZE \in Nat
    BY DelayFacts DEF DelaysFit
<1>1. /\ NumBodies(ring[Slot(k)]) = h[k].shows /\ ring[Slot(k)].valid
      /\ NumBodies(ring[Slot(k+1)]) = h[k+1].shows
      /\ NumBodies(ring[Slot(k-1)]) = h[k-1].shows
      /\ k - 2 >= START_FRAME => NumBodies(ring[Slot(k-2)]) = h[k-2].shows
    BY <1>0 DEF RingShows
<1>2. NumBodies(ring[PreviousValid(ring, Slot(k))]) = s
    BY <1>0, <1>1, PreviousFact DEF Steady
<1>3. Slot(Slot(k) + 1) = Slot(k + 1)
    BY <1>0, SlotOfSlot
<1> QED
    BY <1>1, <1>2, <1>3 DEF IsCorrect, IsGlitch
-----------------------------------------------------------------------------
(* What of a visit is seen.                                                *)

\* After frame d was corrected: v says whether it is valid, s is the number of
\* bodies in the nearest valid frame and b that of the frame after d.
Seen(d, v, s, b) ==
    /\ v \in BOOLEAN /\ s \in {0, 1}
    /\ v => s = d.shows
    /\ ~v => s = b
    /\ d.phase = "empty" => v
    /\ d.phase \in {"middle", "far"} => s = 1 /\ (d.age > 0 => v)
    /\ d.phase = "near" /\ d.age > 0 => (v <=> s = 1)
    /\ d.phase = "near" /\ d.age = 0 => (v <=> s = 0)

Valid(s, e, f) == e.shows = f.shows \/ s # f.shows

\* What is seen of one frame and of the next: s stays 1 from the first valid
\* frame of a visit to the last, and the visitor is seen on both sides.
LEMMA SeenNext ==
    ASSUME DelaysFit, NEW d, NEW e, NEW f, Sound(d), Sound(e), Sound(f),
           Follows(d, e), Follows(e, f),
           NEW v, NEW s, Seen(d, v, s, e.shows)
    PROVE  LET w == Valid(s, e, f)
               t == IF w THEN e.shows ELSE s
           IN /\ Seen(e, w, t, f.shows)
              /\ ~w => v /\ s = d.shows
              /\ s = 0 /\ e.shows = 1 => e.phase = "near" /\ e.age > 0
              /\ s = 1 /\ e.phase # "empty" => t = 1
<1> DEFINE w == Valid(s, e, f)
           t == IF w THEN e.shows ELSE s
<1> SUFFICES /\ Seen(e, w, t, f.shows)
             /\ ~w => v /\ s = d.shows
             /\ s = 0 /\ e.shows = 1 => e.phase = "near" /\ e.age > 0
             /\ s = 1 /\ e.phase # "empty" => t = 1
    OBVIOUS
<1>0. /\ MinSighting \in Nat /\ MinSighting > 0 /\ Gap \in Nat /\ Gap > 1 /\ MaxAge \in Nat
      /\ MaxAge > 1
    BY DelayFacts DEF DelaysFit
<1>1. /\ d.age \in 0..MaxAge /\ e.age \in 0..MaxAge /\ f.age \in 0..MaxAge
      /\ d.shows \in 0..2 /\ e.shows \in 0..2 /\ f.shows \in 0..2
      /\ d.phase \in Phases /\ e.phase \in Phases /\ f.phase \in Phases
      /\ d.age > 0 => d.shows = IF d.phase = "empty" THEN 0 ELSE 1
      /\ e.age > 0 => e.shows = IF e.phase = "empty" THEN 0 ELSE 1
      /\ f.age > 0 => f.shows = IF f.phase = "empty" THEN 0 ELSE 1
      /\ d.age = 0 => d.phase # "empty" /\ d.shows # 1
      /\ e.age = 0 => e.phase # "empty" /\ e.shows # 1
      /\ f.age = 0 => f.phase # "empty" /\ f.shows # 1
    BY DEF Sound
\* The doorway, without names of people.
<1>2. \/ e.age = Older(d.age) /\ e.phase = d.phase
      \/ d.phase = "empty" /\ d.age >= Gap /\ e.phase = "near" /\ e.age = 1
      \/ /\ <<d.phase, e.phase>> \in {<<"near", "middle">>, <<"near", "far">>, <<"middle", "far">>,
                                 <<"middle", "near">>, <<"near", "empty">>, <<"far", "empty">>}
         /\ d.phase = "middle" \/ d.age >= MinSighting
         /\ e.age = 1
      \/ d.phase # "empty" /\ d.age > 0 /\ e.age = 0 /\ e.phase = d.phase
    BY DEF Follows, Stays, Arrives, Moves, Glitches
<1>3. \/ f.age = Older(e.age) /\ f.phase = e.phase
      \/ e.phase = "empty" /\ e.age >= Gap /\ f.phase = "near" /\ f.age = 1
      \/ /\ <<e.phase, f.phase>> \in {<<"near", "middle">>, <<"near", "far">>, <<"middle", "far">>,
                                 <<"middle", "near">>, <<"near", "empty">>, <<"far", "empty">>}
         /\ e.phase = "middle" \/ e.age >= MinSighting
         /\ f.age = 1
      \/ e.phase # "empty" /\ e.age > 0 /\ f.age = 0 /\ f.phase = e.phase
    BY DEF Follows, Stays, Arrives, Moves, Glitches
<1>4. Older(d.age) > 0 /\ Older(e.age) > 0
    BY <1>0, <1>1 DEF Older
<1>5. w \in BOOLEAN /\ (w => t = e.shows) /\ (~w => t = s /\ s = f.shows)
    BY DEF Valid
<1>6. CASE e.phase = "empty"
  <2>1. e.age > 0 /\ e.shows = 0
      BY <1>1, <1>6
  <2>2. CASE f.shows = 0
      BY <2>1, <2>2, <1>6 DEF Seen, Valid
  <2>3. CASE f.shows # 0
    <3>1. e.age >= Gap
        BY <2>3, <1>1, <1>3, <1>4, <1>6
    <3>2. d.phase = "empty" /\ s = 0
        BY <3>1, <1>0, <1>1, <1>2, <1>6 DEF Seen
    <3> QED
        BY <3>2, <2>1, <2>3, <1>6 DEF Seen, Valid
  <2> QED
      BY <2>2, <2>3
<1>7. CASE e.phase # "empty" /\ e.age > 0
  <2>1. e.shows = 1
      BY <1>1, <1>7
  <2>2. CASE s = 1
    <3>1. w
        BY <2>1, <2>2 DEF Valid
    <3> QED
        BY <3>1, <2>1, <2>2, <1>7, <1>1 DEF Seen, Phases
  <2>3. CASE s # 1
    <3>1. s = 0 /\ v /\ d.shows = 0
        BY <2>1, <2>3 DEF Seen
    <3>2. e.phase = "near"
        BY <3>1, <1>0, <1>1, <1>2, <1>4, <1>7 DEF Seen, Phases
    <3>3. CASE w
        BY <3>1, <3>2, <3>3, <2>1, <1>5, <1>7 DEF Seen
    <3>4. CASE ~w
        BY <3>1, <3>2, <3>4, <2>1, <1>5, <1>7 DEF Seen
    <3> QED
        BY <3>3, <3>4
  <2> QED
      BY <2>2, <2>3
<1>8. CASE e.phase # "empty" /\ e.age = 0
  <2>1. e.shows # 1 /\ f.shows = 1 /\ d.age > 0 /\ d.phase = e.phase /\ d.shows = 1
      BY <1>0, <1>1, <1>2, <1>3, <1>4, <1>8
  <2>2. w = (s # 1)
      BY <2>1 DEF Valid
  <2>3. CASE s = 1
    <3>1. ~w /\ t = 1
        BY <2>2, <2>3, <1>5
    <3>2. v
        BY <2>1, <2>3, <1>1, <1>8 DEF Seen, Phases
    <3> HIDE DEF w, t
    <3> QED
        BY <3>1, <3>2, <2>1, <2>3, <1>1, <1>5, <1>8 DEF Seen
  <2>4. CASE s # 1
    <3>1. s = 0 /\ d.phase = "near"
        BY <2>1, <2>4, <1>1, <1>8 DEF Seen, Phases
    <3>2. ~v /\ e.shows = 0
        BY <3>1, <2>1 DEF Seen
    <3>3. w /\ t = 0
        BY <2>2, <2>4, <3>2, <1>5
    <3> HIDE DEF w, t
    <3> QED
        BY <3>1, <3>2, <3>3, <2>1, <1>5, <1>8 DEF Seen
  <2> QED
      BY <2>3, <2>4
<1> HIDE DEF w, t
<1> QED
    BY <1>0, <1>1, <1>6, <1>7, <1>8
-----------------------------------------------------------------------------
(* A tracker that follows one person, or nobody.                           *)

\* i is the only person: seen first on side from and last in frame last.
Alone(P, i, from_, last, dir) ==
    /\ P = [j \in {i} |-> P[i]]
    /\ P[i].counted_ = "NOTYET"
    /\ First(P[i]) = from_ /\ LastKey(P[i]) = last
    /\ P[i].direction_ = dir

\* The direction of somebody who came from a side and is now seen on another.
Turned(from_, dir, side) ==
    IF dir = "UNKNOWNDIR" /\ Opposite(from_, side)
    THEN IF from_ = LEFTSIDE THEN "LtoR" ELSE "RtoL" ELSE dir

\* First and last entries are at the least and the greatest key.
LEMMA KeysFact ==
    ASSUME NEW n \in Nat, NEW p, IsPerson(p, n)
    PROVE  LET D == DOMAIN p.trajectory
           IN /\ LastKey(p) \in D /\ LastKey(p) \in Nat /\ \A x \in D : x \in 0..LastKey(p)
              /\ Min(D) \in D /\ \A x \in D : Min(D) <= x
<1> DEFINE D == DOMAIN p.trajectory
<1>1. D \subseteq 0..n-1 /\ D # {}
    BY DEF IsPerson, IsTrajectory
<1> HIDE DEF D
<1>2. D \subseteq 0..n /\ D \subseteq Nat
    BY <1>1
<1>3. Max(D) \in D /\ \A y \in D : Max(D) >= y
    BY <1>1, <1>2, MaxFact
<1>4. Min(D) \in D /\ \A y \in D : Min(D) <= y
    BY <1>1, <1>2, MinFact
<1>5. LastKey(p) = Max(D)
    BY DEF LastKey, D
<1> QED
    BY <1>2, <1>3, <1>4, <1>5 DEF D

\* What the entry of a later frame does to a trajectory.
LEMMA ExtendedPerson ==
    ASSUME NEW n \in Nat, NEW p, IsPerson(p, n), NEW k \in Nat, LastKey(p) < k,
           NEW side \in FrameSide
    PROVE  LET q == [p EXCEPT !.trajectory = Record(@, k, side)]
           IN /\ First(q) = First(p) /\ LastKey(q) = k /\ Last(q) = side
              /\ q.counted_ = p.counted_ /\ q.direction_ = p.direction_
<1> DEFINE t == p.trajectory
           D == DOMAIN t
           u == Record(t, k, side)
           q == [p EXCEPT !.trajectory = u]
<1>1. /\ LastKey(p) \in D /\ LastKey(p) \in Nat /\ \A x \in D : x \in 0..LastKey(p)
      /\ Min(D) \in D /\ \A x \in D : Min(D) <= x
    BY KeysFact
<1>2. /\ q.trajectory = u /\ q.counted_ = p.counted_ /\ q.direction_ = p.direction_
    BY DEF IsPerson
<1>3. DOMAIN u = D \cup {k} /\ u[k] = side /\ \A x \in D : x # k => u[x] = t[x]
    BY DEF Record
<1> HIDE DEF u, q, D
<1>4. D \cup {k} \subseteq Nat /\ D \cup {k} \subseteq 0..k /\ D \cup {k} # {}
    BY <1>1
<1>5. Min(D \cup {k}) \in D \cup {k} /\ \A y \in D \cup {k} : Min(D \cup {k}) <= y
    BY <1>4, MinFact
<1>6. Max(D \cup {k}) \in D \cup {k} /\ \A y \in D \cup {k} : Max(D \cup {k}) >= y
    BY <1>4, MaxFact
<1>7. Max(D \cup {k}) = k
    BY <1>4, <1>6
<1>8. Min(D \cup {k}) = Min(D) /\ Min(D) # k
  <2>1. Min(D) \in Nat /\ Min(D) < k
      BY <1>1
  <2>2. Min(D \cup {k}) <= Min(D) /\ Min(D \cup {k}) \in Nat
      BY <1>1, <1>4, <1>5
  <2>3. Min(D \cup {k}) \in D
      BY <2>1, <2>2, <1>5
  <2>4. Min(D) <= Min(D \cup {k})
      BY <2>3, <1>1
  <2> QED
      BY <2>1, <2>2, <2>4
<1>9. First(q) = u[Min(D \cup {k})] /\ LastKey(q) = Max(D \cup {k})
    BY <1>2, <1>3 DEF First, LastKey
<1>10. First(p) = t[Min(D)]
    BY DEF First, D
<1>11. First(q) = First(p)
    BY <1>1, <1>3, <1>8, <1>9, <1>10
<1>12. LastKey(q) = k /\ Last(q) = side
    BY <1>2, <1>3, <1>7, <1>9 DEF Last
<1> QED
    BY <1>2, <1>11, <1>12 DEF q, u

\* update_people_direction, for the one person.
LEMMA DirectedAlone ==
    ASSUME NEW n \in Nat, NEW P, NEW i, IsPerson(P[i], n),
           NEW a, NEW last, NEW dir, Alone(P, i, a, last, dir)
    PROVE  Alone(Directed(P), i, a, last, Turned(a, dir, Last(P[i])))
<1> DEFINE p == P[i]
           e == DirectionOf(p)
           q == [p EXCEPT !.direction_ = e]
<1>1. e = Turned(a, dir, Last(p))
    BY DEF DirectionOf, Turned, Alone
<1> HIDE DEF e
<1>2. q.trajectory = p.trajectory /\ q.counted_ = p.counted_ /\ q.direction_ = e
    BY DEF IsPerson
<1>3. First(q) = First(p) /\ LastKey(q) = LastKey(p)
    BY <1>2 DEF First, LastKey
<1>4. DOMAIN P = {i}
    BY DEF Alone
<1>5. Directed(P) = [j \in {i} |-> [P[j] EXCEPT !.direction_ = DirectionOf(P[j])]]
    BY <1>4 DEF Directed
<1>6. Directed(P) = [j \in {i} |-> q] /\ Directed(P)[i] = q
    BY <1>5 DEF e
<1> HIDE DEF q
<1> QED
    BY <1>1, <1>2, <1>3, <1>6 DEF Alone

\* create_new_person, for somebody seen on a side.
LEMMA CreatedAlone ==
    ASSUME NEW T, T.people = <<>>, NEW ring, NEW b, b.side \in Sides, NEW k \in Nat
    PROVE  LET S == Create(T, ring, b, k)
               i == T.total_people
           IN /\ Alone(S.people, i, b.side, k, "UNKNOWNDIR")
              /\ Last(S.people[i]) = b.side
<1> DEFINE i == T.total_people
           p == NewPerson(b.side, k)
           S == Create(T, ring, b, k)
<1>1. S.people = Record(<<>>, i, p)
    BY DEF Create, Sides, LEFTSIDE, RIGHTSIDE, UNKNOWNSIDE
<1>2. Record(<<>>, i, p) = [j \in {i} |-> p]
  <2>1. DOMAIN <<>> = {}
      OBVIOUS
  <2>2. DOMAIN <<>> \cup {i} = {i}
      BY <2>1
  <2> HIDE DEF i, p
  <2> QED
      BY <2>2 DEF Record
<1>3. /\ p.trajectory = [x \in {k} |-> b.side] /\ p.counted_ = "NOTYET"
      /\ p.direction_ = "UNKNOWNDIR"
    BY DEF NewPerson
<1>4. Min({k}) = k /\ Max({k}) = k
  <2>1. {k} \subseteq Nat /\ {k} # {} /\ {k} \subseteq 0..k
      OBVIOUS
  <2> QED
      BY <2>1, MinFact, MaxFact
<1> HIDE DEF p, i, S
<1>5. First(p) = b.side /\ LastKey(p) = k /\ Last(p) = b.side
    BY <1>3, <1>4 DEF First, LastKey, Last
<1>6. S.people = [j \in {i} |-> p] /\ S.people[i] = p
    BY <1>1, <1>2
<1> QED
    BY <1>3, <1>5, <1>6 DEF Alone, i, S

\* match_body_person, when the doorway shows one body or nobody.
LEMMA MatchedAlone ==
    ASSUME NEW n \in Nat, NEW T, TrackerOK(T, n), NEW ring, NEW m, NEW stale,
           NEW k \in Nat, Delayed(ring, m).frameN = k, NumBodies(Delayed(ring, m)) \in Nat
    PROVE  LET f == Delayed(ring, m)
               b == f.found_bodies[1]
               ok == IsCorrect(ring, Slot(k))
               M == Matched(T, ring, m, stale)
           IN /\ ~ok \/ NumBodies(f) = 0 => M = T
              /\ ok /\ NumBodies(f) = 1 /\ b.side \in Sides /\ T.people = <<>>
                    => Alone(M.people, T.total_people, b.side, k, "UNKNOWNDIR")
              /\ \A i, a, last, dir :
                    /\ ok /\ NumBodies(f) = 1 /\ b.side \in FrameSide
                    /\ Alone(T.people, i, a, last, dir) /\ last < k
                    /\ is_match(T.people[i], b)
                    => Alone(M.people, i, a, k, Turned(a, dir, b.side))
<1> DEFINE f == Delayed(ring, m)
           b == f.found_bodies[1]
           ok == IsCorrect(ring, Slot(k))
           M == Matched(T, ring, m, stale)
           O == OneBody(T, ring, f, m)
<1>1. ~ok \/ NumBodies(f) = 0 => M = T
    BY DEF Matched
<1>2. ASSUME ok, NumBodies(f) = 1
      PROVE  M.people = Directed(O.people)
    BY <1>2 DEF Matched, With
<1>3. ASSUME ok, NumBodies(f) = 1, b.side \in Sides, T.people = <<>>
      PROVE  Alone(M.people, T.total_people, b.side, k, "UNKNOWNDIR")
  <2> DEFINE C == Create(T, ring, b, k)
             i == T.total_people
  <2>1. O = C
    <3>1. DOMAIN T.people = {}
        BY <1>3
    <3>2. Cardinality(DOMAIN T.people) = 0
        BY <3>1, FS_EmptySet
    <3> QED
        BY <3>2 DEF OneBody
  <2>2. Alone(C.people, i, b.side, k, "UNKNOWNDIR") /\ Last(C.people[i]) = b.side
      BY <1>3, CreatedAlone
  <2>3. Turned(b.side, "UNKNOWNDIR", b.side) = "UNKNOWNDIR"
      BY DEF Turned, Opposite, LEFTSIDE, RIGHTSIDE
  <2>4. IsPerson(C.people[i], k + 1)
    <3>1. C.people = Record(<<>>, i, NewPerson(b.side, k))
        BY <1>3 DEF Create, Sides, LEFTSIDE, RIGHTSIDE, UNKNOWNSIDE
    <3>2. C.people[i] = NewPerson(b.side, k)
        BY <3>1 DEF Record
    <3>3. IsPerson(NewPerson(b.side, k), k + 1)
        BY <1>3 DEF IsPerson, IsTrajectory, NewPerson, Sides, FrameSide, Direction, Counted
    <3> QED
        BY <3>2, <3>3
  <2> HIDE DEF C, i
  <2>5. Alone(Directed(C.people), i, b.side, k, Turned(b.side, "UNKNOWNDIR", Last(C.people[i])))
      BY <2>2, <2>4, DirectedAlone
  <2> QED
      BY <1>2, <1>3, <2>1, <2>2, <2>3, <2>5 DEF i
<1>4. ASSUME NEW i, NEW a, NEW last, NEW dir, ok, NumBodies(f) = 1, b.side \in FrameSide,
             Alone(T.people, i, a, last, dir), last < k, is_match(T.people[i], b)
      PROVE  Alone(M.people, i, a, k, Turned(a, dir, b.side))
  <2> DEFINE p == T.people[i]
             q == [p EXCEPT !.trajectory = Record(@, k, b.side)]
             S == Extend(T, i, b, k)
  <2>1. DOMAIN T.people = {i} /\ IsPerson(p, n)
      BY <1>4 DEF Alone, TrackerOK
  <2>a. i \in Nat
      BY <2>1 DEF TrackerOK
  <2>2. O = S
    <3>1. Cardinality(DOMAIN T.people) = 1
        BY <2>1, FS_Singleton
    <3>2. Min(DOMAIN T.people) = i
        BY <2>1, <2>a, MinFact
    <3>3. O = OneOne(T, ring, b, f)
        BY <3>1 DEF OneBody
    <3> QED
        BY <3>2, <3>3, <1>4 DEF OneOne
  <2>3. S.people = [j \in {i} |-> q] /\ S.people[i] = q
    <3>1. S.people = Record(T.people, i, q)
        BY DEF Extend, With
    <3>2. DOMAIN T.people \cup {i} = {i}
        BY <2>1
    <3> HIDE DEF q, S
    <3>3. Record(T.people, i, q) = [j \in {i} |-> q]
        BY <3>2 DEF Record
    <3> QED
        BY <3>1, <3>3
  <2>4. /\ First(q) = First(p) /\ LastKey(q) = k /\ Last(q) = b.side
        /\ q.counted_ = p.counted_ /\ q.direction_ = p.direction_
    <3>1. LastKey(p) < k
        BY <1>4 DEF Alone
    <3> QED
        BY <2>1, <3>1, <1>4, ExtendedPerson
  <2>5. IsPerson(q, n + k + 1)
    <3>1. /\ q.trajectory = Record(p.trajectory, k, b.side) /\ q.start = p.start
          /\ q = [trajectory |-> q.trajectory, direction_ |-> q.direction_,
                  counted_ |-> q.counted_, start |-> q.start]
        BY <2>1 DEF IsPerson
    <3>2. IsTrajectory(p.trajectory, n)
        BY <2>1 DEF IsPerson
    <3>3. DOMAIN Record(p.trajectory, k, b.side) = DOMAIN p.trajectory \cup {k}
        BY DEF Record
    <3>4. IsTrajectory(Record(p.trajectory, k, b.side), n + k + 1)
      <4>1. DOMAIN p.trajectory \cup {k} \subseteq 0..(n + k + 1) - 1
          BY <3>2 DEF IsTrajectory
      <4>2. \A x \in DOMAIN p.trajectory : p.trajectory[x] \in FrameSide
          BY <3>2 DEF IsTrajectory
      <4> QED
          BY <4>1, <4>2, <3>3, <1>4 DEF IsTrajectory, Record
    <3> HIDE DEF q
    <3> QED
        BY <3>1, <3>4, <2>1, <2>4 DEF IsPerson
  <2> HIDE DEF q, S
  <2>6. Alone(S.people, i, a, k, dir) /\ Last(S.people[i]) = b.side
      BY <2>3, <2>4, <1>4 DEF Alone
  <2>7. IsPerson(S.people[i], n + k + 1) /\ n + k + 1 \in Nat
      BY <2>3, <2>5
  <2>8. Alone(Directed(S.people), i, a, k, Turned(a, dir, Last(S.people[i])))
      BY <2>6, <2>7, DirectedAlone
  <2> QED
      BY <1>2, <1>4, <2>2, <2>6, <2>8
<1> HIDE DEF M, O, ok, b, f
<1>5. \A i, a, last, dir :
        /\ ok /\ NumBodies(f) = 1 /\ b.side \in FrameSide
        /\ Alone(T.people, i, a, last, dir) /\ last < k
        /\ is_match(T.people[i], b)
        => Alone(M.people, i, a, k, Turned(a, dir, b.side))
    BY <1>4
<1> QED
    BY <1>1, <1>3, <1>5 DEF M, ok, b, f
-----------------------------------------------------------------------------
(* update_people_status, when one person is tracked or nobody.             *)

\* How the count changes.
Change(P, E) ==
    LET LR == Crossing(P, Tally(P, E), "LtoR")
        RL == Crossing(P, Tally(P, E), "RtoL")
        net == Cardinality(RL) - Cardinality(LR)
    IN IF OPOSITE_DIRECTION THEN -net ELSE net

\* The direction of those who came from a side and crossed.
Across(side) == IF side = LEFTSIDE THEN "LtoR" ELSE "RtoL"

\* How one crossing, or none, changes the count.
LEMMA ChangeFact ==
    ASSUME NEW P, NEW E, NEW i
    PROVE  LET LR == Crossing(P, Tally(P, E), "LtoR")
               RL == Crossing(P, Tally(P, E), "RtoL")
           IN /\ LR = {} /\ RL = {} => Change(P, E) = 0
              /\ LR = {i} /\ RL = {} => Change(P, E) = Gain(LEFTSIDE)
              /\ LR = {} /\ RL = {i} => Change(P, E) = Gain(RIGHTSIDE)
<1> DEFINE LR == Crossing(P, Tally(P, E), "LtoR")
           RL == Crossing(P, Tally(P, E), "RtoL")
           l == Cardinality(LR)
           r == Cardinality(RL)
<1>1. Change(P, E) = IF OPOSITE_DIRECTION THEN -(r - l) ELSE r - l
    BY DEF Change
<1>2. Cardinality({i}) = 1 /\ Cardinality({}) = 0
    BY FS_Singleton, FS_EmptySet
<1>3. /\ LR = {} => l = 0
      /\ RL = {} => r = 0
      /\ LR = {i} => l = 1
      /\ RL = {i} => r = 1
    BY <1>2
<1>4. OPOSITE_DIRECTION \in BOOLEAN
    BY TrackerAssumption
<1>5. /\ Gain(LEFTSIDE) = IF OPOSITE_DIRECTION THEN 1 ELSE -1
      /\ Gain(RIGHTSIDE) = IF OPOSITE_DIRECTION THEN -1 ELSE 1
    BY <1>4 DEF Gain, Enters, LEFTSIDE, RIGHTSIDE
<1>6. \A x \in Int : -x = 0 - x
    OBVIOUS
<1> HIDE DEF LR, RL, l, r
<1>7. ASSUME LR = {}, RL = {} PROVE Change(P, E) = 0
  <2> DEFINE net == r - l
  <2>1. net = 0 /\ net \in Int
      BY <1>3, <1>7
  <2>2. Change(P, E) = IF OPOSITE_DIRECTION THEN -net ELSE net
      BY <1>1
  <2> HIDE DEF net
  <2>3. -net = 0 - net
      BY <2>1, <1>6
  <2> QED
      BY <2>1, <2>2, <2>3
<1>8. LR = {i} /\ RL = {} => Change(P, E) = Gain(LEFTSIDE)
    BY <1>1, <1>3, <1>4, <1>5, <1>6
<1>9. LR = {} /\ RL = {i} => Change(P, E) = Gain(RIGHTSIDE)
    BY <1>1, <1>3, <1>4, <1>5, <1>6
<1> QED
    BY <1>7, <1>8, <1>9 DEF LR, RL

\* When everybody is erased nobody is left.
LEMMA NobodyKept ==
    ASSUME NEW P, NEW E, DOMAIN P \ E = {}
    PROVE  Kept(P, E) = <<>>
<1> DEFINE g(i) == IF IsLong(P[i]) THEN [P[i] EXCEPT !.trajectory = Cut(P[i]), !.counted_ = Mark(P[i])]
                   ELSE P[i]
<1>1. Kept(P, E) = [i \in DOMAIN P \ E |-> g(i)]
    BY DEF Kept
<1> HIDE DEF g
<1> QED
    BY <1>1

\* When nobody is tracked nothing changes.
LEMMA NobodyStays ==
    ASSUME NEW P, P = <<>>, NEW E, E \subseteq DOMAIN P
    PROVE  Kept(P, E) = <<>> /\ Change(P, E) = 0
<1>1. DOMAIN P = {} /\ DOMAIN P \ E = {}
    OBVIOUS
<1>2. Kept(P, E) = <<>>
    BY <1>1, NobodyKept
<1>3. Tally(P, E) = {}
    BY <1>1 DEF Tally
<1>4. Crossing(P, Tally(P, E), "LtoR") = {} /\ Crossing(P, Tally(P, E), "RtoL") = {}
    BY <1>3 DEF Crossing
<1> QED
    BY <1>2, <1>4, ChangeFact

\* The person is dropped when late, counted then if the direction is known, and
\* is kept otherwise.
LEMMA StatusAlone ==
    ASSUME DelaysFit, NEW n \in Nat, n <= END_FRAME, NEW P, NEW i \in Nat, IsPerson(P[i], n + 1),
           NEW a \in Sides, NEW last \in Nat, last < n, NEW dir, dir \in {"UNKNOWNDIR", Across(a)},
           Alone(P, i, a, last, dir),
           NEW E, E \subseteq DOMAIN P, ErasedBy(P, n, E)
    PROVE  LET late == n - last - MatchDelay >= DETECTION_DELAY
           IN /\ ~late => Kept(P, E) = P /\ Change(P, E) = 0
              /\ late => /\ Kept(P, E) = <<>>
                         /\ Change(P, E) = IF dir = "UNKNOWNDIR" THEN 0 ELSE Gain(a)
<1> DEFINE p == P[i]
           late == n - last - MatchDelay >= DETECTION_DELAY
           D == DOMAIN p.trajectory
<1>1. /\ DOMAIN P = {i} /\ P = [j \in {i} |-> P[i]]
      /\ p.counted_ = "NOTYET" /\ p.direction_ = dir /\ LastKey(p) = last
    BY DEF Alone
<1>2. E = {} \/ E = {i}
    BY <1>1
<1>3. ~IsLong(p)
  <2>1. n + 1 \in Nat
      OBVIOUS
  <2>2. \A x \in D : x \in 0..last
      BY <1>1, <2>1, KeysFact
  <2> HIDE DEF D
  <2>3. D \subseteq 0..n-1 /\ n - 1 \in Int /\ 0 \in Int /\ n > 0
      BY <2>2
  <2>4. IsFiniteSet(0..n-1) /\ Cardinality(0..n-1) = n
    <3> DEFINE z == n - 1
    <3>1. z \in Int /\ z >= 0 /\ z - 0 + 1 = n
        BY <2>3
    <3> HIDE DEF z
    <3>2. IsFiniteSet(0..z) /\ Cardinality(0..z) = IF 0 > z THEN 0 ELSE z - 0 + 1
        BY <2>3, <3>1, FS_Interval, Zenon
    <3>3. IsFiniteSet(0..z) /\ Cardinality(0..z) = n
        BY <3>1, <3>2
    <3> QED
        BY <3>3 DEF z
  <2>5. IsFiniteSet(D) /\ Cardinality(D) <= n
      BY <2>3, <2>4, FS_Subset
  <2>6. Cardinality(D) \in Nat
      BY <2>5, FS_CardinalityType
  <2>7. TRAJECTORY_LENGTH \in Nat /\ END_FRAME \in Nat /\ TRAJECTORY_LENGTH > END_FRAME
      BY DelayFacts DEF DelaysFit
  <2> QED
      BY <2>5, <2>6, <2>7 DEF IsLong, D
<1>4. ~Crowded(P, E, i)
  <2>1. {j \in E : j > i} = {}
      BY <1>2
  <2>2. Cardinality(DOMAIN P) = 1 /\ Cardinality({}) = 0
      BY <1>1, FS_Singleton, FS_EmptySet
  <2> QED
      BY <2>1, <2>2 DEF Crowded
<1>5. IsLate(p, n) = late
    BY <1>1 DEF IsLate
<1>6. i \in E <=> late
    BY <1>1, <1>3, <1>4, <1>5 DEF ErasedBy
<1>7. Countable(p) <=> dir # "UNKNOWNDIR"
    BY <1>1 DEF Countable, Across
<1>8. Tally(P, E) = IF late /\ dir # "UNKNOWNDIR" THEN {i} ELSE {}
  <2>1. Tally(P, E) = {j \in {i} : Countable(P[j]) /\ (IsLong(P[j]) \/ j \in E)}
      BY <1>1 DEF Tally
  <2> HIDE DEF late
  <2> QED
      BY <2>1, <1>3, <1>6, <1>7
<1>9. \A d : Crossing(P, Tally(P, E), d) = IF late /\ dir # "UNKNOWNDIR" /\ dir = d THEN {i} ELSE {}
    BY <1>1, <1>8 DEF Crossing
<1> HIDE DEF late, p
<1>10. ASSUME ~late PROVE Kept(P, E) = P /\ Change(P, E) = 0
  <2>1. E = {}
      BY <1>2, <1>6, <1>10
  <2>2. Kept(P, E) = P
    <3>1. DOMAIN P \ E = {i}
        BY <1>1, <2>1
    <3>2. Kept(P, E) = [j \in {i} |-> IF IsLong(P[j])
                                      THEN [P[j] EXCEPT !.trajectory = Cut(P[j]), !.counted_ = Mark(P[j])]
                                      ELSE P[j]]
        BY <3>1 DEF Kept
    <3>3. Kept(P, E) = [j \in {i} |-> P[i]]
        BY <3>2, <1>3 DEF p
    <3> QED
        BY <3>3, <1>1
  <2>3. Crossing(P, Tally(P, E), "LtoR") = {} /\ Crossing(P, Tally(P, E), "RtoL") = {}
      BY <1>9, <1>10
  <2>4. Change(P, E) = 0
      BY <2>3, ChangeFact
  <2> QED
      BY <2>2, <2>4
<1>11. ASSUME late
       PROVE  Kept(P, E) = <<>> /\ Change(P, E) = IF dir = "UNKNOWNDIR" THEN 0 ELSE Gain(a)
  <2>1. E = {i}
      BY <1>2, <1>6, <1>11
  <2>2. Kept(P, E) = <<>>
    <3>1. DOMAIN P \ E = {}
        BY <1>1, <2>1
    <3> QED
        BY <3>1, NobodyKept
  <2>3. CASE dir = "UNKNOWNDIR"
    <3>1. Crossing(P, Tally(P, E), "LtoR") = {} /\ Crossing(P, Tally(P, E), "RtoL") = {}
        BY <1>9, <2>3
    <3>2. Change(P, E) = 0
        BY <3>1, ChangeFact
    <3> QED
        BY <2>2, <2>3, <3>2
  <2>4. CASE dir # "UNKNOWNDIR" /\ a = LEFTSIDE
    <3>1. dir = "LtoR"
        BY <2>4 DEF Across
    <3>2. Crossing(P, Tally(P, E), "LtoR") = {i} /\ Crossing(P, Tally(P, E), "RtoL") = {}
        BY <1>9, <1>11, <3>1
    <3>3. Change(P, E) = Gain(LEFTSIDE)
        BY <3>2, ChangeFact
    <3> QED
        BY <2>2, <2>4, <3>3
  <2>5. CASE dir # "UNKNOWNDIR" /\ a # LEFTSIDE
    <3>1. dir = "RtoL"
        BY <2>5 DEF Across
    <3>2. Crossing(P, Tally(P, E), "LtoR") = {} /\ Crossing(P, Tally(P, E), "RtoL") = {i}
        BY <1>9, <1>11, <3>1
    <3>3. Change(P, E) = Gain(RIGHTSIDE) /\ a = RIGHTSIDE
        BY <2>5, <3>2, ChangeFact DEF Sides
    <3> QED
        BY <2>2, <2>5, <3>3
  <2> QED
      BY <2>3, <2>4, <2>5
<1> QED
    BY <1>10, <1>11 DEF late
-----------------------------------------------------------------------------
(* What the tracker knows of the doorway.                                  *)

\* After frame k, which is d, was matched: v and s as in Seen.
Followed(d, k, v, s, P, inside) ==
    \/ P = <<>> /\ inside = d.truth /\ (d.phase # "empty" => s = 0)
    \/ \E i \in Nat, last \in Nat :
        \/ /\ d.phase # "empty" /\ s = 1 /\ last = IF v THEN k ELSE k - 1
           /\ Alone(P, i, d.from, last, IF d.phase = "far" THEN Across(d.from) ELSE "UNKNOWNDIR")
           /\ inside = d.truth
        \/ /\ d.phase = "empty" /\ d.age < DETECTION_DELAY /\ last = k - d.age
           /\ \/ Alone(P, i, d.from, last, "UNKNOWNDIR") /\ inside = d.truth
              \/ Alone(P, i, d.from, last, Across(d.from)) /\ inside + Gain(d.from) = d.truth

\* What the doorway shows when it shows one body.
LEMMA ShownFact ==
    ASSUME NEW e, Sound(e), e.shows = 1
    PROVE  /\ e.phase # "empty" /\ e.age > 0
           /\ e.side = IF e.phase = "middle" THEN UNKNOWNSIDE
                       ELSE IF e.phase = "near" THEN e.from ELSE Other(e.from)
<1>1. e.age \in 0..MaxAge /\ e.phase \in Phases /\ MaxAge \in Nat
    BY DelayFacts DEF Sound
<1>2. e.age > 0 /\ e.phase # "empty"
    BY <1>1 DEF Sound
<1>3. e.side = View(e.phase, e.from).side
    BY <1>2 DEF Sound
<1> QED
    BY <1>1, <1>2, <1>3 DEF View, Phases

\* What matching the bodies of frame k, which is e, makes of the people P: M.
MatchedWith(P, M, tp, e, k, w) ==
    /\ ~w \/ e.shows = 0 => M = P
    /\ w /\ e.shows = 1 /\ e.side \in Sides /\ P = <<>>
         => Alone(M, tp, e.side, k, "UNKNOWNDIR")
    /\ \A i, a, last, dir :
         /\ w /\ e.shows = 1 /\ e.side \in FrameSide
         /\ Alone(P, i, a, last, dir) /\ last < k
         /\ is_match(P[i], e)
         => Alone(M, i, a, k, Turned(a, dir, e.side))

\* The tracker keeps up with the doorway: from frame k - 1, which is d, to frame
\* k, which is e and comes before f.  M is the tracker after matching.
LEMMA FollowedNext ==
    ASSUME DelaysFit, NEW n \in Nat, n <= END_FRAME, NEW k \in Nat, k = n - MatchDelay,
           NEW d, NEW e, NEW f, Sound(d), Sound(e), Sound(f), Follows(d, e), Follows(e, f),
           NEW v, NEW s, Seen(d, v, s, e.shows),
           NEW P, NEW inside \in Int, Followed(d, k - 1, v, s, P, inside),
           NEW M, \A i \in DOMAIN M : IsPerson(M[i], n + 1),
           NEW w, w = Valid(s, e, f), NEW tp \in Nat,
           MatchedWith(P, M, tp, e, k, w),
           NEW E, E \subseteq DOMAIN M, ErasedBy(M, n, E)
    PROVE  Followed(e, k, w, IF w THEN e.shows ELSE s, Kept(M, E), inside + Change(M, E))
<1> DEFINE t == IF w THEN e.shows ELSE s
<1>0. /\ MinSighting \in Nat /\ MinSighting > 0 /\ Gap \in Nat /\ MaxAge \in Nat /\ Gap <= MaxAge
      /\ DETECTION_DELAY \in Nat /\ DETECTION_DELAY > 1 /\ Gap >= DETECTION_DELAY
      /\ MatchDelay \in Nat /\ MatchDelay > 0
      /\ k \in Nat /\ k < n /\ n - k - MatchDelay = 0
    BY DelayFacts DEF DelaysFit
<1>1. /\ Seen(e, w, t, f.shows)
      /\ ~w => v /\ s = d.shows
      /\ s = 0 /\ e.shows = 1 => e.phase = "near" /\ e.age > 0
      /\ s = 1 /\ e.phase # "empty" => t = 1
    BY SeenNext
<1>2. /\ d.age \in 0..MaxAge /\ e.age \in 0..MaxAge /\ d.phase \in Phases /\ e.phase \in Phases
      /\ d.from \in Sides /\ e.from \in Sides /\ d.truth \in Int /\ e.truth \in Int
      /\ d.shows \in 0..2 /\ e.shows \in 0..2
      /\ e.age > 0 => e.shows = IF e.phase = "empty" THEN 0 ELSE 1
      /\ e.age = 0 => e.phase # "empty" /\ e.shows # 1
      /\ d.age = 0 => d.phase # "empty"
    BY DEF Sound
<1>3. t \in {0, 1} /\ (w => e.shows \in {0, 1}) /\ s \in {0, 1} /\ v \in BOOLEAN /\ w \in BOOLEAN
    BY <1>1 DEF Seen
<1>4. Older(d.age) = (IF d.age < MaxAge THEN d.age + 1 ELSE d.age) /\ Older(d.age) > 0
    BY <1>0, <1>2 DEF Older
\* A person matched with frame k is not late.
<1>5. ASSUME NEW i \in Nat, NEW a \in Sides, NEW last \in Nat, NEW dir \in {"UNKNOWNDIR", Across(a)},
             Alone(M, i, a, last, dir), last <= k
      PROVE  /\ k - last < DETECTION_DELAY => Kept(M, E) = M /\ Change(M, E) = 0
             /\ k - last >= DETECTION_DELAY
                  => Kept(M, E) = <<>> /\ Change(M, E) = IF dir = "UNKNOWNDIR" THEN 0 ELSE Gain(a)
  <2>1. last < n /\ n - last - MatchDelay = k - last
      BY <1>0, <1>5
  <2>2. IsPerson(M[i], n + 1)
      BY <1>5 DEF Alone
  <2>3. LET late == n - last - MatchDelay >= DETECTION_DELAY
        IN /\ ~late => Kept(M, E) = M /\ Change(M, E) = 0
           /\ late => /\ Kept(M, E) = <<>>
                      /\ Change(M, E) = IF dir = "UNKNOWNDIR" THEN 0 ELSE Gain(a)
      BY <1>5, <2>1, <2>2, StatusAlone
  <2> QED
      BY <1>0, <2>1, <2>3
<1>6. Across(d.from) # "UNKNOWNDIR" /\ Gain(d.from) \in Int
    BY DEF Across, Gain
<1>a. ASSUME P = <<>>, ~w \/ e.shows = 0
      PROVE  Kept(M, E) = <<>> /\ Change(M, E) = 0
    BY <1>a, NobodyStays DEF MatchedWith
<1> HIDE DEF t
<1>7. SUFFICES Followed(e, k, w, t, Kept(M, E), inside + Change(M, E))
    BY DEF t
<1>8. CASE P = <<>> /\ inside = d.truth /\ (d.phase # "empty" => s = 0)
  <2>1. s = 0
      BY <1>8, <1>2 DEF Seen, Sound
  <2>2. e.truth = d.truth
    <3>1. d.phase # "far"
        BY <2>1 DEF Seen
    <3> QED
        BY <3>1 DEF Follows, Stays, Arrives, Moves, Glitches
  <2>3. CASE ~w \/ e.shows = 0
    <3>1. e.phase # "empty" => t = 0
        BY <2>1, <2>3 DEF t
    <3> QED
        BY <3>1, <1>a, <1>8, <2>2, <2>3, <1>2 DEF Followed
  <2>4. CASE ~(~w \/ e.shows = 0)
    <3>1. w /\ e.shows = 1 /\ t = 1
        BY <2>4, <1>3 DEF t
    <3>2. e.phase = "near"
        BY <2>1, <3>1, <1>1
    <3>3. e.side = e.from
        BY <3>1, <3>2, ShownFact
    <3>4. Alone(M, tp, e.from, k, "UNKNOWNDIR")
        BY <3>1, <3>3, <1>2, <1>8 DEF MatchedWith
    <3>5. Kept(M, E) = M /\ Change(M, E) = 0
        BY <3>4, <1>0, <1>2, <1>5
    <3>6. inside + Change(M, E) = e.truth
        BY <3>5, <2>2, <1>2, <1>8
    <3> QED
        BY <3>1, <3>2, <3>4, <3>5, <3>6, <1>0 DEF Followed
  <2> QED
      BY <2>3, <2>4
<1>9. ASSUME NEW i \in Nat, NEW last \in Nat,
             d.phase # "empty" /\ s = 1 /\ last = IF v THEN k - 1 ELSE k - 1 - 1,
             Alone(P, i, d.from, last, IF d.phase = "far" THEN Across(d.from) ELSE "UNKNOWNDIR"),
             inside = d.truth
      PROVE  Followed(e, k, w, t, Kept(M, E), inside + Change(M, E))
  <2> DEFINE dir == IF d.phase = "far" THEN Across(d.from) ELSE "UNKNOWNDIR"
             dir2 == IF e.phase = "far" THEN Across(e.from) ELSE "UNKNOWNDIR"
  <2>0. e.from = d.from /\ dir \in {"UNKNOWNDIR", Across(d.from)}
      BY <1>9 DEF Follows, Stays, Arrives, Moves, Glitches
  <2>1. CASE e.phase # "empty"
    <3>1. t = 1
        BY <2>1, <1>1, <1>9
    <3>2. e.truth = d.truth
        BY <2>1, <1>9 DEF Follows, Stays, Arrives, Moves, Glitches
    <3>3. CASE w
      <4>1. e.shows = 1
          BY <3>1, <3>3 DEF t
      <4>2. e.side = IF e.phase = "middle" THEN UNKNOWNSIDE
                     ELSE IF e.phase = "near" THEN d.from ELSE Other(d.from)
          BY <4>1, <2>0, ShownFact
      <4>3. e.side \in FrameSide
          BY <4>2, <1>2 DEF Sides, FrameSide, Other
      <4>4. d.phase = "far" => e.phase = "far"
          BY <2>1, <1>9 DEF Follows, Stays, Arrives, Moves, Glitches
      <4>5. is_match(P[i], e)
        <5>1. P[i].direction_ = dir
            BY <1>9 DEF Alone
        <5>2. CASE d.phase # "far"
            BY <5>1, <5>2 DEF is_match
        <5>3. CASE d.phase = "far"
          <6>1. e.side = Other(d.from) /\ P[i].direction_ = Across(d.from)
              BY <4>2, <4>4, <5>1, <5>3
          <6> QED
              BY <6>1, <1>2 DEF is_match, Across, Other, Sides, LEFTSIDE, RIGHTSIDE
        <5> QED
            BY <5>2, <5>3
      <4>6. last < k
          BY <1>0, <1>9
      <4>7. Alone(M, i, d.from, k, Turned(d.from, dir, e.side))
          BY <3>3, <4>1, <4>3, <4>5, <4>6, <1>9 DEF MatchedWith
      <4>8. Turned(d.from, dir, e.side) = dir2
        <5>1. CASE d.phase = "far"
            BY <5>1, <4>4, <1>6, <2>0 DEF Turned
        <5>2. CASE d.phase # "far" /\ e.phase = "far"
          <6>1. e.side = Other(d.from) /\ dir = "UNKNOWNDIR" /\ dir2 = Across(d.from)
              BY <4>2, <5>2, <2>0
          <6> HIDE DEF dir, dir2
          <6>2. CASE d.from = LEFTSIDE
            <7>1. e.side = RIGHTSIDE
                BY <6>1, <6>2 DEF Other
            <7> QED
                BY <6>1, <6>2, <7>1 DEF Turned, Opposite, Across
          <6>3. CASE d.from # LEFTSIDE
            <7>1. e.side = LEFTSIDE /\ d.from = RIGHTSIDE
                BY <6>1, <6>3, <1>2 DEF Other, Sides
            <7> QED
                BY <6>1, <6>3, <7>1 DEF Turned, Opposite, Across
          <6> QED
              BY <6>2, <6>3
        <5>3. CASE d.phase # "far" /\ e.phase # "far"
          <6>1. e.side \in {UNKNOWNSIDE, d.from}
              BY <5>3, <4>2, <2>1, <1>2 DEF Phases
          <6>2. d.from \in Sides
              BY <1>2
          <6>3. \A x \in Sides : ~Opposite(x, UNKNOWNSIDE) /\ ~Opposite(x, x)
            <7>1. \A x : Opposite(x, UNKNOWNSIDE) => UNKNOWNSIDE \in {LEFTSIDE, RIGHTSIDE}
                BY DEF Opposite
            <7>2. UNKNOWNSIDE \notin {LEFTSIDE, RIGHTSIDE}
                BY DEF LEFTSIDE, RIGHTSIDE, UNKNOWNSIDE
            <7> QED
                BY <7>1, <7>2, OppositeFact DEF Sides
          <6>4. ~Opposite(d.from, e.side)
              BY <6>1, <6>2, <6>3
          <6> QED
              BY <6>4, <5>3 DEF Turned
        <5> QED
            BY <5>1, <5>2, <5>3
      <4>9. Alone(M, i, e.from, k, dir2)
          BY <4>7, <4>8, <2>0
      <4>10. dir2 \in {"UNKNOWNDIR", Across(e.from)}
          OBVIOUS
      <4>11. Kept(M, E) = M /\ Change(M, E) = 0
        <5>1. k <= k /\ k - k < DETECTION_DELAY
            BY <1>0
        <5> HIDE DEF dir2
        <5> QED
            BY <5>1, <4>9, <4>10, <1>2, <1>5
      <4>12. inside + Change(M, E) = e.truth
          BY <4>11, <3>2, <1>2, <1>9
      <4> QED
          BY <4>9, <4>11, <4>12, <3>1, <3>3, <2>1, <1>0 DEF Followed
    <3>4. CASE ~w
      <4>1. M = P /\ v /\ last = k - 1
          BY <3>4, <1>1, <1>9 DEF MatchedWith
      <4>2. e.shows # 1
          BY <3>4, <1>9, <1>2 DEF Valid
      <4>3. e.age = 0
          BY <4>2, <2>1, <1>0, <1>2
      <4>4. e.phase = d.phase
          BY <4>3, <1>4 DEF Follows, Stays, Arrives, Moves, Glitches
      <4>5. Alone(M, i, e.from, last, dir2)
          BY <4>1, <4>4, <2>0, <1>9
      <4>6. dir2 \in {"UNKNOWNDIR", Across(e.from)}
          OBVIOUS
      <4>7. Kept(M, E) = M /\ Change(M, E) = 0
        <5>1. last <= k /\ k - last < DETECTION_DELAY
            BY <4>1, <1>0
        <5> QED
            BY <5>1, <4>5, <4>6, <1>2, <1>5
      <4>8. inside + Change(M, E) = e.truth
          BY <4>7, <3>2, <1>2, <1>9
      <4> QED
          BY <4>1, <4>5, <4>7, <4>8, <3>1, <3>4, <2>1, <1>0 DEF Followed
    <3> QED
        BY <3>3, <3>4, <1>3
  <2>2. CASE e.phase = "empty"
    <3>1. /\ d.phase \in {"near", "far"} /\ d.age >= MinSighting /\ e.age = 1
          /\ e.truth = IF d.phase = "far" THEN d.truth + Gain(d.from) ELSE d.truth
        BY <2>2, <1>9 DEF Follows, Stays, Arrives, Moves, Glitches
    <3>2. v /\ last = k - 1
        BY <3>1, <1>0, <1>2, <1>9 DEF Seen
    <3>3. M = P
        BY <2>2, <1>2, <3>1 DEF MatchedWith
    <3>4. Alone(M, i, e.from, last, dir)
        BY <3>3, <2>0, <1>9
    <3>5. Kept(M, E) = M /\ Change(M, E) = 0
      <4>1. last <= k /\ k - last < DETECTION_DELAY
          BY <3>2, <1>0
      <4> QED
          BY <4>1, <3>4, <2>0, <1>2, <1>5
    <3>6. inside + Change(M, E) = d.truth
        BY <3>5, <1>2, <1>9
    <3>7. e.age < DETECTION_DELAY /\ last = k - e.age
        BY <3>1, <3>2, <1>0
    <3>8. CASE d.phase = "far"
        BY <3>1, <3>4, <3>5, <3>6, <3>7, <3>8, <2>0, <2>2 DEF Followed
    <3>9. CASE d.phase # "far"
        BY <3>1, <3>4, <3>5, <3>6, <3>7, <3>9, <2>0, <2>2 DEF Followed
    <3> QED
        BY <3>8, <3>9
  <2> QED
      BY <2>1, <2>2
<1>10. ASSUME NEW i \in Nat, NEW last \in Nat, NEW dir \in {"UNKNOWNDIR", Across(d.from)},
              d.phase = "empty" /\ d.age < DETECTION_DELAY /\ last = k - 1 - d.age,
              Alone(P, i, d.from, last, dir),
              inside + (IF dir = "UNKNOWNDIR" THEN 0 ELSE Gain(d.from)) = d.truth
       PROVE  Followed(e, k, w, t, Kept(M, E), inside + Change(M, E))
  <2>0. d.age \in Nat /\ d.age < Gap /\ d.age < MaxAge
      BY <1>0, <1>2, <1>10
  <2>1. e.phase = "empty" /\ e.age = Older(d.age) /\ e.from = d.from /\ e.truth = d.truth
    <3>1. ~Arrives(d, e) /\ ~Glitches(d, e)
        BY <2>0, <1>0, <1>10 DEF Arrives, Glitches
    <3>2. ~Moves(d, e)
        BY <1>10 DEF Moves
    <3> QED
        BY <3>1, <3>2, <1>10 DEF Follows, Stays
  <2>2. e.age = d.age + 1 /\ last = k - e.age /\ last <= k
    <3>1. e.age = d.age + 1
        BY <2>0, <2>1, <1>4
    <3>2. last = k - 1 - d.age
        BY <1>10
    <3> QED
        BY <2>0, <3>1, <3>2
  <2>3. M = P
      BY <2>1, <2>2, <1>2 DEF MatchedWith
  <2>4. Alone(M, i, d.from, last, dir)
      BY <2>3, <1>10
  <2>5. CASE e.age < DETECTION_DELAY
    <3>1. k - last < DETECTION_DELAY
        BY <2>2, <2>5, <1>0, <1>2
    <3>2. Kept(M, E) = M /\ Change(M, E) = 0
        BY <3>1, <2>2, <2>4, <1>2, <1>5, <1>10
    <3>3. inside + Change(M, E) = inside
        BY <3>2, <1>10
    <3>4. CASE dir = "UNKNOWNDIR"
        BY <3>2, <3>3, <3>4, <2>1, <2>2, <2>4, <2>5, <1>10 DEF Followed
    <3>5. CASE dir # "UNKNOWNDIR"
        BY <3>2, <3>3, <3>5, <2>1, <2>2, <2>4, <2>5, <1>10 DEF Followed
    <3> QED
        BY <3>4, <3>5
  <2>6. CASE ~(e.age < DETECTION_DELAY)
    <3>1. k - last >= DETECTION_DELAY
      <4>1. e.age \in Nat /\ e.age >= DETECTION_DELAY
          BY <2>6, <1>0, <1>2
      <4>2. k - last = e.age
          BY <2>2, <4>1
      <4> QED
          BY <4>1, <4>2
    <3>2. Kept(M, E) = <<>> /\ Change(M, E) = IF dir = "UNKNOWNDIR" THEN 0 ELSE Gain(d.from)
        BY <3>1, <2>2, <2>4, <1>2, <1>5, <1>10
    <3>3. inside + Change(M, E) = e.truth
        BY <3>2, <2>1, <1>10
    <3> QED
        BY <3>2, <3>3, <2>1 DEF Followed
  <2> QED
      BY <2>5, <2>6
<1> QED
    BY <1>8, <1>9, <1>10, <1>6 DEF Followed
-----------------------------------------------------------------------------
(* The doorway, frame by frame.                                            *)

\* A phase shows one body, or none.
LEMMA ViewFact ==
    ASSUME NEW ph \in Phases, NEW side \in Sides
    PROVE  Len(View(ph, side).cxs) = IF ph = "empty" THEN 0 ELSE 1
<1>1. Len(<<>>) = 0 /\ Len(<<Cols \div 2>>) = 1
    OBVIOUS
<1>2. CASE ph = "empty"
    BY <1>1, <1>2 DEF View
<1>3. CASE ph = "near"
    BY <1>1, <1>3 DEF View
<1>4. CASE ph = "middle"
    BY <1>1, <1>4 DEF View
<1>5. CASE ph = "far"
    BY <1>1, <1>5 DEF View
<1> QED
    BY <1>2, <1>3, <1>4, <1>5 DEF Phases

\* A glitch shows no body or two.
LEMMA GlitchedFact ==
    ASSUME NEW scene \in Glitched
    PROVE  Len(scene.cxs) \in {0, 2}
<1>1. \A x, y : Len(<<x, y>>) = 2
    OBVIOUS
<1>2. Len(<<>>) = 0
    OBVIOUS
<1> QED
    BY <1>1, <1>2 DEF Glitched

\* What is going on in the doorway, and what its frame shows.
Now(scene) == [phase |-> phase, age |-> age, from |-> from, truth |-> truth,
               shows |-> Len(scene.cxs), side |-> scene.side]

DoorStep(scene) ==
    \/ Stay(scene)
    \/ \E side \in {LEFTSIDE, RIGHTSIDE} : Arrive(scene, side)
    \/ Move(scene)
    \/ Glitch(scene)

\* d is the frame before.
LEMMA DoorFact ==
    ASSUME DelaysFit, NEW scene, DoorStep(scene),
           NEW d, Sound(d), phase = d.phase, age = d.age, from = d.from, truth = d.truth
    PROVE  LET e == [phase |-> phase', age |-> age', from |-> from', truth |-> truth',
                     shows |-> Len(scene.cxs), side |-> scene.side]
           IN /\ Sound(e) /\ Follows(d, e)
              /\ d.phase = "empty" /\ ~SeesPeople(frameN) => e.phase = "empty" /\ e.truth = d.truth
<1> DEFINE e == [phase |-> phase', age |-> age', from |-> from', truth |-> truth',
                 shows |-> Len(scene.cxs), side |-> scene.side]
<1>0. /\ MaxAge \in Nat /\ Gap \in Nat /\ Gap > 0 /\ MaxAge > 0
      /\ d.age \in 0..MaxAge /\ d.phase \in Phases /\ d.from \in Sides /\ d.truth \in Int
    BY DelayFacts DEF DelaysFit, Sound
<1>1. /\ e.phase = phase' /\ e.age = age' /\ e.from = from' /\ e.truth = truth'
      /\ e.shows = Len(scene.cxs) /\ e.side = scene.side
    OBVIOUS
<1> HIDE DEF e
<1>2. SUFFICES /\ Sound(e) /\ Follows(d, e)
               /\ d.phase = "empty" /\ ~SeesPeople(frameN)
                    => e.phase = "empty" /\ e.truth = d.truth
    BY DEF e
<1>3. ASSUME scene = View(e.phase, e.from), e.age \in 1..MaxAge, e.phase \in Phases,
             e.from \in Sides, e.truth \in Int
      PROVE  Sound(e)
  <2>1. e.shows = IF e.phase = "empty" THEN 0 ELSE 1
      BY <1>1, <1>3, ViewFact
  <2>2. e.shows \in 0..2 /\ e.age \in 0..MaxAge /\ ~(e.age = 0)
      BY <2>1, <1>3
  <2>3. e.side = View(e.phase, e.from).side
      BY <1>1, <1>3
  <2> QED
      BY <2>1, <2>2, <2>3, <1>3 DEF Sound
<1>4. CASE Stay(scene)
  <2>1. e.phase = d.phase /\ e.from = d.from /\ e.truth = d.truth /\ e.age = Older(d.age)
      BY <1>1, <1>4 DEF Stay, Older
  <2>2. Older(d.age) \in 1..MaxAge
      BY <1>0 DEF Older
  <2>3. Sound(e)
      BY <2>1, <2>2, <1>0, <1>3, <1>4 DEF Stay
  <2> QED
      BY <2>1, <2>3 DEF Follows, Stays
<1>5. CASE \E side \in {LEFTSIDE, RIGHTSIDE} : Arrive(scene, side)
  <2>1. PICK side \in {LEFTSIDE, RIGHTSIDE} : Arrive(scene, side)
      BY <1>5
  <2>2. e.phase = "near" /\ e.age = 1 /\ e.from = side /\ e.truth = d.truth
      BY <2>1, <1>1 DEF Arrive
  <2>3. Sound(e)
      BY <2>1, <2>2, <1>0, <1>3 DEF Arrive, Phases, Sides
  <2>4. Arrives(d, e) /\ SeesPeople(frameN)
      BY <2>1, <2>2 DEF Arrive, Arrives
  <2> QED
      BY <2>3, <2>4 DEF Follows
<1>6. CASE Move(scene)
  <2> DEFINE pairs == {<<"near", "middle">>, <<"near", "far">>, <<"middle", "far">>,
                       <<"middle", "near">>, <<"near", "empty">>, <<"far", "empty">>}
  <2>1. PICK ph \in {"middle", "far", "near", "empty"} :
            /\ <<phase, ph>> \in pairs
            /\ phase = "middle" \/ age >= MinSighting
            /\ scene = View(ph, from)
            /\ phase' = ph /\ age' = 1
            /\ truth' = IF phase = "far" THEN truth + (IF Enters(from) THEN 1 ELSE -1) ELSE truth
            /\ from' = from
      BY <1>6 DEF Move
  <2>2. /\ e.phase = ph /\ e.age = 1 /\ e.from = d.from
        /\ e.truth = IF d.phase = "far" THEN d.truth + Gain(d.from) ELSE d.truth
      BY <2>1, <1>1 DEF Gain
  <2>3. Gain(d.from) \in Int
      BY DEF Gain
  <2>4. e.truth \in Int
      BY <2>2, <2>3, <1>0
  <2>5. Sound(e)
      BY <2>1, <2>2, <2>4, <1>0, <1>3 DEF Phases
  <2>6. <<d.phase, e.phase>> \in pairs /\ (d.phase = "middle" \/ d.age >= MinSighting)
      BY <2>1, <2>2
  <2>7. Moves(d, e)
      BY <2>2, <2>6 DEF Moves
  <2>8. d.phase # "empty"
      BY <2>6
  <2> QED
      BY <2>5, <2>7, <2>8 DEF Follows
<1>7. CASE Glitch(scene)
  <2>1. /\ d.phase # "empty" /\ d.age > 0 /\ e.age = 0
        /\ e.phase = d.phase /\ e.from = d.from /\ e.truth = d.truth /\ scene \in Glitched
      BY <1>1, <1>7 DEF Glitch
  <2>2. e.shows \in 0..2 /\ e.shows # 1
    <3>1. Len(scene.cxs) \in {0, 2}
        BY <2>1, GlitchedFact
    <3> DEFINE x == Len(scene.cxs)
    <3>2. e.shows = x /\ x \in {0, 2}
        BY <3>1, <1>1
    <3> HIDE DEF x
    <3> QED
        BY <3>2
  <2>3. Sound(e)
      BY <2>1, <2>2, <1>0 DEF Sound
  <2> QED
      BY <2>1, <2>3 DEF Follows, Glitches
<1> QED
    BY <1>4, <1>5, <1>6, <1>7 DEF DoorStep

\* The past, one frame on.
LEMMA PastNext ==
    ASSUME DelaysFit, NEW n \in Nat, n >= START_FRAME, NEW h, IsPast(h, n), LongEmpty(h, n),
           NEW e, Sound(e), Follows(h[n-1], e),
           h[n-1].phase = "empty" /\ ~SeesPeople(n) => e.phase = "empty" /\ e.truth = h[n-1].truth
    PROVE  LET g == [j \in Int |-> IF j = n THEN e ELSE h[j]]
           IN IsPast(g, n + 1) /\ LongEmpty(g, n + 1)
<1> DEFINE g == [j \in Int |-> IF j = n THEN e ELSE h[j]]
<1>1. g[n] = e /\ \A j \in Int : j # n => g[j] = h[j]
    OBVIOUS
<1>2. START_FRAME \in Nat /\ BACKGROUND_FRAMES \in Nat /\ n - 1 \in Int
      /\ \A j \in Int : j - 1 \in Int /\ (j < n + 1 <=> j < n \/ j = n)
    BY DelayFacts
<1> HIDE DEF g
<1>3. IsPast(g, n + 1)
  <2>1. \A j \in Int : j < START_FRAME => g[j] = Before
      BY <1>1, <1>2 DEF IsPast
  <2>2. \A j \in Int : j < n + 1 => Sound(g[j])
      BY <1>1, <1>2 DEF IsPast
  <2>3. \A j \in Int : j < n + 1 => Follows(g[j-1], g[j])
    <3> TAKE j \in Int
    <3> HAVE j < n + 1
    <3>1. CASE j = n
        BY <3>1, <1>1, <1>2
    <3>2. CASE j < n
      <4>1. j - 1 \in Int /\ j - 1 # n /\ j # n
          BY <3>2
      <4>2. g[j-1] = h[j-1] /\ g[j] = h[j]
          BY <4>1, <1>1
      <4> QED
          BY <4>2, <3>2 DEF IsPast
    <3> QED
        BY <3>1, <3>2
  <2>4. \A j \in Int : j < n + 1 /\ ~SeesPeople(j) =>
            g[j].phase = "empty" /\ g[j].truth = PeopleAtStart
    <3> TAKE j \in Int
    <3> HAVE j < n + 1 /\ ~SeesPeople(j)
    <3>1. CASE j = n
      <4>1. ~SeesPeople(n - 1) /\ n - 1 < n
          BY <3>1, <1>2 DEF SeesPeople
      <4>2. h[n-1].phase = "empty" /\ h[n-1].truth = PeopleAtStart
          BY <4>1, <1>2 DEF IsPast
      <4> QED
          BY <4>2, <3>1, <1>1
    <3>2. CASE j < n
        BY <3>2, <1>1 DEF IsPast
    <3> QED
        BY <3>1, <3>2
  <2> QED
      BY <2>1, <2>2, <2>3, <2>4 DEF IsPast
<1>4. LongEmpty(g, n + 1)
  <2> SUFFICES ASSUME NEW j \in Int, NEW i \in Int, j < n + 1, i <= j,
                      g[j].phase = "empty", g[j].age > j - i
               PROVE  /\ g[i].phase = "empty" /\ g[i].truth = g[j].truth
                      /\ g[i].age >= g[j].age - (j - i)
      BY DEF LongEmpty
  <2>1. CASE j < n
    <3>1. g[j] = h[j] /\ g[i] = h[i]
        BY <2>1, <1>1
    <3> QED
        BY <3>1, <2>1 DEF LongEmpty
  <2>2. CASE j = n /\ i = n
    <3>1. e.age \in Nat
        BY DelayFacts DEF Sound
    <3> QED
        BY <3>1, <2>2, <1>1
  <2>3. CASE j = n /\ i < n
    <3> DEFINE d == h[n-1]
    <3>1. g[j] = e /\ g[i] = h[i]
        BY <2>3, <1>1
    <3>2. Sound(d) /\ n - 1 < n
        BY <1>2 DEF IsPast
    <3>3. d.age \in Nat /\ e.age \in Nat /\ MaxAge \in Nat
        BY <3>2, DelayFacts DEF Sound
    <3> HIDE DEF d
    <3>4. e.phase = "empty" /\ e.age > n - i /\ e.age > 1
        BY <3>1, <3>3, <2>3
    <3>5. Stays(d, e)
      <4>1. ~Arrives(d, e) /\ ~Moves(d, e) /\ ~Glitches(d, e)
          BY <3>3, <3>4 DEF Arrives, Moves, Glitches
      <4> QED
          BY <4>1 DEF Follows, d
    <3>6. d.phase = "empty" /\ e.truth = d.truth /\ e.age <= d.age + 1
        BY <3>3, <3>4, <3>5 DEF Stays, Older
    <3>7. d.age > (n - 1) - i /\ i <= n - 1
        BY <3>3, <3>4, <3>6, <2>3
    <3>8. h[i].phase = "empty" /\ h[i].truth = d.truth /\ h[i].age >= d.age - ((n - 1) - i)
        BY <3>2, <3>6, <3>7, <1>2 DEF LongEmpty, d
    <3>9. h[i].age \in Nat
      <4>1. Sound(h[i])
          BY <2>3 DEF IsPast
      <4> QED
          BY <4>1, DelayFacts DEF Sound
    <3>10. h[i].age >= e.age - (n - i)
        BY <3>3, <3>6, <3>8, <3>9, <2>3
    <3> QED
        BY <3>1, <3>4, <3>6, <3>8, <3>10, <2>3
  <2> QED
      BY <2>1, <2>2, <2>3
<1> QED
    BY <1>3, <1>4 DEF g
-----------------------------------------------------------------------------
(* The ring, frame by frame.                                               *)

\* What process_frame stores.
LEMMA StoredFact ==
    ASSUME NEW n \in Nat, NEW scene, IsScene(scene), Len(scene.cxs) \in 0..2,
           NEW f, f = FrameOf(n, scene)
    PROVE  /\ f.frameN = n /\ f.valid = TRUE
           /\ NumBodies(f) = IF SeesPeople(n) THEN Len(scene.cxs) ELSE 0
           /\ SeesPeople(n) /\ Len(scene.cxs) = 1 => f.found_bodies[1].side = scene.side
<1> DEFINE bs == BodiesOf(scene)
           L == Len(scene.cxs)
<1>1. /\ f.frameN = n /\ f.valid = TRUE
      /\ f.found_bodies = IF SeesPeople(n) THEN bs ELSE <<>>
    BY DEF FrameOf
<1>2. L \in 0..2
    OBVIOUS
<1> HIDE DEF L
<1>3. Len(bs) = L
  <2> DEFINE b(k) == [cx |-> scene.cxs[k],
                      side |-> IF L = 1 THEN scene.side
                               ELSE IF scene.cxs[k] <= Cols \div 2 THEN LEFTSIDE ELSE RIGHTSIDE]
  <2>1. bs = [k \in 1..L |-> b(k)]
      BY DEF BodiesOf, L
  <2> HIDE DEF b, bs
  <2> QED
      BY <2>1, <1>2
<1>4. L = 1 => bs[1].side = scene.side
    BY DEF BodiesOf, L
<1> HIDE DEF bs
<1>5. NumBodies(f) = IF SeesPeople(n) THEN L ELSE 0
    BY <1>1, <1>3 DEF NumBodies
<1> QED
    BY <1>1, <1>4, <1>5 DEF L

\* A frame is stored in the place of one the ring no longer needs.
LEMMA RingNext ==
    ASSUME DelaysFit, NEW n \in Nat, n >= START_FRAME,
           NEW e, NEW f, f.frameN = n, f.valid = TRUE, NumBodies(f) = e.shows,
           e.shows = 1 => f.found_bodies[1].side = e.side,
           ~SeesPeople(n) => NumBodies(f) = 0,
           NEW h, NEW g, g[n] = e, \A j \in Int : j # n => g[j] = h[j],
           NEW old, old = [i \in 0..HISTORY_LENGTH-1 |-> old[i]],
           RingShows(h, old, n, n - MatchDelay)
    PROVE  RingShows(g, [old EXCEPT ![Slot(n)] = f], n + 1, n - MatchDelay)
<1> DEFINE ring == [old EXCEPT ![Slot(n)] = f]
<1>0. /\ HISTORY_LENGTH \in Nat /\ MatchDelay \in Nat /\ START_FRAME \in Nat
      /\ BACKGROUND_FRAMES \in Nat
    BY DelayFacts
<1> HIDE DEF ring
<1>2. Slot(n) \in 0..HISTORY_LENGTH-1
    BY SlotOfSlot
<1>3. ring[Slot(n)] = f /\ \A i \in 0..HISTORY_LENGTH-1 : i # Slot(n) => ring[i] = old[i]
    BY <1>2 DEF ring
<1>4. ASSUME NEW j \in Int, START_FRAME <= j, (n + 1) - HISTORY_LENGTH <= j, j < n + 1
      PROVE  /\ ring[Slot(j)].frameN = j
             /\ NumBodies(ring[Slot(j)]) = g[j].shows
             /\ g[j].shows = 1 => ring[Slot(j)].found_bodies[1].side = g[j].side
             /\ j >= n - MatchDelay => ring[Slot(j)].valid
  <2>1. CASE j = n
      BY <2>1, <1>3
  <2>2. CASE j < n
    <3>1. n - j < HISTORY_LENGTH /\ n - HISTORY_LENGTH <= j
        BY <2>2, <1>0, <1>4
    <3>2. Slot(j) # Slot(n)
        BY <3>1, <2>2, SlotsDiffer
    <3>3. Slot(j) \in 0..HISTORY_LENGTH-1
        BY SlotOfSlot
    <3>4. ring[Slot(j)] = old[Slot(j)] /\ g[j] = h[j]
        BY <3>2, <3>3, <2>2, <1>3
    <3>5. /\ old[Slot(j)].frameN = j
          /\ NumBodies(old[Slot(j)]) = h[j].shows
          /\ h[j].shows = 1 => old[Slot(j)].found_bodies[1].side = h[j].side
          /\ j >= n - MatchDelay => old[Slot(j)].valid
        BY <3>1, <2>2, <1>4 DEF RingShows
    <3> QED
        BY <3>4, <3>5
  <2> QED
      BY <2>1, <2>2, <1>4
<1>5. ASSUME n + 1 <= START_FRAME + BACKGROUND_FRAMES
      PROVE  \A i \in 0..HISTORY_LENGTH-1 : NumBodies(ring[i]) = 0
  <2>1. ~SeesPeople(n) /\ n <= START_FRAME + BACKGROUND_FRAMES
      BY <1>0, <1>5 DEF SeesPeople
  <2>2. \A i \in 0..HISTORY_LENGTH-1 : NumBodies(old[i]) = 0
      BY <2>1 DEF RingShows
  <2> QED
      BY <2>1, <2>2, <1>3
<1>6. RingShows(g, ring, n + 1, n - MatchDelay)
    BY <1>4, <1>5 DEF RingShows
<1> QED
    BY <1>6 DEF ring

\* The effect of correct_frame.
LEMMA CorrectedFact ==
    ASSUME NEW n \in Nat, NEW ring, RingOK(ring, n), NEW idx \in 0..HISTORY_LENGTH-1
    PROVE  LET new == Corrected(ring, idx)
           IN /\ new[idx].valid = IsCorrect(ring, idx)
              /\ new[idx].frameN = ring[idx].frameN
              /\ new[idx].found_bodies = ring[idx].found_bodies
              /\ \A i \in 0..HISTORY_LENGTH-1 : i # idx => new[i] = ring[i]
              /\ IsCorrect(ring, idx) = ring[idx].valid => new = ring
<1> DEFINE c == IsCorrect(ring, idx)
           f == [ring[idx] EXCEPT !.valid = c]
<1>1. ring = [i \in 0..HISTORY_LENGTH-1 |-> ring[i]] /\ IsFrame(ring[idx], n)
    BY DEF RingOK
<1>2. ring[idx] = [frameN |-> ring[idx].frameN, side |-> ring[idx].side,
                   valid |-> ring[idx].valid, found_bodies |-> ring[idx].found_bodies]
    BY <1>1 DEF IsFrame
<1> HIDE DEF c
<1>3. /\ f.valid = c /\ f.frameN = ring[idx].frameN
      /\ f.found_bodies = ring[idx].found_bodies
      /\ c = ring[idx].valid => f = ring[idx]
    BY <1>2
<1>4. Corrected(ring, idx) = [ring EXCEPT ![idx] = f]
    BY <1>1 DEF Corrected, c
<1> HIDE DEF f
<1>5. /\ [ring EXCEPT ![idx] = f][idx] = f
      /\ \A i \in 0..HISTORY_LENGTH-1 : i # idx => [ring EXCEPT ![idx] = f][i] = ring[i]
      /\ f = ring[idx] => [ring EXCEPT ![idx] = f] = ring
    BY <1>1
<1> QED
    BY <1>3, <1>4, <1>5 DEF c

\* A corrected frame shows what it showed.
LEMMA RingCorrected ==
    ASSUME DelaysFit, NEW n \in Nat, NEW g, NEW ring, RingOK(ring, n),
           RingShows(g, ring, n + 1, n - MatchDelay)
    PROVE  RingShows(g, Corrected(ring, Slot(n - MatchDelay)), n + 1, n + 1 - MatchDelay)
<1> DEFINE k == n - MatchDelay
           new == Corrected(ring, Slot(k))
<1>0. /\ HISTORY_LENGTH \in Nat /\ MatchDelay \in Nat /\ MatchDelay > 0
      /\ HISTORY_LENGTH > MatchDelay + 1 /\ k \in Int
    BY DelayFacts DEF DelaysFit
<1>1. Slot(k) \in 0..HISTORY_LENGTH-1
    BY <1>0, SlotOfSlot
<1>2. /\ new[Slot(k)].frameN = ring[Slot(k)].frameN
      /\ new[Slot(k)].found_bodies = ring[Slot(k)].found_bodies
      /\ \A i \in 0..HISTORY_LENGTH-1 : i # Slot(k) => new[i] = ring[i]
    BY <1>1, CorrectedFact
<1>3. k = n - MatchDelay
    OBVIOUS
<1> HIDE DEF new, k
<1>4. \A i \in 0..HISTORY_LENGTH-1 : /\ new[i].frameN = ring[i].frameN
                                     /\ new[i].found_bodies = ring[i].found_bodies
    BY <1>2
<1>5. ASSUME NEW j \in Int, j < n + 1, j >= n + 1 - MatchDelay
      PROVE  new[Slot(j)] = ring[Slot(j)] /\ j >= n - MatchDelay
  <2>1. k < j /\ j - k < HISTORY_LENGTH /\ j >= n - MatchDelay
      BY <1>0, <1>3, <1>5
  <2>2. Slot(k) # Slot(j) /\ Slot(j) \in 0..HISTORY_LENGTH-1
      BY <1>0, <2>1, SlotsDiffer, SlotOfSlot
  <2> QED
      BY <2>1, <2>2, <1>2
<1>6. \A j \in Int : Slot(j) \in 0..HISTORY_LENGTH-1
    BY SlotOfSlot
<1>7. RingShows(g, new, n + 1, n + 1 - MatchDelay)
    BY <1>4, <1>5, <1>6 DEF RingShows, NumBodies
<1> QED
    BY <1>7 DEF new, k

\* Before anybody can be seen correct_frame changes nothing.
LEMMA NothingSeen ==
    ASSUME NEW n \in Nat, NEW ring, RingOK(ring, n),
           \A i \in 0..HISTORY_LENGTH-1 : NumBodies(ring[i]) = 0,
           NEW idx \in 0..HISTORY_LENGTH-1
    PROVE  Corrected(ring, idx) = ring
<1>1. Slot(idx + 1) \in 0..HISTORY_LENGTH-1
    BY SlotOfSlot
<1>2. ~IsGlitch(ring, idx)
    BY <1>1 DEF IsGlitch
<1>3. ring[idx].valid \in BOOLEAN
    BY DEF RingOK, IsFrame
<1>4. IsCorrect(ring, idx) = ring[idx].valid
    BY <1>2, <1>3 DEF IsCorrect
<1> QED
    BY <1>4, CorrectedFact
-----------------------------------------------------------------------------
(* The invariant of the walk.                                              *)

\* What the tracker knows after frame k was matched; before the first frame it
\* knows of nobody.
Knows(h, ring, k, P, inside) ==
    IF k < START_FRAME THEN P = <<>> /\ inside = PeopleAtStart
    ELSE \E s : /\ Steady(h, ring, k, s)
                /\ Seen(h[k], ring[Slot(k)].valid, s, h[k+1].shows)
                /\ Followed(h[k], k, ring[Slot(k)].valid, s, P, inside)

\* The first frames show nobody.
LEMMA FirstFrames ==
    ASSUME DelaysFit, NEW n \in Nat, n >= START_FRAME, NEW k, k = n - MatchDelay, k <= START_FRAME,
           NEW g, IsPast(g, n + 1), NEW ring, RingOK(ring, n),
           RingShows(g, ring, n + 1, k), NEW P, P = <<>>, NEW inside, inside = PeopleAtStart
    PROVE  /\ \A i \in 0..HISTORY_LENGTH-1 : NumBodies(ring[i]) = 0
           /\ Knows(g, ring, k, P, inside)
<1>0. /\ HISTORY_LENGTH \in Nat /\ MatchDelay \in Nat /\ MatchDelay > 0
      /\ START_FRAME \in Nat /\ BACKGROUND_FRAMES \in Nat /\ BACKGROUND_FRAMES > MatchDelay
      /\ HISTORY_LENGTH > MatchDelay + 1 /\ k \in Int
    BY DelayFacts DEF DelaysFit
<1>1. \A i \in 0..HISTORY_LENGTH-1 : NumBodies(ring[i]) = 0
    BY <1>0 DEF RingShows
<1>2. CASE k < START_FRAME
    BY <1>1, <1>2 DEF Knows
<1>3. CASE k = START_FRAME
  <2>1. k < n + 1 /\ n + 1 - HISTORY_LENGTH <= k /\ ~SeesPeople(k)
      BY <1>0, <1>3 DEF SeesPeople
  <2>2. /\ g[k].phase = "empty" /\ g[k].truth = PeopleAtStart /\ Sound(g[k])
      BY <1>0, <2>1 DEF IsPast
  <2>3. g[k].shows = 0
    <3>1. g[k].age \in 0..MaxAge /\ MaxAge \in Nat
        BY <2>2, DelayFacts DEF Sound
    <3> QED
        BY <2>2, <3>1 DEF Sound
  <2>4. ring[Slot(k)].valid
      BY <1>0, <1>3, <2>1 DEF RingShows
  <2>5. ring[Slot(k)].valid \in BOOLEAN
    <3>1. Slot(k) \in 0..HISTORY_LENGTH-1
        BY <1>0, SlotOfSlot
    <3> QED
        BY <3>1 DEF RingOK, IsFrame
  <2>6. Steady(g, ring, k, 0)
      BY <2>3, <2>4 DEF Steady
  <2>7. Seen(g[k], ring[Slot(k)].valid, 0, g[k+1].shows)
      BY <2>2, <2>3, <2>4, <2>5 DEF Seen
  <2>8. Followed(g[k], k, ring[Slot(k)].valid, 0, P, inside)
      BY <2>2 DEF Followed
  <2> QED
      BY <1>0, <1>1, <1>3, <2>6, <2>7, <2>8 DEF Knows
<1> QED
    BY <1>0, <1>2, <1>3

\* Storing a frame does not disturb what is known of earlier ones.
LEMMA KnowsStored ==
    ASSUME DelaysFit, NEW n \in Nat, NEW k, k = n - MatchDelay, k > START_FRAME,
           NEW h, NEW g, \A j \in Int : j # n => g[j] = h[j],
           NEW old, NEW ring, \A i \in 0..HISTORY_LENGTH-1 : i # Slot(n) => ring[i] = old[i],
           NEW P, NEW inside, Knows(h, old, k - 1, P, inside)
    PROVE  Knows(g, ring, k - 1, P, inside)
<1>0. /\ HISTORY_LENGTH \in Nat /\ MatchDelay \in Nat /\ MatchDelay > 0
      /\ START_FRAME \in Nat /\ HISTORY_LENGTH > MatchDelay + 2 /\ k \in Int
    BY DelayFacts DEF DelaysFit
<1>1. \A j \in {k - 1, k - 1 - 1} : ring[Slot(j)] = old[Slot(j)] /\ g[j] = h[j]
  <2> TAKE j \in {k - 1, k - 1 - 1}
  <2>1. j \in Int /\ j < n /\ n - j < HISTORY_LENGTH
      BY <1>0
  <2>2. Slot(j) # Slot(n) /\ Slot(j) \in 0..HISTORY_LENGTH-1
      BY <2>1, SlotsDiffer, SlotOfSlot
  <2> QED
      BY <2>1, <2>2
<1>2. g[k-1+1] = h[k-1+1] /\ ~(k - 1 < START_FRAME)
    BY <1>0
<1>3. PICK s : /\ Steady(h, old, k - 1, s)
               /\ Seen(h[k-1], old[Slot(k-1)].valid, s, h[k-1+1].shows)
               /\ Followed(h[k-1], k - 1, old[Slot(k-1)].valid, s, P, inside)
    BY <1>2 DEF Knows
<1>4. Steady(g, ring, k - 1, s)
    BY <1>1, <1>3 DEF Steady
<1> QED
    BY <1>1, <1>2, <1>3, <1>4 DEF Knows

\* One call of process_frame, for the tracker T.
LEMMA KnowsNext ==
    ASSUME DelaysFit, NEW n \in Nat, n <= END_FRAME, NEW k, k = n - MatchDelay, k > START_FRAME,
           NEW g, IsPast(g, n + 1), NEW ring, RingOK(ring, n), RingShows(g, ring, n + 1, k),
           NEW T, TrackerOK(T, n + 1), NEW stale, NEW inside \in Int,
           Knows(g, ring, k - 1, T.people, inside),
           NEW M, M = Matched(T, ring, n, stale).people,
           NEW E, E \subseteq DOMAIN M, ErasedBy(M, n, E)
    PROVE  Knows(g, Corrected(ring, Slot(k)), k, Kept(M, E), inside + Change(M, E))
<1> DEFINE d == g[k-1]
           e == g[k]
           f == g[k+1]
           v == ring[Slot(k-1)].valid
           new == Corrected(ring, Slot(k))
           fr == Delayed(ring, n)
           P == T.people
<1>0. /\ HISTORY_LENGTH \in Nat /\ MatchDelay \in Nat /\ MatchDelay > 0
      /\ START_FRAME \in Nat /\ HISTORY_LENGTH > MatchDelay + 2 /\ k \in Nat /\ k - 1 \in Int
      /\ k + 1 \in Int /\ k < n /\ ~(k - 1 < START_FRAME) /\ ~(k < START_FRAME) /\ k - 1 + 1 = k
      /\ k + 1 - 1 = k
    BY DelayFacts DEF DelaysFit
<1>1. /\ Sound(d) /\ Sound(e) /\ Sound(f) /\ Follows(d, e) /\ Follows(e, f)
    BY <1>0 DEF IsPast
<1>2. PICK s : /\ Steady(g, ring, k - 1, s)
               /\ Seen(d, v, s, e.shows)
               /\ Followed(d, k - 1, v, s, P, inside)
    BY <1>0 DEF Knows
<1>3. fr = ring[Slot(k)]
  <2>1. n \in Int /\ MatchDelay \in Int
      BY <1>0
  <2>2. Back(n, MatchDelay) = Slot(n - MatchDelay)
      BY <2>1, SlotOfSlot
  <2> QED
      BY <2>2 DEF Delayed
<1>4. /\ fr.frameN = k /\ NumBodies(fr) = e.shows
      /\ e.shows = 1 => fr.found_bodies[1].side = e.side
    BY <1>0, <1>3 DEF RingShows
<1>5. e.shows \in 0..2
    BY <1>1 DEF Sound
<1> DEFINE w == Valid(s, e, f)
           t == IF w THEN e.shows ELSE s
           ok == IsCorrect(ring, Slot(k))
<1>6. ok <=> w
    BY <1>0, <1>2, CorrectFact DEF Valid
<1>7. ok \in BOOLEAN /\ w \in BOOLEAN
    BY DEF IsCorrect, Valid
<1>8. Slot(k) \in 0..HISTORY_LENGTH-1 /\ Slot(k-1) \in 0..HISTORY_LENGTH-1 /\ Slot(k-1) # Slot(k)
    BY <1>0, SlotOfSlot, SlotsDiffer
<1>9. new[Slot(k)].valid = ok /\ new[Slot(k-1)] = ring[Slot(k-1)]
    BY <1>8, CorrectedFact
<1>10. /\ Seen(e, w, t, f.shows)
       /\ ~w => v /\ s = d.shows
    BY <1>1, <1>2, SeenNext
<1> DEFINE b == fr.found_bodies[1]
<1>11. /\ ~ok \/ NumBodies(fr) = 0 => Matched(T, ring, n, stale) = T
       /\ ok /\ NumBodies(fr) = 1 /\ b.side \in Sides /\ P = <<>>
            => Alone(M, T.total_people, b.side, k, "UNKNOWNDIR")
       /\ \A i, a, last, dir :
            /\ ok /\ NumBodies(fr) = 1 /\ b.side \in FrameSide
            /\ Alone(P, i, a, last, dir) /\ last < k
            /\ is_match(P[i], b)
            => Alone(M, i, a, k, Turned(a, dir, b.side))
  <2>1. n + 1 \in Nat /\ NumBodies(fr) \in Nat
      BY <1>4, <1>5
  <2> QED
      BY <1>0, <1>4, <2>1, MatchedAlone
<1>12. \A i \in DOMAIN M : IsPerson(M[i], n + 1)
    BY MatchedOK DEF Reaches, TrackerOK
<1>13. T.total_people \in Nat
    BY DEF TrackerOK
<1>14. e.shows = 1 => \A p : is_match(p, e) <=> is_match(p, b)
    BY <1>4 DEF is_match
<1> HIDE DEF d, e, f, v, new, fr, P, w, t, ok, b
<1>15. w = Valid(s, e, f) /\ t = IF w THEN e.shows ELSE s
    BY DEF w, t
<1>16. MatchedWith(P, M, T.total_people, e, k, w)
  <2>1. ~w \/ e.shows = 0 => M = P
      BY <1>4, <1>6, <1>11 DEF P
  <2>2. e.shows = 1 => b.side = e.side
      BY <1>4 DEF b
  <2> QED
      BY <2>1, <2>2, <1>4, <1>6, <1>11, <1>14 DEF MatchedWith
<1>17. Followed(e, k, w, IF w THEN e.shows ELSE s, Kept(M, E), inside + Change(M, E))
    BY <1>0, <1>1, <1>2, <1>12, <1>13, <1>15, <1>16, FollowedNext
<1>18. new[Slot(k)].valid = w
    BY <1>6, <1>7, <1>9
<1>19. Steady(g, new, k, t)
  <2>1. CASE w
      BY <2>1, <1>15, <1>18 DEF Steady, e
  <2>2. CASE ~w
    <3>1. new[Slot(k-1)].valid /\ g[k-1].shows = t
        BY <2>2, <1>9, <1>10, <1>15 DEF v, d
    <3> QED
        BY <2>2, <3>1, <1>0, <1>18 DEF Steady
  <2> QED
      BY <2>1, <2>2
<1>20. Seen(e, new[Slot(k)].valid, t, f.shows)
       /\ Followed(e, k, new[Slot(k)].valid, t, Kept(M, E), inside + Change(M, E))
    BY <1>10, <1>15, <1>17, <1>18
<1>21. Knows(g, new, k, Kept(M, E), inside + Change(M, E))
    BY <1>0, <1>19, <1>20 DEF Knows, e, f
<1> QED
    BY <1>21 DEF new

\* h is the past of this state, and the tracker knows what it could see of it.
Walked(h) ==
    /\ IsPast(h, frameN) /\ LongEmpty(h, frameN)
    /\ RingShows(h, frames, frameN, frameN - MatchDelay)
    /\ phase = h[frameN-1].phase /\ age = h[frameN-1].age
    /\ from = h[frameN-1].from /\ truth = h[frameN-1].truth
    /\ Knows(h, frames, frameN - 1 - MatchDelay, people, people_inside)

WInv == frameN >= START_FRAME /\ \E h : Walked(h)

\* Before the first frame the doorway has always been empty.
LEMMA InitWInv == WalkInit => WInv
<1> SUFFICES ASSUME WalkInit PROVE WInv
    OBVIOUS
<1> DEFINE h == [j \in Int |-> Before]
<1>0. /\ START_FRAME \in Nat /\ MaxAge \in Nat /\ HISTORY_LENGTH \in Nat
      /\ MatchDelay \in Nat /\ MatchDelay > 0 /\ PeopleAtStart \in Int /\ MaxAge > 0
    BY DelayFacts, WalkFits DEF DelaysFit
<1>1. frameN = START_FRAME /\ people = <<>> /\ people_inside = PeopleAtStart
      /\ frames = [i \in 0..HISTORY_LENGTH-1 |-> NoFrameYet]
      /\ phase = "empty" /\ age = MaxAge /\ from = LEFTSIDE /\ truth = PeopleAtStart
    BY DEF WalkInit, Init
<1>2. \A j \in Int : h[j] = Before
    OBVIOUS
<1> HIDE DEF h
<1>3. /\ Before.phase = "empty" /\ Before.age = MaxAge /\ Before.from = LEFTSIDE
      /\ Before.truth = PeopleAtStart /\ Before.shows = 0 /\ Before.side = UNKNOWNSIDE
    BY DEF Before
<1>4. Sound(Before) /\ Follows(Before, Before)
  <2>1. View(Before.phase, Before.from).side = UNKNOWNSIDE
      BY <1>3 DEF View
  <2>2. Older(MaxAge) = MaxAge
      BY <1>0 DEF Older
  <2>3. Sound(Before)
      BY <1>0, <1>3, <2>1 DEF Sound, Phases, Sides
  <2> QED
      BY <1>3, <2>2, <2>3 DEF Follows, Stays
<1>5. IsPast(h, frameN)
  <2>1. \A j \in Int : j - 1 \in Int
      OBVIOUS
  <2> QED
      BY <2>1, <1>2, <1>3, <1>4 DEF IsPast
<1>6. LongEmpty(h, frameN)
    BY <1>0, <1>2, <1>3 DEF LongEmpty
<1>7. RingShows(h, frames, frameN, frameN - MatchDelay)
  <2>1. \A i \in 0..HISTORY_LENGTH-1 : NumBodies(frames[i]) = 0
    <3>1. NumBodies(NoFrameYet) = 0
        BY DEF NumBodies, NoFrameYet
    <3> QED
        BY <3>1, <1>1
  <2> QED
      BY <2>1, <1>0, <1>1 DEF RingShows
<1>8. Knows(h, frames, frameN - 1 - MatchDelay, people, people_inside)
  <2>1. frameN - 1 - MatchDelay < START_FRAME
      BY <1>0, <1>1
  <2> QED
      BY <2>1, <1>1 DEF Knows
<1>9. frameN - 1 \in Int
    BY <1>0, <1>1
<1>10. Walked(h)
    BY <1>1, <1>2, <1>3, <1>5, <1>6, <1>7, <1>8, <1>9 DEF Walked
<1> QED
    BY <1>0, <1>1, <1>10 DEF WInv

\* One frame of the walk.
LEMMA StepWInv == IInv /\ WInv /\ WalkNext => WInv'
<1> SUFFICES ASSUME IInv, WInv, WalkNext PROVE WInv'
    OBVIOUS
<1>1. PICK scene \in Views : DoorStep(scene) /\ \E stale \in BOOLEAN : ProcessFrame(scene, stale)
    BY DEF WalkNext, DoorStep
<1>2. PICK stale \in BOOLEAN : ProcessFrame(scene, stale)
    BY <1>1
<1>3. PICK h : Walked(h)
    BY DEF WInv
<1> DEFINE n == frameN
           k == n - MatchDelay
           fr == FrameOf(n, scene)
           ring == [frames EXCEPT ![Slot(n)] = fr]
           T == [people |-> people, total_people |-> total_people, capacity |-> capacity]
           M == Matched(T, ring, n, stale).people
           d == h[n-1]
           e == [phase |-> phase', age |-> age', from |-> from', truth |-> truth',
                 shows |-> Len(scene.cxs), side |-> scene.side]
           g == [j \in Int |-> IF j = n THEN e ELSE h[j]]
<1>0. /\ HISTORY_LENGTH \in Nat /\ MatchDelay \in Nat /\ MatchDelay > 0 /\ START_FRAME \in Nat
      /\ n \in Nat /\ n >= START_FRAME /\ DelaysFit /\ k \in Int /\ n - 1 < n /\ n - 1 \in Int
      /\ people_inside \in Int
  <2>1. n \in Nat /\ n >= START_FRAME /\ people_inside \in Int
      BY DEF WInv, IInv, TypeOK
  <2> HIDE DEF n
  <2> QED
      BY <2>1, DelayFacts, WalkFits
<1>4. Sound(d)
    BY <1>0, <1>3 DEF Walked, IsPast
<1>5. phase = d.phase /\ age = d.age /\ from = d.from /\ truth = d.truth
    BY <1>3 DEF Walked
<1>6. /\ Sound(e) /\ Follows(d, e)
      /\ d.phase = "empty" /\ ~SeesPeople(n) => e.phase = "empty" /\ e.truth = d.truth
    BY <1>0, <1>1, <1>4, <1>5, DoorFact
<1>7. e.shows = Len(scene.cxs) /\ e.side = scene.side
    OBVIOUS
<1>a. phase' = e.phase /\ age' = e.age /\ from' = e.from /\ truth' = e.truth
    OBVIOUS
<1>8. IsScene(scene)
    BY TrackerAssumption, WalkFits
<1>9. ~SeesPeople(n) => d.phase = "empty"
  <2>1. ~SeesPeople(n) => ~SeesPeople(n - 1)
      BY <1>0, DelayFacts DEF SeesPeople
  <2> QED
      BY <2>1, <1>0, <1>3 DEF Walked, IsPast
<1>10. /\ fr.frameN = n /\ fr.valid = TRUE /\ NumBodies(fr) = e.shows
       /\ e.shows = 1 => fr.found_bodies[1].side = e.side
       /\ ~SeesPeople(n) => NumBodies(fr) = 0
  <2> HIDE DEF e, fr
  <2>1. fr = FrameOf(n, scene)
      BY DEF fr
  <2>2. /\ e.shows \in 0..2 /\ e.age \in 0..MaxAge /\ MaxAge \in Nat
        /\ e.age > 0 => e.shows = IF e.phase = "empty" THEN 0 ELSE 1
        /\ e.age = 0 => e.phase # "empty"
      BY <1>6, DelayFacts DEF Sound
  <2> DEFINE L == Len(scene.cxs)
             bs == fr.found_bodies
  <2>3. /\ fr.frameN = n /\ fr.valid = TRUE
        /\ NumBodies(fr) = IF SeesPeople(n) THEN L ELSE 0
        /\ SeesPeople(n) /\ L = 1 => bs[1].side = scene.side
    <3>1. L \in 0..2
        BY <1>7, <2>2
    <3> QED
        BY <1>0, <1>8, <2>1, <3>1, StoredFact
  <2>4. e.shows = L /\ e.side = scene.side
      BY <1>7
  <2> HIDE DEF L, bs
  <2>5. ~SeesPeople(n) => e.shows = 0
      BY <2>2, <1>6, <1>9
  <2>6. e.shows = 1 => bs[1].side = e.side
      BY <2>3, <2>4, <2>5
  <2>7. NumBodies(fr) = e.shows /\ (~SeesPeople(n) => NumBodies(fr) = 0)
      BY <2>3, <2>4, <2>5
  <2> QED
      BY <2>3, <2>6, <2>7 DEF bs
<1>11. IsPast(g, n + 1) /\ LongEmpty(g, n + 1)
  <2>1. IsPast(h, n) /\ LongEmpty(h, n)
      BY <1>3 DEF Walked
  <2> HIDE DEF e
  <2> QED
      BY <2>1, <1>0, <1>6, PastNext
<1>12. g[n] = e /\ \A j \in Int : j # n => g[j] = h[j]
    BY <1>0
<1> HIDE DEF e, g, fr
<1>13. RingOK(frames, n) /\ frames = [i \in 0..HISTORY_LENGTH-1 |-> frames[i]]
    BY DEF IInv, TypeOK, RingOK
<1>14. RingShows(g, ring, n + 1, k)
  <2>1. RingShows(h, frames, n, n - MatchDelay)
      BY <1>3 DEF Walked
  <2> QED
      BY <2>1, <1>0, <1>10, <1>12, <1>13, RingNext
<1>15. RingOK(ring, n)
  <2>1. Slot(n) \in 0..HISTORY_LENGTH-1
      BY <1>0, SlotOfSlot
  <2>2. scene \in Scenes
      BY WalkFits
  <2>3. IsFrame(fr, n)
      BY <1>0, <2>2, FrameOfType DEF fr
  <2> QED
      BY <1>13, <2>1, <2>3 DEF RingOK
<1>16. \A i \in 0..HISTORY_LENGTH-1 : i # Slot(n) => ring[i] = frames[i]
    BY <1>13
<1>17. T.people = people /\ T.total_people = total_people /\ T.capacity = capacity
    OBVIOUS
<1>18. TrackerOK(T, n + 1)
  <2>1. \A i \in DOMAIN people : IsPerson(people[i], n + 1)
      BY <1>0 DEF IInv, TypeOK, IsPerson, IsTrajectory
  <2> QED
      BY <2>1 DEF TrackerOK, With, IInv, TypeOK
<1>19. PICK E \in SUBSET DOMAIN M :
          /\ ErasedBy(M, n, E) /\ people' = Kept(M, E)
          /\ people_inside' = people_inside + Change(M, E)
    BY <1>2 DEF ProcessFrame, Change, fr
<1> DEFINE idx == Slot(Delayed(ring, n).frameN)
<1>20. n <= END_FRAME /\ frames' = Corrected(ring, idx) /\ frameN' = n + 1
    BY <1>2 DEF ProcessFrame, fr
<1> HIDE DEF ring, T, M
<1>21. Knows(h, frames, k - 1, people, people_inside)
  <2>1. n - 1 - MatchDelay = k - 1
      BY <1>0
  <2> QED
      BY <1>3, <2>1 DEF Walked
<1>b. k = n - MatchDelay
    OBVIOUS
<1>22. ASSUME k > START_FRAME
       PROVE  /\ Knows(g, frames', k, people', people_inside')
              /\ RingShows(g, frames', n + 1, n + 1 - MatchDelay)
  <2>1. Knows(g, ring, k - 1, T.people, people_inside)
      BY <1>0, <1>12, <1>16, <1>17, <1>21, <1>22, KnowsStored
  <2>2. Delayed(ring, n).frameN = k
    <3>1. Back(n, MatchDelay) = Slot(k)
        BY <1>0, SlotOfSlot
    <3>2. k < n + 1 /\ n + 1 - HISTORY_LENGTH <= k
        BY <1>0, DelayFacts
    <3> QED
        BY <3>1, <3>2, <1>0, <1>14, <1>22 DEF RingShows, Delayed
  <2>3. Knows(g, Corrected(ring, Slot(k)), k, Kept(M, E), people_inside + Change(M, E))
    <3> HIDE DEF k, n
    <3>1. M = Matched(T, ring, n, stale).people
        BY DEF M
    <3> QED
        BY <1>0, <1>b, <1>11, <1>14, <1>15, <1>18, <1>19, <1>20, <1>22, <2>1, <3>1, KnowsNext
  <2>4. RingShows(g, Corrected(ring, Slot(k)), n + 1, n + 1 - MatchDelay)
      BY <1>0, <1>14, <1>15, RingCorrected
  <2> QED
      BY <1>19, <1>20, <2>2, <2>3, <2>4
<1>23. ASSUME k <= START_FRAME
       PROVE  /\ Knows(g, frames', k, people', people_inside')
              /\ RingShows(g, frames', n + 1, n + 1 - MatchDelay)
  <2>1. people = <<>> /\ people_inside = PeopleAtStart
    <3>1. k - 1 < START_FRAME
        BY <1>0, <1>23
    <3> QED
        BY <1>21, <3>1 DEF Knows
  <2>2. /\ \A i \in 0..HISTORY_LENGTH-1 : NumBodies(ring[i]) = 0
        /\ Knows(g, ring, k, people, people_inside)
      BY <1>0, <1>11, <1>14, <1>15, <1>23, <2>1, FirstFrames
  <2>3. Back(n, MatchDelay) \in 0..HISTORY_LENGTH-1
      BY <1>0, SlotOfSlot
  <2>4. idx \in 0..HISTORY_LENGTH-1
    <3>1. Delayed(ring, n).frameN \in Nat
        BY <1>0, <1>15, <2>3 DEF Delayed, RingOK, IsFrame
    <3> DEFINE m == Delayed(ring, n).frameN
    <3>2. m \in Int
        BY <3>1
    <3> HIDE DEF m
    <3>3. Slot(m) \in 0..HISTORY_LENGTH-1
        BY <3>2, SlotOfSlot
    <3> QED
        BY <3>3 DEF m
  <2>5. Corrected(ring, idx) = ring
    <3> HIDE DEF idx
    <3> QED
        BY <1>0, <1>15, <2>2, <2>4, NothingSeen
  <2>6. M = people
    <3>1. NumBodies(Delayed(ring, n)) = 0
        BY <2>2, <2>3 DEF Delayed
    <3> QED
        BY <3>1, <1>17 DEF M, Matched
  <2>7. Kept(M, E) = people /\ Change(M, E) = 0
      BY <2>1, <2>6, NobodyStays
  <2>8. people' = people /\ people_inside' = people_inside /\ frames' = ring
      BY <1>0, <1>19, <1>20, <2>5, <2>7
  <2>9. RingShows(g, ring, n + 1, n + 1 - MatchDelay)
    <3>1. \A j \in Int : j >= n + 1 - MatchDelay => j >= n - MatchDelay
        BY <1>0
    <3> QED
        BY <3>1, <1>14 DEF RingShows
  <2> QED
      BY <2>2, <2>8, <2>9
<1>24. /\ Knows(g, frames', k, people', people_inside')
       /\ RingShows(g, frames', n + 1, n + 1 - MatchDelay)
    BY <1>0, <1>22, <1>23
<1> QED
    BY <1>0, <1>11, <1>12, <1>20, <1>24, <1>a DEF WInv, Walked

\* What the doorway has long left, the tracker has dropped.
LEMMA SettledFact ==
    ASSUME WInv, phase = "empty", age > Settle, frameN \in Nat
    PROVE  people_inside = truth /\ people = <<>>
<1>1. PICK h : Walked(h)
    BY DEF WInv
<1> DEFINE j == frameN - 1
           k == frameN - 1 - MatchDelay
           d == h[j]
           e == h[k]
<1>0. /\ MatchDelay \in Nat /\ DETECTION_DELAY \in Nat /\ START_FRAME \in Nat
      /\ j \in Int /\ k \in Int /\ k <= j /\ j < frameN /\ k < frameN /\ j - k = MatchDelay
      /\ frameN >= START_FRAME
    BY DelayFacts DEF WInv
<1>2. phase = d.phase /\ age = d.age /\ truth = d.truth
    BY <1>1 DEF Walked
<1>3. Sound(d) /\ Sound(e)
    BY <1>0, <1>1 DEF Walked, IsPast
<1>4. d.age \in Nat /\ e.age \in Nat
    BY <1>3, DelayFacts DEF Sound
<1> HIDE DEF d, e
<1>5. d.age > MatchDelay + DETECTION_DELAY
    BY <1>2 DEF Settle
<1>6. e.phase = "empty" /\ e.truth = d.truth /\ e.age >= d.age - MatchDelay
  <2>1. LongEmpty(h, frameN)
      BY <1>1 DEF Walked
  <2>2. d.phase = "empty" /\ d.age > j - k
      BY <1>0, <1>2, <1>4, <1>5
  <2>3. /\ h[k].phase = "empty" /\ h[k].truth = h[j].truth
        /\ h[k].age >= h[j].age - (j - k)
    <3> HIDE DEF j, k
    <3> QED
        BY <2>1, <2>2, <1>0 DEF LongEmpty, d
  <2> QED
      BY <2>3, <1>0 DEF d, e
<1>7. e.age > DETECTION_DELAY
    BY <1>0, <1>4, <1>5, <1>6
<1>8. Knows(h, frames, k, people, people_inside)
    BY <1>1 DEF Walked
<1>9. CASE k < START_FRAME
  <2>1. people = <<>> /\ people_inside = PeopleAtStart
      BY <1>8, <1>9 DEF Knows
  <2>2. e = Before
      BY <1>0, <1>1, <1>9 DEF Walked, IsPast, e
  <2>3. truth = PeopleAtStart
      BY <2>2, <1>2, <1>6 DEF Before
  <2> QED
      BY <2>1, <2>3
<1>10. CASE ~(k < START_FRAME)
  <2>1. PICK s : Followed(e, k, frames[Slot(k)].valid, s, people, people_inside)
      BY <1>8, <1>10 DEF Knows, e
  <2>2. ~(e.age < DETECTION_DELAY)
      BY <1>0, <1>4, <1>7
  <2> QED
      BY <2>1, <2>2, <1>2, <1>6 DEF Followed
<1> QED
    BY <1>9, <1>10

\* The tracker behind the doorway is the tracker: what it does on some inputs
\* it does on all, so that every theorem about Spec holds of WalkSpec
\* (process_frame, OccupancyCounter.cpp:1328-1391, knows nothing of visits).
THEOREM WalkIsTracker == WalkSpec => Spec
<1>1. WalkInit => Init
    BY DEF WalkInit
<1>2. [WalkNext]_walkVars => [Next]_vars
    BY WalkFits DEF WalkNext, Next, walkVars, vars
<1> QED
    BY <1>1, <1>2, PTL DEF WalkSpec, Spec

\* Whoever crosses the doorway is counted exactly once and in the right
\* direction, whoever turns back is not, whatever frames of a visit are
\* glitches: a doorway that has been empty for a while leaves the count true and
\* nobody tracked (correct_frame to update_people_status, lines 436-620).
THEOREM CountIsTrue == WalkSpec => []CountFollowsTruth
<1>1. WalkInit => WInv
    BY InitWInv
<1>2. IInv /\ WInv /\ [WalkNext]_walkVars => WInv'
  <2>1. WInv /\ UNCHANGED walkVars => WInv'
      BY DEF WInv, Walked, walkVars, vars
  <2> QED
      BY <2>1, StepWInv
<1>3. IInv /\ WInv => CountFollowsTruth
  <2>1. IInv => frameN \in Nat
      BY DEF IInv, TypeOK
  <2> QED
      BY <2>1, SettledFact DEF CountFollowsTruth
<1> QED
    BY <1>1, <1>2, <1>3, WalkIsTracker, Invariance, PTL DEF WalkSpec
=============================================================================
