------------------------ MODULE BodyExtractionProofs ------------------------
(***************************************************************************)
(* Properties of BodyExtraction for frames of any size, any temperatures   *)
(* and any limits.                                                         *)
(*                                                                         *)
(* Components.  The contours of connectedC are the connected components of *)
(* the mask.  While bfs runs, what it has reached (Piece, the pixels in    *)
(* the queue and in the result) stays connected, because each pixel that   *)
(* is put in the queue touches the one that is taken out; and whatever     *)
(* touches a pixel taken out has been reached.  With an empty queue the    *)
(* result is therefore a piece nothing else touches.                       *)
(*                                                                         *)
(* Bodies.  convert_contour_to_body is a fold; what it has after k         *)
(* contours are the two biggest of these (Biggest), by induction on k.     *)
(*                                                                         *)
(* Cut.  Components is the set of the contours, so extract_body goes on    *)
(* just when one component fits and is too big.                            *)
(*                                                                         *)
(* Sides and centre.  Both are about sums of temperatures.  A sum over a   *)
(* set of pixels is a fold in no known order; it is shown not to depend on *)
(* the order (SumRemove), from which it follows what a mirror does to it.  *)
(* A peak is where status turns from rising to falling; in a histogram     *)
(* with no valley everything before and behind that column is colder.      *)
(*                                                                         *)
(* Search.  The pulses that check_by_histogram finds are the modes of the  *)
(* frame, in order, as long as nobody is too warm for the histogram.       *)
(***************************************************************************)
EXTENDS BodyExtraction, FiniteSetTheorems, NaturalsInduction, WellFoundedInduction, TLAPS
-----------------------------------------------------------------------------
(* Orders and finite sets of pixels.                                       *)

LEMMA PixelsFinite ==
    /\ IsFiniteSet(Pixels)
    /\ \A S : S \subseteq Pixels => IsFiniteSet(S)
<1>1. IsFiniteSet(1..Cols) /\ IsFiniteSet(1..Rows)
    BY BodyAssumption, FS_Interval
<1>2. IsFiniteSet(Pixels)
    BY <1>1, FS_Product DEF Pixels
<1> QED
    BY <1>2, FS_Subset

LEMMA BeforeIsTotal ==
    ASSUME NEW p \in Pixels, NEW r \in Pixels
    PROVE  /\ ~Before(p, p)
           /\ p # r => Before(p, r) \/ Before(r, p)
           /\ \A u \in Pixels : Before(u, p) /\ Before(p, r) => Before(u, r)
<1>1. /\ p = <<p[1], p[2]>> /\ p[1] \in Int /\ p[2] \in Int
      /\ r = <<r[1], r[2]>> /\ r[1] \in Int /\ r[2] \in Int
      /\ \A u \in Pixels : u[1] \in Int /\ u[2] \in Int
    BY DEF Pixels
<1>2. p # r => p[1] # r[1] \/ p[2] # r[2]
    BY <1>1
<1> QED
    BY <1>1, <1>2 DEF Before

\* How many pixels of S come before p.
Rank(S, p) == Cardinality({r \in S : Before(r, p)})

LEMMA RankFact ==
    ASSUME NEW S, S \subseteq Pixels, NEW p \in S
    PROVE  /\ Rank(S, p) \in 0..Cardinality(S) - 1
           /\ \A r \in S : Before(p, r) => Rank(S, p) < Rank(S, r)
<1> DEFINE Below(r) == {u \in S : Before(u, r)}
<1>1. IsFiniteSet(S) /\ Cardinality(S) \in Nat
    BY PixelsFinite, FS_CardinalityType
<1>2. ASSUME NEW T, T \subseteq S PROVE IsFiniteSet(T) /\ Cardinality(T) \in Nat
    BY <1>1, <1>2, FS_Subset, FS_CardinalityType
<1>3. ASSUME NEW T, T \subseteq S, NEW U, U \subseteq T, NEW x \in T, x \notin U
      PROVE  Cardinality(U) < Cardinality(T)
  <2>1. IsFiniteSet(T) /\ IsFiniteSet(U) /\ U \in SUBSET T /\ U # T
      BY <1>2, <1>3
  <2>2. Cardinality(U) <= Cardinality(T) /\ Cardinality(U) # Cardinality(T)
      BY <2>1, FS_Subset
  <2> QED
      BY <1>2, <1>3, <2>2
<1>4. p \notin Below(p) /\ Below(p) \subseteq S
    BY BeforeIsTotal
<1>5. Rank(S, p) \in Nat /\ Rank(S, p) < Cardinality(S)
  <2> HIDE DEF Below
  <2>1. Cardinality(Below(p)) \in Nat /\ Cardinality(Below(p)) < Cardinality(S)
      BY <1>2, <1>3, <1>4
  <2> QED
      BY <2>1 DEF Rank, Below
<1>6. ASSUME NEW r \in S, Before(p, r) PROVE Rank(S, p) < Rank(S, r)
  <2>1. Below(p) \subseteq Below(r) /\ p \in Below(r) /\ Below(r) \subseteq S
      BY <1>6, BeforeIsTotal
  <2> HIDE DEF Below
  <2>2. Cardinality(Below(p)) < Cardinality(Below(r))
      BY <1>3, <1>4, <2>1
  <2> QED
      BY <2>2 DEF Rank, Below
<1> QED
    BY <1>1, <1>5, <1>6

\* Every rank below the number of pixels is the rank of just one of them.
LEMMA RankIsOnto ==
    ASSUME NEW S, S \subseteq Pixels
    PROVE  /\ \A p, r \in S : Rank(S, p) = Rank(S, r) => p = r
           /\ \A k \in 1..Cardinality(S) : \E p \in S : Rank(S, p) = k - 1
<1> DEFINE n == Cardinality(S)
           f == [p \in S |-> Rank(S, p) + 1]
<1>1. IsFiniteSet(S) /\ n \in Nat
    BY PixelsFinite, FS_CardinalityType
<1>2. \A p \in S : Rank(S, p) \in 0..n - 1
    BY RankFact
<1>3. ASSUME NEW p \in S, NEW r \in S, Rank(S, p) = Rank(S, r) PROVE p = r
  <2>1. SUFFICES ASSUME p # r PROVE FALSE
      OBVIOUS
  <2>2. Before(p, r) \/ Before(r, p)
      BY <2>1, BeforeIsTotal
  <2>3. Rank(S, p) < Rank(S, r) \/ Rank(S, r) < Rank(S, p)
      BY <2>2, RankFact
  <2> QED
      BY <1>1, <1>2, <1>3, <2>3
<1>4. f \in [S -> 1..n]
    BY <1>1, <1>2
<1>5. \A p, r \in S : f[p] = f[r] => p = r
    BY <1>1, <1>2, <1>3
<1>6. IsFiniteSet(1..n) /\ Cardinality(1..n) = n
    BY <1>1, FS_Interval
<1> HIDE DEF n
<1>7. f \in Injection(S, 1..n)
    BY <1>4, <1>5 DEF Injection, IsInjective
<1>8. f \in Surjection(S, 1..n)
  <2> HIDE DEF f
  <2>1. Cardinality(S) = Cardinality(1..n)
      BY <1>6 DEF n
  <2> QED
      BY <1>6, <1>7, <2>1, FS_Injection
<1>9. ASSUME NEW k \in 1..n PROVE \E p \in S : Rank(S, p) = k - 1
  <2>1. PICK p \in S : f[p] = k
      BY <1>8 DEF Surjection
  <2> QED
      BY <1>1, <1>2, <2>1
<1> QED
    BY <1>3, <1>9 DEF n

LEMMA InOrderFact ==
    ASSUME NEW S, S \subseteq Pixels
    PROVE  InOrder(S) \in Seq(S) /\ Points(InOrder(S)) = S
<1> DEFINE n == Cardinality(S)
           At(k) == CHOOSE p \in S : Rank(S, p) = k - 1
<1>1. IsFiniteSet(S) /\ n \in Nat
    BY PixelsFinite, FS_CardinalityType
<1>2. InOrder(S) = [k \in 1..n |-> At(k)]
    BY DEF InOrder, Rank
<1>3. \A k \in 1..n : At(k) \in S /\ Rank(S, At(k)) = k - 1
    BY RankIsOnto
<1>4. ASSUME NEW p \in S PROVE \E k \in 1..n : At(k) = p
  <2>1. Rank(S, p) \in 0..n - 1
      BY RankFact
  <2>2. Rank(S, p) + 1 \in 1..n /\ (Rank(S, p) + 1) - 1 = Rank(S, p)
      BY <1>1, <2>1
  <2>3. At(Rank(S, p) + 1) = p
      BY <1>3, <2>2, RankIsOnto
  <2> QED
      BY <2>2, <2>3
<1> HIDE DEF n, At
<1>5. InOrder(S) \in Seq(S) /\ DOMAIN InOrder(S) = 1..n
    BY <1>1, <1>2, <1>3
<1>6. Points(InOrder(S)) = S
    BY <1>2, <1>3, <1>4, <1>5 DEF Points
<1> QED
    BY <1>5, <1>6

\* The pixel at which connectedC goes on.
LEMMA FirstFact ==
    ASSUME NEW S, S \subseteq Pixels, S # {}
    PROVE  (CHOOSE p \in S : \A r \in S \ {p} : Before(p, r)) \in S
<1>1. IsFiniteSet(S) /\ Cardinality(S) \in Nat /\ Cardinality(S) # 0
    BY PixelsFinite, FS_CardinalityType, FS_EmptySet
<1>2. PICK p \in S : Rank(S, p) = 1 - 1
    BY <1>1, RankIsOnto
<1>3. ASSUME NEW r \in S \ {p} PROVE Before(p, r)
  <2>1. ~Before(r, p)
    <3>1. Rank(S, r) \in 0..Cardinality(S) - 1
        BY RankFact
    <3>2. Before(r, p) => Rank(S, r) < Rank(S, p)
        BY RankFact
    <3> QED
        BY <1>1, <1>2, <3>1, <3>2
  <2> QED
      BY <2>1, BeforeIsTotal
<1> QED
    BY <1>3
-----------------------------------------------------------------------------
(* Connected sets of pixels.                                               *)

LEMMA AdjacentIsSymmetric ==
    ASSUME NEW p \in Pixels, NEW r \in Pixels, Adjacent(p, r)
    PROVE  Adjacent(r, p)
<1>1. p[1] \in Int /\ p[2] \in Int /\ r[1] \in Int /\ r[2] \in Int
    BY DEF Pixels
<1> QED
    BY <1>1 DEF Adjacent

LEMMA OnePixelIsConnected ==
    ASSUME NEW p
    PROVE  IsConnected({p})
<1>1. \A T \in SUBSET {p} : T = {} \/ T = {p}
    OBVIOUS
<1> QED
    BY <1>1 DEF IsConnected

\* A connected set stays connected when neighbours of one of its pixels join.
LEMMA NeighboursJoin ==
    ASSUME NEW S, S \subseteq Pixels, IsConnected(S), NEW p \in S,
           NEW R, R \subseteq Pixels, \A r \in R : Adjacent(p, r)
    PROVE  IsConnected(S \cup R)
<1>1. SUFFICES ASSUME NEW T, T \subseteq S \cup R, T # {}, T # S \cup R
               PROVE  \E x \in T, y \in (S \cup R) \ T : Adjacent(x, y)
    BY DEF IsConnected
<1>2. CASE T \cap S = {}
  <2>1. PICK x \in T : x \in R
      BY <1>1, <1>2
  <2>2. p \notin T /\ Adjacent(x, p)
      BY <1>2, <2>1, AdjacentIsSymmetric
  <2> QED
      BY <2>1, <2>2
<1>3. CASE S \subseteq T
  <2>1. PICK y \in R : y \notin T
      BY <1>1, <1>3
  <2> QED
      BY <1>3, <2>1
<1>4. CASE T \cap S # {} /\ ~(S \subseteq T)
  <2>1. T \cap S \in (SUBSET S) \ {{}, S}
      BY <1>4
  <2>2. PICK x \in T \cap S, y \in S \ (T \cap S) : Adjacent(x, y)
      BY <2>1 DEF IsConnected
  <2> QED
      BY <2>2
<1> QED
    BY <1>2, <1>3, <1>4
-----------------------------------------------------------------------------
(* connectedC and bfs.                                                     *)

TypeInv ==
    /\ diffs \in [Pixels -> 0..255]
    /\ index \in 0..MaxIndex
    /\ status \in [Pixels -> 0..2]
    /\ q \in Seq(Pixels) /\ result \in Seq(Pixels) /\ contours \in Seq(Seq(Pixels))
    /\ pc \in {"learn", "look", "nobody", "cut", "scan", "bfs", "pick", "centre", "filter",
               "sides", "done", "crashed"}

LEMMA TypeInit == Init => TypeInv
<1> SUFFICES ASSUME Init PROVE TypeInv
    OBVIOUS
<1>1. diffs \in [Pixels -> 0..255] /\ index \in 0..MaxIndex
    BY BodyAssumption DEF Init
<1>2. q = <<>> /\ result = <<>> /\ contours = <<>> /\ pc = "learn"
    BY DEF Init
<1>3. status \in [Pixels -> 0..2]
    BY DEF Init
<1>4. q \in Seq(Pixels) /\ result \in Seq(Pixels) /\ contours \in Seq(Seq(Pixels))
    BY <1>2
<1> QED
    BY <1>1, <1>2, <1>3, <1>4 DEF TypeInv

LEMMA MaskedFact == Masked(index) \subseteq Pixels
BY DEF Masked

LEMMA TypeStep ==
    ASSUME TypeInv, [Next]_vars
    PROVE  TypeInv'
<1> USE DEF TypeInv
<1>1. CASE UNCHANGED vars
    BY <1>1 DEF vars
<1>2. CASE Learn
    BY <1>2, BodyAssumption DEF Learn
<1>3. CASE Look
    BY <1>3 DEF Look, bvars
<1>4. CASE Cut
    BY <1>4 DEF Cut, bvars
<1>5. CASE Scan
  <2> DEFINE unseen == {p \in Masked(index) : status[p] = 0}
             first == CHOOSE p \in unseen : \A r \in unseen \ {p} : Before(p, r)
  <2>1. CASE unseen = {}
      BY <1>5, <2>1 DEF Scan
  <2>2. CASE unseen # {}
    <3>1. unseen \subseteq Pixels
        BY MaskedFact
    <3>2. first \in Pixels
      <4> HIDE DEF unseen
      <4> QED
          BY <2>2, <3>1, FirstFact
    <3>3. /\ q' = <<first>> /\ status' = [status EXCEPT ![first] = 1] /\ result' = <<>>
          /\ pc' = "bfs" /\ UNCHANGED <<diffs, index, contours>>
        BY <1>5, <2>2 DEF Scan
    <3> HIDE DEF first
    <3>4. q' \in Seq(Pixels) /\ result' \in Seq(Pixels) /\ status' \in [Pixels -> 0..2]
        BY <3>2, <3>3
    <3> QED
        BY <3>3, <3>4
  <2> QED
      BY <2>1, <2>2
<1>6. CASE Visit
  <2>1. Head(q) \in Pixels /\ Tail(q) \in Seq(Pixels)
      BY <1>6 DEF Visit
  <2>2. Reached(Head(q)) \subseteq Pixels
      BY MaskedFact DEF Reached
  <2>3. InOrder(Reached(Head(q))) \in Seq(Pixels)
    <3>1. InOrder(Reached(Head(q))) \in Seq(Reached(Head(q)))
        BY <2>2, InOrderFact
    <3> QED
        BY <2>2, <3>1
  <2>4. UNCHANGED <<diffs, index, contours, pc>>
      BY <1>6 DEF Visit
  <2>5. CASE status[Head(q)] = 1
    <3>1. /\ status' = [r \in Pixels |-> IF r = Head(q) THEN 2
                                         ELSE IF r \in Reached(Head(q)) THEN 1 ELSE status[r]]
          /\ result' = Append(result, Head(q))
          /\ q' = Tail(q) \o InOrder(Reached(Head(q)))
        BY <1>6, <2>5 DEF Visit
    <3>2. status' \in [Pixels -> 0..2]
        BY <3>1
    <3>3. result' \in Seq(Pixels) /\ q' \in Seq(Pixels)
        BY <2>1, <2>3, <3>1
    <3> QED
        BY <2>4, <3>2, <3>3
  <2>6. CASE status[Head(q)] # 1
    <3>1. q' = Tail(q) /\ UNCHANGED <<status, result>>
        BY <1>6, <2>6 DEF Visit
    <3> QED
        BY <2>1, <2>4, <3>1
  <2> QED
      BY <2>5, <2>6
<1>7. CASE Found
  <2>1. contours' \in Seq(Seq(Pixels))
      BY <1>7 DEF Found
  <2> QED
      BY <1>7, <2>1 DEF Found
<1>8. CASE Pick
  <2>1. index' \in 0..MaxIndex
      BY <1>8, BodyAssumption DEF Pick
  <2> QED
      BY <1>8, <2>1 DEF Pick
<1>9. CASE Centre \/ Filter \/ AssignSides
    BY <1>9 DEF Centre, Filter, AssignSides
<1> QED
    BY <1>1, <1>2, <1>3, <1>4, <1>5, <1>6, <1>7, <1>8, <1>9 DEF Next

\* A contour of the mask M: in one piece, every pixel once, and whatever
\* touches it is in it.
IsContour(c, M) ==
    /\ c \in Seq(M) /\ c # <<>>
    /\ \A i, j \in DOMAIN c : c[i] = c[j] => i = j
    /\ IsConnected(Points(c))
    /\ \A p \in Points(c), r \in M : Adjacent(p, r) => r \in Points(c)

\* The pixels of the contours of this cut.
InContours == UNION {Points(c) : c \in ToSet(contours)}

\* What bfs has reached: the pixels in the queue and those it has taken out.
Piece == {p \in Pixels : status[p] = 1} \cup Points(result)

ContoursOK ==
    /\ \A i \in DOMAIN contours : IsContour(contours[i], Masked(index))
    /\ \A i, j \in DOMAIN contours : i # j => Points(contours[i]) \cap Points(contours[j]) = {}

\* Between two runs of bfs: the pixels reached are those of the contours.
ScanOK == \A p \in Pixels : status[p] = IF p \in InContours THEN 2 ELSE 0

BfsOK ==
    /\ result \in Seq(Masked(index)) /\ q \in Seq(Masked(index))
    /\ \A p \in Pixels : status[p] = 2 <=> p \in InContours \cup Points(result)
    /\ InContours \cap Points(result) = {}
    /\ \A p \in Pixels : status[p] = 1 => p \in Points(q)
    /\ \A i, j \in DOMAIN result : result[i] = result[j] => i = j
    /\ Piece # {} /\ IsConnected(Piece)
    /\ \A p \in Points(result), r \in Masked(index) : Adjacent(p, r) => status[r] # 0

\* The inductive invariant of connectedC and bfs.
ComponentsInv ==
    /\ pc \in {"scan", "bfs", "pick", "centre"} => ContoursOK
    /\ pc = "scan" => ScanOK
    /\ pc = "bfs" => BfsOK
    /\ pc \in {"pick", "centre"} => InContours = Masked(index)
    /\ pc = "centre" => found_bodies = convert_contour_to_body(contours)

LEMMA ComponentsCut ==
    ASSUME TypeInv, Cut
    PROVE  ContoursOK' /\ ScanOK'
<1>1. contours' = <<>> /\ status' = [p \in Pixels |-> 0]
    BY DEF Cut
<1>2. DOMAIN contours' = {} /\ InContours' = {}
  <2>1. ToSet(contours') = {}
      BY <1>1 DEF ToSet
  <2> QED
      BY <1>1, <2>1 DEF InContours
<1>3. ContoursOK'
    BY <1>2 DEF ContoursOK
<1> QED
    BY <1>1, <1>2, <1>3 DEF ScanOK

\* Nothing the contours depend on has changed.
LEMMA ContoursUnchanged ==
    ASSUME UNCHANGED <<diffs, index, contours>>
    PROVE  /\ Masked(index)' = Masked(index) /\ InContours' = InContours
           /\ ContoursOK => ContoursOK'
           /\ convert_contour_to_body(contours)' = convert_contour_to_body(contours)
<1>1. Masked(index)' = Masked(index)
    BY DEF Masked
<1>2. InContours' = InContours
    BY DEF InContours
<1> QED
    BY <1>1, <1>2 DEF ContoursOK

LEMMA ComponentsScan ==
    ASSUME TypeInv, ContoursOK, ScanOK, Scan
    PROVE  /\ ContoursOK'
           /\ pc' = "bfs" => BfsOK'
           /\ pc' = "pick" => InContours' = Masked(index)'
           /\ pc' \in {"bfs", "pick"}
<1> DEFINE M == Masked(index)
           unseen == {p \in M : status[p] = 0}
           first == CHOOSE p \in unseen : \A r \in unseen \ {p} : Before(p, r)
<1>1. M' = M /\ InContours' = InContours /\ ContoursOK'
    BY ContoursUnchanged DEF Scan
<1>2. M \subseteq Pixels /\ InContours \subseteq M
  <2>1. ASSUME NEW i \in DOMAIN contours PROVE Points(contours[i]) \subseteq M
    <3>1. contours[i] \in Seq(M)
        BY DEF ContoursOK, IsContour
    <3> HIDE DEF M
    <3> QED
        BY <3>1 DEF Points
  <2> QED
      BY <2>1, MaskedFact DEF InContours, ToSet
<1>3. CASE unseen = {}
  <2>1. pc' = "pick"
      BY <1>3 DEF Scan
  <2>2. \A p \in M : p \in InContours
      BY <1>2, <1>3 DEF ScanOK
  <2> QED
      BY <1>1, <1>2, <2>1, <2>2
<1>4. CASE unseen # {}
  <2>1. first \in unseen
    <3>1. unseen \subseteq Pixels
        BY <1>2
    <3> HIDE DEF unseen
    <3> QED
        BY <1>4, <3>1, FirstFact
  <2>2. /\ q' = <<first>> /\ status' = [status EXCEPT ![first] = 1] /\ result' = <<>>
        /\ pc' = "bfs"
      BY <1>4 DEF Scan
  <2> HIDE DEF first
  <2>3. first \in M /\ first \in Pixels /\ status[first] = 0 /\ first \notin InContours
      BY <1>2, <2>1 DEF ScanOK
  <2>4. \A p \in Pixels : status'[p] = IF p = first THEN 1 ELSE IF p \in InContours THEN 2 ELSE 0
      BY <2>2, <2>3 DEF TypeInv, ScanOK
  <2>5. Points(result)' = {} /\ Points(q)' = {first}
    <3>1. DOMAIN <<first>> = {1} /\ <<first>>[1] = first
        OBVIOUS
    <3>2. DOMAIN result' = {}
        BY <2>2
    <3> QED
        BY <2>2, <3>1, <3>2 DEF Points
  <2>6. Piece' = {first}
      BY <2>3, <2>4, <2>5 DEF Piece
  <2>7. result' \in Seq(M') /\ q' \in Seq(M') /\ DOMAIN result' = {}
      BY <1>1, <2>2, <2>3
  <2> HIDE DEF M
  <2>8. BfsOK'
    <3>1. \A p \in Pixels : status'[p] = 2 <=> p \in InContours' \cup Points(result)'
        BY <1>1, <2>3, <2>4, <2>5
    <3>2. \A p \in Pixels : status'[p] = 1 => p \in Points(q)'
        BY <2>4, <2>5
    <3>3. Piece' # {} /\ IsConnected(Piece')
        BY <2>6, OnePixelIsConnected
    <3>4. result' \in Seq(Masked(index)') /\ q' \in Seq(Masked(index)')
        BY <2>7 DEF M
    <3> QED
        BY <2>5, <2>7, <3>1, <3>2, <3>3, <3>4 DEF BfsOK
  <2> QED
      BY <1>1, <2>2, <2>8
<1> QED
    BY <1>3, <1>4

LEMMA ComponentsVisit ==
    ASSUME TypeInv, ContoursOK, BfsOK, Visit
    PROVE  ContoursOK' /\ BfsOK' /\ pc' = "bfs"
<1> DEFINE M == Masked(index)
           p == Head(q)
           R == Reached(p)
<1>1. M' = M /\ InContours' = InContours /\ ContoursOK' /\ pc' = "bfs"
    BY ContoursUnchanged DEF Visit
<1>2. M \subseteq Pixels /\ R \subseteq M /\ R \subseteq Pixels
    BY MaskedFact DEF Reached
<1>3. /\ p \in M /\ p \in Pixels /\ Tail(q) \in Seq(M)
      /\ Points(q) = {p} \cup Points(Tail(q))
  <2>1. q \in Seq(M) /\ q # <<>>
      BY DEF BfsOK, Visit
  <2>2. p \in M /\ Tail(q) \in Seq(M) /\ Len(q) \in Nat /\ Len(q) > 0 /\ p = q[1]
        /\ Len(Tail(q)) = Len(q) - 1 /\ \A i \in 1..Len(Tail(q)) : Tail(q)[i] = q[i + 1]
        /\ DOMAIN q = 1..Len(q) /\ DOMAIN Tail(q) = 1..Len(Tail(q))
      BY <2>1
  <2>3. \A i \in DOMAIN q : i = 1 \/ (i - 1 \in DOMAIN Tail(q) /\ q[i] = Tail(q)[i - 1])
      BY <2>2
  <2>4. \A i \in DOMAIN Tail(q) : i + 1 \in DOMAIN q /\ Tail(q)[i] = q[i + 1]
      BY <2>2
  <2>5. 1 \in DOMAIN q
      BY <2>2
  <2> DEFINE t == Tail(q)
  <2>6. /\ \A i \in DOMAIN q : q[i] = p \/ \E j \in DOMAIN t : q[i] = t[j]
        /\ \A j \in DOMAIN t : \E i \in DOMAIN q : q[i] = t[j]
      BY <2>2, <2>3, <2>4
  <2>7. p \in M /\ t \in Seq(M) /\ q[1] = p
      BY <2>2
  <2> HIDE DEF t, p, M
  <2>8. Points(q) = {p} \cup Points(t)
      BY <2>5, <2>6, <2>7 DEF Points
  <2> QED
      BY <1>2, <2>7, <2>8 DEF t
<1>4. InOrder(R) \in Seq(M) /\ Points(InOrder(R)) = R
  <2>1. InOrder(R) \in Seq(R) /\ Points(InOrder(R)) = R
      BY <1>2, InOrderFact
  <2> QED
      BY <1>2, <2>1
<1>5. CASE status[p] # 1
  <2>1. q' = Tail(q) /\ status' = status /\ result' = result
      BY <1>5 DEF Visit
  <2>2. \A r \in Pixels : status[r] = 1 => r \in Points(Tail(q))
      BY <1>3, <1>5 DEF BfsOK
  <2>3. Points(result)' = Points(result) /\ Piece' = Piece /\ Points(q)' = Points(Tail(q))
      BY <2>1 DEF Points, Piece
  <2>4. q' \in Seq(M') /\ result' \in Seq(M')
      BY <1>1, <1>3, <2>1 DEF BfsOK
  <2>5. BfsOK'
      BY <1>1, <2>1, <2>2, <2>3, <2>4 DEF BfsOK
  <2> QED
      BY <1>1, <2>5
<1>6. CASE status[p] = 1
  <2>1. /\ status' = [r \in Pixels |-> IF r = p THEN 2 ELSE IF r \in R THEN 1 ELSE status[r]]
        /\ result' = Append(result, p)
        /\ q' = Tail(q) \o InOrder(R)
      BY <1>6 DEF Visit
  <2>2. result \in Seq(M) /\ p \notin InContours \cup Points(result)
    <3>1. result \in Seq(M) /\ (status[p] = 2 <=> p \in InContours \cup Points(result))
        BY <1>3 DEF BfsOK
    <3> QED
        BY <1>6, <3>1
  <2>3. /\ \A r \in R : status[r] = 0 /\ Adjacent(p, r) /\ r # p
        /\ \A r \in M : Adjacent(p, r) /\ status[r] = 0 => r \in R
      BY <1>6 DEF Reached
  <2>4. /\ Points(result)' = Points(result) \cup {p}
        /\ \A i, j \in DOMAIN result' : result'[i] = result'[j] => i = j
        /\ result' \in Seq(M)
    <3>1. /\ result' \in Seq(M) /\ Len(result) \in Nat
          /\ DOMAIN result = 1..Len(result) /\ DOMAIN result' = 1..Len(result) + 1
          /\ result'[Len(result) + 1] = p
          /\ \A i \in 1..Len(result) : result'[i] = result[i]
        BY <1>3, <2>1, <2>2
    <3>2. \A i \in DOMAIN result : result[i] # p
        BY <2>2 DEF Points
    <3>3. \A i, j \in DOMAIN result : result[i] = result[j] => i = j
        BY DEF BfsOK
    <3>4. Points(result)' = Points(result) \cup {p}
      <4>1. \A i \in DOMAIN result' : i \in DOMAIN result \/ i = Len(result) + 1
          BY <3>1
      <4>2. Len(result) + 1 \in DOMAIN result' /\ \A i \in DOMAIN result : i \in DOMAIN result'
          BY <3>1
      <4> QED
          BY <3>1, <4>1, <4>2 DEF Points
    <3>5. ASSUME NEW i \in DOMAIN result', NEW j \in DOMAIN result', result'[i] = result'[j]
          PROVE  i = j
      <4>1. CASE i \in DOMAIN result /\ j \in DOMAIN result
          BY <3>1, <3>3, <3>5, <4>1
      <4>2. CASE i = Len(result) + 1 \/ j = Len(result) + 1
          BY <3>1, <3>2, <3>5, <4>2
      <4> QED
          BY <3>1, <4>1, <4>2
    <3> QED
        BY <3>1, <3>4, <3>5
  <2>5. q' \in Seq(M) /\ Points(q)' = Points(Tail(q)) \cup R
    <3> DEFINE a == Tail(q)
               b == InOrder(R)
    <3>1. a \in Seq(M) /\ b \in Seq(M) /\ q' = a \o b /\ Points(b) = R
        BY <1>3, <1>4, <2>1
    <3> HIDE DEF a, b, M
    <3>2. /\ q' \in Seq(M) /\ Len(a) \in Nat /\ Len(b) \in Nat
          /\ DOMAIN q' = 1..Len(a) + Len(b) /\ DOMAIN a = 1..Len(a) /\ DOMAIN b = 1..Len(b)
          /\ \A i \in 1..Len(a) : q'[i] = a[i]
          /\ \A i \in 1..Len(b) : q'[Len(a) + i] = b[i]
        BY <3>1
    <3>3. \A i \in DOMAIN q' : q'[i] \in Points(a) \cup Points(b)
      <4> TAKE i \in DOMAIN q'
      <4>1. CASE i <= Len(a)
        <5>1. i \in DOMAIN a /\ q'[i] = a[i]
            BY <3>2, <4>1
        <5> QED
            BY <5>1 DEF Points
      <4>2. CASE ~(i <= Len(a))
        <5>1. i - Len(a) \in DOMAIN b /\ q'[Len(a) + (i - Len(a))] = b[i - Len(a)]
            BY <3>2, <4>2
        <5>2. Len(a) + (i - Len(a)) = i
            BY <3>2
        <5> QED
            BY <5>1, <5>2 DEF Points
      <4> QED
          BY <4>1, <4>2
    <3>4. \A i \in DOMAIN a : \E j \in DOMAIN q' : q'[j] = a[i]
        BY <3>2
    <3>5. \A i \in DOMAIN b : \E j \in DOMAIN q' : q'[j] = b[i]
      <4> TAKE i \in DOMAIN b
      <4>1. Len(a) + i \in DOMAIN q' /\ q'[Len(a) + i] = b[i]
          BY <3>2
      <4> QED
          BY <4>1
    <3>6. Points(q)' = Points(a) \cup Points(b)
        BY <3>3, <3>4, <3>5 DEF Points
    <3> QED
        BY <3>1, <3>2, <3>6 DEF a, b, M
  <2> HIDE DEF M, p, R
  <2>6. \A r \in Pixels : status'[r] = IF r = p THEN 2 ELSE IF r \in R THEN 1 ELSE status[r]
      BY <2>1
  <2>7. \A r \in Pixels : status'[r] = 2 <=> r \in InContours' \cup Points(result)'
    <3> TAKE r \in Pixels
    <3>1. status[r] = 2 <=> r \in InContours \cup Points(result)
        BY DEF BfsOK
    <3> QED
        BY <1>1, <2>3, <2>4, <2>6, <3>1
  <2>8. InContours' \cap Points(result)' = {}
      BY <1>1, <2>2, <2>4 DEF BfsOK
  <2>9. \A r \in Pixels : status'[r] = 1 => r \in Points(q)'
    <3> TAKE r \in Pixels
    <3>1. status[r] = 1 => r \in {p} \cup Points(Tail(q))
        BY <1>3 DEF BfsOK
    <3> QED
        BY <2>5, <2>6, <3>1
  <2>10. Piece' # {} /\ IsConnected(Piece')
    <3>1. Piece' = Piece \cup R
      <4>1. \A r \in Points(result) : status[r] = 2 /\ r \in Pixels
        <5>1. Points(result) \subseteq Pixels
            BY DEF TypeInv, Points
        <5> QED
            BY <5>1 DEF BfsOK
      <4> QED
          BY <1>2, <1>3, <1>6, <2>3, <2>4, <2>6, <4>1 DEF Piece
    <3>2. p \in Piece /\ Piece \subseteq Pixels
      <4>1. Points(result) \subseteq Pixels
          BY DEF TypeInv, Points
      <4> QED
          BY <1>3, <1>6, <4>1 DEF Piece
    <3>3. IsConnected(Piece)
        BY DEF BfsOK
    <3> QED
        BY <1>2, <2>3, <3>1, <3>2, <3>3, NeighboursJoin
  <2>11. \A u \in Points(result)', r \in M : Adjacent(u, r) => status'[r] # 0
    <3> TAKE u \in Points(result)', r \in M
    <3>1. CASE u = p
        BY <1>2, <2>3, <2>6, <3>1
    <3>2. CASE u \in Points(result)
      <4>1. Adjacent(u, r) => status[r] # 0
          BY <3>2 DEF BfsOK, M
      <4> QED
          BY <1>2, <2>6, <4>1
    <3> QED
        BY <2>4, <3>1, <3>2
  <2>12. M' = Masked(index)'
      BY DEF M
  <2>13. BfsOK'
      BY <1>1, <2>4, <2>5, <2>7, <2>8, <2>9, <2>10, <2>11, <2>12 DEF BfsOK
  <2> QED
      BY <1>1, <2>13
<1> QED
    BY <1>5, <1>6

LEMMA ComponentsFound ==
    ASSUME TypeInv, ContoursOK, BfsOK, Found
    PROVE  ContoursOK' /\ ScanOK' /\ pc' = "scan"
<1> DEFINE M == Masked(index)
           n == Len(contours)
<1>1. M' = M /\ M \subseteq Pixels /\ status' = status /\ pc' = "scan"
    BY MaskedFact DEF Found, Masked
<1>2. \A r \in Pixels : status[r] # 1
  <2>1. Points(q) = {}
      BY DEF Found, Points
  <2> QED
      BY <2>1 DEF BfsOK
<1>3. Piece = Points(result)
    BY <1>2 DEF Piece
<1>4. result # <<>> /\ result \in Seq(M) /\ Len(result) > 0 /\ Points(result) \subseteq M
  <2>1. result \in Seq(M) /\ Points(result) # {}
      BY <1>3 DEF BfsOK
  <2>2. Points(result) \subseteq M
      BY <2>1 DEF Points
  <2>3. result # <<>>
    <3>1. DOMAIN <<>> = {}
        OBVIOUS
    <3> QED
        BY <2>1, <3>1 DEF Points
  <2> QED
      BY <2>1, <2>2, <2>3
<1>5. contours' = Append(contours, result)
    BY <1>4 DEF Found
<1>6. /\ n \in Nat /\ DOMAIN contours = 1..n /\ DOMAIN contours' = 1..(n + 1)
      /\ contours'[n + 1] = result /\ \A i \in 1..n : contours'[i] = contours[i]
  <2>1. contours \in Seq(Seq(Pixels)) /\ result \in Seq(Pixels)
      BY DEF TypeInv
  <2> QED
      BY <1>5, <2>1
<1>7. InContours' = InContours \cup Points(result)
  <2>1. ToSet(contours') = ToSet(contours) \cup {result}
    <3>1. \A i \in DOMAIN contours' : i \in DOMAIN contours \/ i = n + 1
        BY <1>6
    <3>2. n + 1 \in DOMAIN contours' /\ \A i \in DOMAIN contours : i \in DOMAIN contours'
        BY <1>6
    <3> QED
        BY <1>6, <3>1, <3>2 DEF ToSet
  <2>2. InContours' = UNION {Points(c) : c \in ToSet(contours')}
      BY DEF InContours
  <2> QED
      BY <2>1, <2>2 DEF InContours
<1> HIDE DEF M, n
<1>8. IsContour(result, M)
  <2>1. ASSUME NEW u \in Points(result), NEW r \in M, Adjacent(u, r) PROVE r \in Points(result)
    <3>1. r \in Pixels /\ u \in Pixels /\ u \in M
        BY <1>1, <1>4, <2>1
    <3>2. status[r] # 0
        BY <2>1 DEF BfsOK, M
    <3>3. status[r] = 2
        BY <1>2, <3>1, <3>2 DEF TypeInv
    <3>4. r \notin InContours
      <4>1. SUFFICES ASSUME r \in InContours PROVE FALSE
          OBVIOUS
      <4>2. PICK i \in DOMAIN contours : r \in Points(contours[i])
          BY <4>1 DEF InContours, ToSet
      <4>3. Adjacent(r, u)
          BY <2>1, <3>1, AdjacentIsSymmetric
      <4>4. u \in Points(contours[i])
          BY <3>1, <4>2, <4>3 DEF ContoursOK, IsContour, M
      <4>5. u \in InContours
          BY <4>4 DEF InContours, ToSet
      <4> QED
          BY <4>5 DEF BfsOK
    <3> QED
        BY <3>1, <3>3, <3>4 DEF BfsOK
  <2>2. IsConnected(Points(result))
      BY <1>3 DEF BfsOK
  <2> QED
      BY <1>4, <2>1, <2>2 DEF IsContour, BfsOK
<1>9. \A i \in DOMAIN contours' : IsContour(contours'[i], M)
  <2>1. \A i \in 1..n : IsContour(contours[i], M)
      BY <1>6 DEF ContoursOK, M
  <2> TAKE i \in DOMAIN contours'
  <2>2. i \in 1..n \/ i = n + 1
      BY <1>6
  <2> QED
      BY <1>6, <1>8, <2>1, <2>2
<1>10. ASSUME NEW i \in DOMAIN contours', NEW j \in DOMAIN contours', i # j
       PROVE  Points(contours'[i]) \cap Points(contours'[j]) = {}
  <2>1. \A k \in 1..n : Points(contours'[k]) \subseteq InContours
      BY <1>6 DEF InContours, ToSet
  <2>2. InContours \cap Points(result) = {}
      BY DEF BfsOK
  <2>3. CASE i \in 1..n /\ j \in 1..n
      BY <1>6, <1>10, <2>3 DEF ContoursOK
  <2>4. CASE i \in 1..n /\ j = n + 1
      BY <1>6, <2>1, <2>2, <2>4
  <2>5. CASE i = n + 1 /\ j \in 1..n
      BY <1>6, <2>1, <2>2, <2>5
  <2> QED
      BY <1>6, <1>10, <2>3, <2>4, <2>5
<1>11. ContoursOK'
  <2>1. Masked(index)' = M
      BY <1>1 DEF M
  <2> QED
      BY <1>9, <1>10, <2>1 DEF ContoursOK
<1>12. ScanOK'
  <2>1. \A p \in Pixels : status[p] = 2 <=> p \in InContours'
      BY <1>7 DEF BfsOK
  <2>2. \A p \in Pixels : status[p] \in {0, 2}
      BY <1>2 DEF TypeInv
  <2> QED
      BY <1>1, <2>1, <2>2 DEF ScanOK
<1> QED
    BY <1>1, <1>11, <1>12

LEMMA ComponentsStep ==
    ASSUME TypeInv, ComponentsInv, [Next]_vars
    PROVE  ComponentsInv'
<1>1. CASE UNCHANGED vars
  <2>1. UNCHANGED <<diffs, index, contours, status, q, result, found_bodies, pc>>
      BY <1>1 DEF vars
  <2>2. Piece' = Piece
      BY <2>1 DEF Piece, Points
  <2> QED
      BY <2>1, <2>2, ContoursUnchanged DEF ComponentsInv, ScanOK, BfsOK
<1>2. CASE Learn \/ Look \/ Centre \/ Filter \/ AssignSides
  <2>1. pc' \notin {"scan", "bfs", "pick", "centre"}
    <3>1. CASE Learn
        BY <3>1 DEF Learn
    <3>2. CASE Look \/ Centre \/ Filter \/ AssignSides
        BY <3>2 DEF Look, Centre, Filter, AssignSides
    <3> QED
        BY <1>2, <3>1, <3>2
  <2> QED
      BY <2>1 DEF ComponentsInv
<1>3. CASE Cut
  <2>1. pc' = "scan"
      BY <1>3 DEF Cut
  <2> QED
      BY <1>3, <2>1, ComponentsCut DEF ComponentsInv
<1>4. CASE Scan
  <2>1. ContoursOK /\ ScanOK
      BY <1>4 DEF Scan, ComponentsInv
  <2> QED
      BY <1>4, <2>1, ComponentsScan DEF ComponentsInv
<1>5. CASE Visit
  <2>1. ContoursOK /\ BfsOK
      BY <1>5 DEF Visit, ComponentsInv
  <2> QED
      BY <1>5, <2>1, ComponentsVisit DEF ComponentsInv
<1>6. CASE Found
  <2>1. ContoursOK /\ BfsOK
      BY <1>6 DEF Found, ComponentsInv
  <2> QED
      BY <1>6, <2>1, ComponentsFound DEF ComponentsInv
<1>7. CASE Pick
  <2>1. /\ pc = "pick" /\ pc' \in {"done", "centre", "cut"} /\ UNCHANGED <<diffs, contours>>
        /\ pc' = "centre" => UNCHANGED index /\ found_bodies' = convert_contour_to_body(contours)
      BY <1>7 DEF Pick
  <2>2. CASE pc' = "centre"
      BY <2>1, <2>2, ContoursUnchanged DEF ComponentsInv
  <2>3. CASE pc' # "centre"
      BY <2>1, <2>3 DEF ComponentsInv
  <2> QED
      BY <2>2, <2>3
<1> QED
    BY <1>1, <1>2, <1>3, <1>4, <1>5, <1>6, <1>7 DEF Next

LEMMA PointsOfContour ==
    ASSUME NEW M, M \subseteq Pixels, NEW c, IsContour(c, M)
    PROVE  Cardinality(Points(c)) = Len(c) /\ Len(c) \in Nat \ {0} /\ Points(c) # {}
           /\ Points(c) \subseteq M /\ IsFiniteSet(Points(c))
<1>1. /\ c \in Seq(M) /\ Len(c) \in Nat \ {0} /\ DOMAIN c = 1..Len(c) /\ c \in [1..Len(c) -> M]
  <2>1. c \in Seq(M) /\ c # <<>>
      BY DEF IsContour
  <2> QED
      BY <2>1
<1>2. Points(c) \subseteq M /\ Points(c) # {} /\ c \in [1..Len(c) -> Points(c)]
    BY <1>1 DEF Points
<1>3. c \in Injection(1..Len(c), Points(c)) /\ c \in Surjection(1..Len(c), Points(c))
    BY <1>1, <1>2 DEF IsContour, Injection, IsInjective, Surjection, Points
<1>4. IsFiniteSet(1..Len(c)) /\ Cardinality(1..Len(c)) = Len(c)
    BY <1>1, FS_Interval
<1>5. ExistsBijection(1..Len(c), Points(c))
    BY <1>3 DEF ExistsBijection, Bijection
<1>6. IsFiniteSet(Points(c)) /\ Cardinality(Points(c)) = Len(c)
    BY <1>4, <1>5, FS_Bijection
<1> QED
    BY <1>1, <1>2, <1>6

\* For every frame and every mask, connectedC returns the connected components
\* (OccupancyCounter.cpp:1094-1161).
THEOREM ComponentsFoundByBfs == Spec => []ContoursAreComponents
<1>1. Init => TypeInv /\ ComponentsInv
    BY TypeInit DEF Init, ComponentsInv
<1>2. TypeInv /\ ComponentsInv /\ [Next]_vars => TypeInv' /\ ComponentsInv'
    BY TypeStep, ComponentsStep
<1>3. TypeInv /\ ComponentsInv => ContoursAreComponents
  <2>1. SUFFICES ASSUME TypeInv, ComponentsInv, pc = "pick"
                 PROVE  /\ UNION {Points(c) : c \in ToSet(contours)} = Masked(index)
                        /\ \A i \in DOMAIN contours :
                              /\ IsConnected(Points(contours[i]))
                              /\ Cardinality(Points(contours[i])) = Len(contours[i])
                              /\ \A j \in DOMAIN contours \ {i} : \A p \in Points(contours[i]) :
                                    \A r \in Points(contours[j]) : p # r /\ ~Adjacent(p, r)
      BY DEF ContoursAreComponents
  <2>2. ContoursOK /\ InContours = Masked(index)
      BY <2>1 DEF ComponentsInv
  <2>3. ASSUME NEW i \in DOMAIN contours
        PROVE  /\ IsConnected(Points(contours[i]))
               /\ Cardinality(Points(contours[i])) = Len(contours[i])
      BY <2>2, PointsOfContour, MaskedFact DEF ContoursOK, IsContour
  <2>4. ASSUME NEW i \in DOMAIN contours, NEW j \in DOMAIN contours \ {i},
               NEW p \in Points(contours[i]), NEW r \in Points(contours[j])
        PROVE  p # r /\ ~Adjacent(p, r)
    <3>1. Points(contours[i]) \cap Points(contours[j]) = {}
        BY <2>2 DEF ContoursOK
    <3>2. r \in Masked(index)
        BY <2>2, PointsOfContour, MaskedFact DEF ContoursOK
    <3>3. Adjacent(p, r) => r \in Points(contours[i])
        BY <2>2, <3>2 DEF ContoursOK, IsContour
    <3> QED
        BY <3>1, <3>3
  <2> QED
      BY <2>2, <2>3, <2>4 DEF InContours
<1> QED
    BY <1>1, <1>2, <1>3, PTL DEF Spec
-----------------------------------------------------------------------------
(* convert_contour_to_body: the fold over the contours.                    *)

LEMMA SegmentTop ==
    ASSUME NEW n \in Nat
    PROVE  /\ n + 1 \in 1..(n + 1) /\ (1..(n + 1)) \ {n + 1} = 1..n
           /\ \A I : I \subseteq 1..(n + 1) /\ n + 1 \in I => Max(I) = n + 1
<1>1. n + 1 \in 1..(n + 1) /\ (1..(n + 1)) \ {n + 1} = 1..n
    OBVIOUS
<1>2. ASSUME NEW I, I \subseteq 1..(n + 1), n + 1 \in I PROVE Max(I) = n + 1
  <2>1. \A i \in I : n + 1 >= i
      BY <1>2
  <2>2. Max(I) \in I /\ \A i \in I : Max(I) >= i
      BY <1>2, <2>1 DEF Max
  <2>3. Max(I) >= n + 1 /\ n + 1 >= Max(I) /\ Max(I) \in 1..(n + 1)
      BY <1>2, <2>1, <2>2
  <2> QED
      BY <2>3
<1> QED
    BY <1>1, <1>2

\* A set of naturals that has 0 and every successor has all of them.
LEMMA NatInduct ==
    ASSUME NEW P, 0 \in P, \A k \in Nat : k \in P => k + 1 \in P
    PROVE  \A k \in Nat : k \in P
<1> DEFINE Q == Nat \ P
           R == {p \in Nat \X Nat : p[1] < p[2]}
<1>1. SUFFICES ASSUME Q # {} PROVE FALSE
    OBVIOUS
<1>2. IsWellFoundedOn(R, Nat)
    BY NatLessThanWellFounded DEF OpToRel
<1>3. Q \subseteq Nat
    OBVIOUS
<1> HIDE DEF R
<1>4. PICK k \in Q : \A j \in Q : ~(<<j, k>> \in R)
    BY <1>1, <1>2, <1>3, WFMin
<1>5. k \in Nat /\ k # 0 /\ k - 1 \in Nat
    OBVIOUS
<1>6. <<k - 1, k>> \in R
    BY <1>5 DEF R
<1>7. k - 1 \in P
    BY <1>4, <1>5, <1>6
<1> QED
    BY <1>5, <1>7

Nobody == <<<<>>, <<>>>>

\* The two biggest contours among those of s with an index in I.
IsFoldOf(two, s, D) ==
    two = [I \in SUBSET D |->
              IF I = {} THEN Nobody ELSE Bigger(two[I \ {Max(I)}], s[Max(I)])]
Two(s) == CHOOSE two : IsFoldOf(two, s, DOMAIN s)

LEMMA FoldIsTwo ==
    ASSUME NEW s
    PROVE  FoldLeft(Bigger, Nobody, s) = Two(s)[DOMAIN s]
BY DEF FoldLeft, MapThenFoldSet, Two, IsFoldOf

LEMMA FoldExists ==
    ASSUME NEW s, NEW n \in Nat
    PROVE  \E two : IsFoldOf(two, s, 1..n)
<1> DEFINE P == {k \in Nat : \E two : IsFoldOf(two, s, 1..k)}
<1>1. 0 \in P
  <2> DEFINE z == [I \in SUBSET (1..0) |-> Nobody]
  <2>1. \A I \in SUBSET (1..0) : I = {}
      OBVIOUS
  <2>2. IsFoldOf(z, s, 1..0)
      BY <2>1 DEF IsFoldOf
  <2> QED
      BY <2>2
<1>2. ASSUME NEW k \in Nat, k \in P PROVE k + 1 \in P
  <2>1. PICK g : IsFoldOf(g, s, 1..k)
      BY <1>2
  <2> DEFINE h == [I \in SUBSET (1..(k + 1)) |->
                      IF k + 1 \notin I THEN g[I] ELSE Bigger(g[I \ {k + 1}], s[k + 1])]
  <2>2. ASSUME NEW I \in SUBSET (1..(k + 1))
        PROVE  h[I] = IF I = {} THEN Nobody ELSE Bigger(h[I \ {Max(I)}], s[Max(I)])
    <3>1. CASE k + 1 \in I
      <4>1. Max(I) = k + 1
          BY <3>1, SegmentTop
      <4>2. I \ {k + 1} \in SUBSET (1..(k + 1)) /\ k + 1 \notin I \ {k + 1}
          OBVIOUS
      <4>3. h[I \ {k + 1}] = g[I \ {k + 1}]
          BY <4>2
      <4>4. h[I] = Bigger(g[I \ {k + 1}], s[k + 1])
          BY <3>1
      <4> HIDE DEF h
      <4> QED
          BY <4>1, <4>3, <4>4, <3>1
    <3>2. CASE k + 1 \notin I
      <4>1. I \in SUBSET (1..k)
          BY <3>2
      <4>2. h[I] = g[I]
          BY <3>2
      <4>3. g[I] = IF I = {} THEN Nobody ELSE Bigger(g[I \ {Max(I)}], s[Max(I)])
          BY <2>1, <4>1 DEF IsFoldOf
      <4>4. I \ {Max(I)} \in SUBSET (1..(k + 1)) /\ k + 1 \notin I \ {Max(I)}
          BY <3>2
      <4>5. h[I \ {Max(I)}] = g[I \ {Max(I)}]
          BY <4>4
      <4> HIDE DEF h
      <4> QED
          BY <4>2, <4>3, <4>5
    <3> QED
        BY <3>1, <3>2
  <2>3. h = [I \in SUBSET (1..(k + 1)) |-> h[I]]
      OBVIOUS
  <2> HIDE DEF h
  <2>4. IsFoldOf(h, s, 1..(k + 1))
      BY <2>2, <2>3 DEF IsFoldOf
  <2> QED
      BY <2>4
<1> HIDE DEF P
<1>3. n \in P
    BY <1>1, <1>2, NatInduct
<1> QED
    BY <1>3 DEF P

\* Contours that are not empty and of which no two are the same.
Distinct(s) ==
    /\ s \in Seq(Seq(Pixels))
    /\ \A i \in DOMAIN s : s[i] # <<>>
    /\ \A i, j \in DOMAIN s : i # j => s[i] # s[j]

\* Whether a and b are the two biggest of the first k contours of s.
Biggest(a, b, s, k) ==
    /\ a = <<>> \/ (~Small(a) /\ \E i \in 1..k : a = s[i])
    /\ b = <<>> \/ (~Small(b) /\ b # a /\ \E i \in 1..k : b = s[i])
    /\ Len(b) <= Len(a)
    /\ \A i \in 1..k : Small(s[i]) \/ s[i] \in {a, b} \/ Len(s[i]) <= Len(b)

LEMMA BiggestStep ==
    ASSUME NEW s, Distinct(s), NEW k \in Nat, k + 1 <= Len(s),
           NEW a, NEW b, Biggest(a, b, s, k)
    PROVE  \E u, v : Bigger(<<a, b>>, s[k + 1]) = <<u, v>> /\ Biggest(u, v, s, k + 1)
<1> DEFINE c == s[k + 1]
           D == DOMAIN s
<1>1. /\ k + 1 \in D /\ 1..k \subseteq D /\ k + 1 \notin 1..k /\ 1..(k + 1) = (1..k) \cup {k + 1}
      /\ \A i \in D : s[i] \in Seq(Pixels)
  <2>1. s \in Seq(Seq(Pixels))
      BY DEF Distinct
  <2>2. D = 1..Len(s) /\ Len(s) \in Nat /\ \A i \in D : s[i] \in Seq(Pixels)
      BY <2>1
  <2> QED
      BY <2>2
<1>2. \A i \in 1..k : s[i] # c
    BY <1>1 DEF Distinct
<1>3. c \in Seq(Pixels) /\ c # <<>>
    BY <1>1 DEF Distinct
<1>4. Len(<<>>) = 0
    OBVIOUS
<1>5. Len(c) \in Nat /\ Len(c) > 0
    BY <1>3
<1>6. Len(a) \in Nat /\ Len(b) \in Nat /\ Len(b) <= Len(a) /\ c # a /\ c # b
  <2>1. a = <<>> \/ a \in Seq(Pixels)
      BY <1>1 DEF Biggest
  <2>2. b = <<>> \/ b \in Seq(Pixels)
      BY <1>1 DEF Biggest
  <2>3. Len(a) \in Nat /\ Len(b) \in Nat
      BY <1>4, <2>1, <2>2
  <2> QED
      BY <1>2, <1>3, <2>3 DEF Biggest
<1>7. \A i \in 1..k : Len(s[i]) \in Nat
    BY <1>1
<1> DEFINE two == <<a, b>>
<1>8. two[1] = a /\ two[2] = b
    OBVIOUS
<1> HIDE DEF two, D
<1>9. CASE Small(c)
  <2>1. Bigger(two, c) = two
      BY <1>9 DEF Bigger
  <2>2. Biggest(a, b, s, k + 1)
      BY <1>1, <1>9 DEF Biggest
  <2> QED
      BY <2>1, <2>2 DEF two
<1>10. CASE ~Small(c) /\ Len(c) > Len(a)
  <2>1. Bigger(two, c) = <<c, a>>
      BY <1>8, <1>10 DEF Bigger
  <2>2. ASSUME NEW i \in 1..(k + 1)
        PROVE  Small(s[i]) \/ s[i] \in {c, a} \/ Len(s[i]) <= Len(a)
    <3>1. CASE i = k + 1
        BY <3>1
    <3>2. CASE i \in 1..k
      <4>1. Small(s[i]) \/ s[i] = a \/ s[i] = b \/ Len(s[i]) <= Len(b)
          BY <3>2 DEF Biggest
      <4> QED
          BY <1>6, <1>7, <3>2, <4>1
    <3> QED
        BY <1>1, <3>1, <3>2
  <2>3. Biggest(c, a, s, k + 1)
    <3>1. a = <<>> \/ (~Small(a) /\ a # c /\ \E i \in 1..(k + 1) : a = s[i])
        BY <1>1, <1>6 DEF Biggest
    <3>2. Len(a) <= Len(c)
        BY <1>5, <1>6, <1>10
    <3> QED
        BY <1>1, <1>10, <2>2, <3>1, <3>2 DEF Biggest
  <2> QED
      BY <2>1, <2>3 DEF two
<1>11. CASE ~Small(c) /\ ~(Len(c) > Len(a)) /\ Len(c) > Len(b)
  <2>1. Bigger(two, c) = <<a, c>>
      BY <1>8, <1>11 DEF Bigger
  <2>2. ASSUME NEW i \in 1..(k + 1)
        PROVE  Small(s[i]) \/ s[i] \in {a, c} \/ Len(s[i]) <= Len(c)
    <3>1. CASE i = k + 1
        BY <3>1
    <3>2. CASE i \in 1..k
      <4>1. Small(s[i]) \/ s[i] = a \/ s[i] = b \/ Len(s[i]) <= Len(b)
          BY <3>2 DEF Biggest
      <4> QED
          BY <1>5, <1>6, <1>7, <1>11, <3>2, <4>1
    <3> QED
        BY <1>1, <3>1, <3>2
  <2>3. Biggest(a, c, s, k + 1)
    <3>1. a = <<>> \/ (~Small(a) /\ \E i \in 1..(k + 1) : a = s[i])
        BY <1>1 DEF Biggest
    <3>2. Len(c) <= Len(a)
        BY <1>5, <1>6, <1>11
    <3> QED
        BY <1>1, <1>6, <1>11, <2>2, <3>1, <3>2 DEF Biggest
  <2> QED
      BY <2>1, <2>3 DEF two
<1>12. CASE ~Small(c) /\ ~(Len(c) > Len(a)) /\ ~(Len(c) > Len(b))
  <2>1. Bigger(two, c) = two
      BY <1>8, <1>12 DEF Bigger
  <2>2. Len(c) <= Len(b)
      BY <1>5, <1>6, <1>12
  <2>3. Biggest(a, b, s, k + 1)
      BY <1>1, <2>2 DEF Biggest
  <2> QED
      BY <2>1, <2>3 DEF two
<1> QED
    BY <1>9, <1>10, <1>11, <1>12

LEMMA FoldIsBiggest ==
    ASSUME NEW s, Distinct(s)
    PROVE  \E a, b : FoldLeft(Bigger, Nobody, s) = <<a, b>> /\ Biggest(a, b, s, Len(s))
<1> DEFINE n == Len(s)
           f == Two(s)
<1>1. n \in Nat /\ DOMAIN s = 1..n
    BY DEF Distinct
<1>2. IsFoldOf(f, s, 1..n)
  <2>1. \E two : IsFoldOf(two, s, 1..n)
      BY <1>1, FoldExists
  <2> QED
      BY <1>1, <2>1 DEF Two
<1> HIDE DEF f
<1> DEFINE D == 1..n
<1> HIDE DEF D
<1>3. \A I \in SUBSET D :
           f[I] = IF I = {} THEN Nobody ELSE Bigger(f[I \ {Max(I)}], s[Max(I)])
    BY <1>2 DEF IsFoldOf, D
<1> DEFINE P == {k \in Nat : k <= n =>
                    \E a, b : f[1..k] = <<a, b>> /\ Biggest(a, b, s, k)}
<1>4. 0 \in P
  <2>1. 1..0 = {} /\ {} \subseteq 1..n /\ Len(<<>>) <= Len(<<>>)
      OBVIOUS
  <2>2. f[1..0] = Nobody
      BY <1>3, <2>1
  <2>3. Biggest(<<>>, <<>>, s, 0)
      BY <2>1 DEF Biggest
  <2> QED
      BY <2>2, <2>3 DEF Nobody
<1>5. ASSUME NEW k \in Nat, k \in P PROVE k + 1 \in P
  <2>1. SUFFICES ASSUME k + 1 <= n
                 PROVE  \E u, v : f[1..(k + 1)] = <<u, v>> /\ Biggest(u, v, s, k + 1)
      OBVIOUS
  <2>2. k <= n
      BY <1>1, <2>1
  <2>3. PICK a, b : f[1..k] = <<a, b>> /\ Biggest(a, b, s, k)
      BY <1>5, <2>2
  <2> DEFINE J == 1..(k + 1)
  <2>4. Max(J) = k + 1 /\ J # {} /\ J \ {k + 1} = 1..k
      BY SegmentTop
  <2>5. J \in SUBSET D
      BY <1>1, <2>1 DEF D
  <2> HIDE DEF J, n
  <2>6. f[J] = Bigger(f[1..k], s[k + 1])
    <3>1. f[J] = IF J = {} THEN Nobody ELSE Bigger(f[J \ {Max(J)}], s[Max(J)])
        BY <1>3, <2>5
    <3> QED
        BY <2>4, <3>1
  <2>7. \E u, v : Bigger(<<a, b>>, s[k + 1]) = <<u, v>> /\ Biggest(u, v, s, k + 1)
      BY <2>1, <2>3, BiggestStep DEF n
  <2> QED
      BY <2>3, <2>6, <2>7 DEF J
<1> HIDE DEF P
<1>6. n \in P
    BY <1>1, <1>4, <1>5, NatInduct
<1>7. n <= n
    BY <1>1
<1>8. \E a, b : f[1..n] = <<a, b>> /\ Biggest(a, b, s, n)
    BY <1>6, <1>7 DEF P
<1> QED
    BY <1>1, <1>8, FoldIsTwo DEF f

\* The bodies made of the two biggest contours a and b.
BodiesOf(f, a, b) ==
    /\ a = <<>> => DOMAIN f = {} /\ Len(f) = 0
    /\ a # <<>> /\ b = <<>> => DOMAIN f = {1} /\ Len(f) = 1 /\ f[1] = Body(a) /\ f[1].contour = a
    /\ b # <<>> => /\ a # <<>> /\ DOMAIN f = {1, 2} /\ Len(f) = 2
                   /\ f[1].contour = a /\ f[2].contour = b

LEMMA LengthOfFunction ==
    ASSUME NEW f, NEW n \in Nat, f = [i \in 1..n |-> f[i]]
    PROVE  DOMAIN f = 1..n /\ Len(f) = n
<1> DEFINE S == {f[i] : i \in 1..n}
<1>1. f \in [1..n -> S] /\ DOMAIN f = 1..n
    OBVIOUS
<1> HIDE DEF S
<1>2. f \in Seq(S)
    BY <1>1
<1> QED
    BY <1>1, <1>2

LEMMA CardinalityOfTwo ==
    ASSUME NEW x, NEW y, x # y
    PROVE  Cardinality({x} \cup {y}) = 2
<1>1. IsFiniteSet({x}) /\ Cardinality({x}) = 1 /\ y \notin {x}
    BY FS_Singleton
<1> QED
    BY <1>1, FS_AddElement

LEMMA BodiesFact ==
    ASSUME NEW s, Distinct(s)
    PROVE  \E a, b : /\ Biggest(a, b, s, Len(s))
                     /\ BodiesOf(convert_contour_to_body(s), a, b)
<1>1. PICK a, b : FoldLeft(Bigger, Nobody, s) = <<a, b>> /\ Biggest(a, b, s, Len(s))
    BY FoldIsBiggest
<1> DEFINE two == <<a, b>>
           inhabited == {i \in 1..2 : Len(two[i]) > 0}
           big == Cardinality(inhabited)
           f == [i \in 1..big |-> Body(two[i])]
<1>2. convert_contour_to_body(s) = f
    BY <1>1 DEF convert_contour_to_body, Nobody
<1>3. two[1] = a /\ two[2] = b
    OBVIOUS
<1> DEFINE Bodies(n) == [i \in 1..n |-> Body(two[i])]
<1>4. ASSUME NEW n \in Nat
       PROVE  /\ DOMAIN Bodies(n) = 1..n /\ Len(Bodies(n)) = n
              /\ \A i \in 1..n : Bodies(n)[i] = Body(two[i])
  <2> DEFINE g == Bodies(n)
  <2>1. g = [i \in 1..n |-> g[i]]
      OBVIOUS
  <2> HIDE DEF g
  <2>2. DOMAIN g = 1..n /\ Len(g) = n
      BY <2>1, LengthOfFunction
  <2> QED
      BY <2>2 DEF g
<1>5. f = Bodies(big)
    OBVIOUS
<1> HIDE DEF Bodies, f
<1>6. /\ Len(a) \in Nat /\ Len(b) \in Nat /\ Len(b) <= Len(a)
      /\ (a = <<>> <=> Len(a) = 0) /\ (b = <<>> <=> Len(b) = 0)
  <2>1. \A i \in 1..Len(s) : s[i] \in Seq(Pixels)
      BY DEF Distinct
  <2>2. (a = <<>> \/ a \in Seq(Pixels)) /\ (b = <<>> \/ b \in Seq(Pixels))
      BY <1>1, <2>1 DEF Biggest
  <2>3. Len(<<>>) = 0 /\ \A c \in Seq(Pixels) : Len(c) \in Nat /\ (c = <<>> <=> Len(c) = 0)
      OBVIOUS
  <2> QED
      BY <1>1, <2>2, <2>3 DEF Biggest
<1> HIDE DEF two
<1>7. inhabited = {i \in {1, 2} : IF i = 1 THEN Len(a) > 0 ELSE Len(b) > 0}
  <2>1. 1..2 = {1, 2}
      OBVIOUS
  <2> QED
      BY <1>3, <2>1
<1>8. \A c : Body(c).contour = c
    BY DEF Body
<1>9. CASE a = <<>>
  <2>1. Len(a) = 0 /\ Len(b) = 0
      BY <1>6, <1>9
  <2>2. inhabited = {}
      BY <1>7, <2>1
  <2>3. big = 0
      BY <2>2, FS_EmptySet
  <2>4. DOMAIN f = {} /\ Len(f) = 0 /\ b = <<>>
    <3>1. 1..0 = {} /\ 0 \in Nat
        OBVIOUS
    <3>2. DOMAIN Bodies(0) = 1..0 /\ Len(Bodies(0)) = 0
        BY <1>4, <3>1
    <3> HIDE DEF big
    <3>3. f = Bodies(0)
        BY <1>5, <2>3
    <3> QED
        BY <1>6, <2>1, <3>1, <3>2, <3>3
  <2> QED
      BY <1>1, <1>2, <1>9, <2>4 DEF BodiesOf
<1>10. CASE a # <<>> /\ b = <<>>
  <2>1. inhabited = {1}
      BY <1>6, <1>7, <1>10
  <2>2. big = 1
      BY <2>1, FS_Singleton
  <2>3. DOMAIN f = {1} /\ Len(f) = 1 /\ f[1] = Body(a)
    <3>1. 1..1 = {1} /\ 1 \in Nat
        OBVIOUS
    <3>2. /\ DOMAIN Bodies(1) = 1..1 /\ Len(Bodies(1)) = 1
          /\ \A i \in 1..1 : Bodies(1)[i] = Body(two[i])
        BY <1>4, <3>1
    <3> HIDE DEF big
    <3>3. f = Bodies(1)
        BY <1>5, <2>2
    <3> QED
        BY <1>3, <3>1, <3>2, <3>3
  <2> QED
      BY <1>1, <1>2, <1>8, <1>10, <2>3 DEF BodiesOf
<1>11. CASE b # <<>>
  <2>1. inhabited = {1, 2} /\ a # <<>>
      BY <1>6, <1>7, <1>11
  <2>2. big = 2
    <3>1. 1 # 2
        OBVIOUS
    <3>2. Cardinality({1} \cup {2}) = 2
        BY <3>1, CardinalityOfTwo
    <3>3. inhabited = {1} \cup {2}
        BY <2>1
    <3> QED
        BY <3>2, <3>3, Zenon
  <2>3. DOMAIN f = {1, 2} /\ Len(f) = 2 /\ f[1] = Body(a) /\ f[2] = Body(b)
    <3>1. 1..2 = {1, 2} /\ 2 \in Nat
        OBVIOUS
    <3>2. /\ DOMAIN Bodies(2) = 1..2 /\ Len(Bodies(2)) = 2
          /\ \A i \in 1..2 : Bodies(2)[i] = Body(two[i])
        BY <1>4, <3>1
    <3> HIDE DEF big
    <3>3. f = Bodies(2)
        BY <1>5, <2>2
    <3> QED
        BY <1>3, <3>1, <3>2, <3>3
  <2> QED
      BY <1>1, <1>2, <1>8, <1>11, <2>1, <2>3 DEF BodiesOf
<1> QED
    BY <1>9, <1>10, <1>11

LEMMA ContoursDistinct ==
    ASSUME TypeInv, ContoursOK
    PROVE  Distinct(contours)
<1>1. contours \in Seq(Seq(Pixels))
    BY DEF TypeInv
<1>2. \A i \in DOMAIN contours : contours[i] # <<>> /\ Points(contours[i]) # {}
    BY MaskedFact, PointsOfContour DEF ContoursOK, IsContour
<1>3. \A i, j \in DOMAIN contours : i # j => contours[i] # contours[j]
    BY <1>2 DEF ContoursOK
<1> QED
    BY <1>1, <1>2, <1>3 DEF Distinct

\* Of the contours of every frame the two biggest are taken
\* (OccupancyCounter.cpp:1017-1048).
THEOREM BiggestAreTaken == Spec => []BodiesAreTheBiggest
<1>1. Init => TypeInv /\ ComponentsInv
    BY TypeInit DEF Init, ComponentsInv
<1>2. TypeInv /\ ComponentsInv /\ [Next]_vars => TypeInv' /\ ComponentsInv'
    BY TypeStep, ComponentsStep
<1>3. TypeInv /\ ComponentsInv => BodiesAreTheBiggest
  <2> DEFINE taken == {b.contour : b \in ToSet(found_bodies)}
             fit == {c \in ToSet(contours) : ~Small(c)}
  <2>1. SUFFICES ASSUME TypeInv, ComponentsInv, pc = "centre"
                 PROVE  /\ taken \subseteq fit
                        /\ Len(found_bodies) = Cardinality(taken)
                        /\ fit \ taken # {} => Len(found_bodies) = 2
                        /\ \A c \in taken, d \in fit \ taken : Len(d) <= Len(c)
                        /\ Len(found_bodies) = 2 =>
                             Len(found_bodies[1].contour) >= Len(found_bodies[2].contour)
      BY DEF BodiesAreTheBiggest
  <2>2. Distinct(contours) /\ found_bodies = convert_contour_to_body(contours)
      BY <2>1, ContoursDistinct DEF ComponentsInv
  <2>3. PICK a, b : Biggest(a, b, contours, Len(contours)) /\ BodiesOf(found_bodies, a, b)
      BY <2>2, BodiesFact
  <2>4. /\ ToSet(contours) = {contours[i] : i \in 1..Len(contours)}
        /\ \A c \in ToSet(contours) : Len(c) \in Nat /\ Len(c) # 0
    <3>1. contours \in Seq(Seq(Pixels)) /\ \A i \in DOMAIN contours : contours[i] # <<>>
        BY <2>2 DEF Distinct
    <3>2. DOMAIN contours = 1..Len(contours)
        BY <3>1
    <3>3. \A c \in Seq(Pixels) : Len(c) \in Nat /\ (c # <<>> => Len(c) # 0)
        OBVIOUS
    <3> QED
        BY <3>1, <3>2, <3>3 DEF ToSet
  <2>5. a \in fit \cup {<<>>} /\ b \in fit \cup {<<>>} /\ (b # <<>> => b # a)
      BY <2>3, <2>4 DEF Biggest
  <2>6. Len(b) <= Len(a) /\ \A c \in fit : c \in {a, b} \/ Len(c) <= Len(b)
      BY <2>3, <2>4 DEF Biggest
  <2>7. \A c \in fit : Len(c) \in Nat /\ Len(c) # 0 /\ c # <<>>
    <3>1. Len(<<>>) = 0
        OBVIOUS
    <3> QED
        BY <2>4, <3>1
  <2>8. taken = {found_bodies[i].contour : i \in DOMAIN found_bodies}
      BY DEF ToSet
  <2> HIDE DEF taken, fit
  <2>9. Len(<<>>) = 0
      OBVIOUS
  <2>10. CASE a = <<>>
    <3>1. taken = {} /\ Len(found_bodies) = 0 /\ b = <<>>
      <4>1. taken = {} /\ Len(found_bodies) = 0
          BY <2>3, <2>8, <2>10 DEF BodiesOf
      <4>2. b \in fit => Len(b) \in Nat /\ Len(b) # 0
          BY <2>7
      <4> QED
          BY <2>5, <2>6, <2>9, <2>10, <4>1, <4>2
    <3>2. fit = {}
      <4>1. \A c \in fit : Len(c) <= 0
          BY <2>6, <2>7, <2>9, <2>10, <3>1
      <4> QED
          BY <2>7, <4>1
    <3> QED
        BY <3>1, <3>2, FS_EmptySet
  <2>11. CASE a # <<>> /\ b = <<>>
    <3>1. taken = {a} /\ Len(found_bodies) = 1 /\ a \in fit
        BY <2>3, <2>5, <2>8, <2>11 DEF BodiesOf
    <3>2. fit \ taken = {}
      <4>1. \A c \in fit : c = a \/ Len(c) <= 0
          BY <2>6, <2>7, <2>9, <2>11
      <4> QED
          BY <2>7, <3>1, <4>1
    <3>3. Cardinality(taken) = 1
        BY <3>1, FS_Singleton
    <3> QED
        BY <3>1, <3>2, <3>3
  <2>12. CASE b # <<>>
    <3>1. /\ taken = {a, b} /\ Len(found_bodies) = 2 /\ a \in fit /\ b \in fit /\ a # b
          /\ found_bodies[1].contour = a /\ found_bodies[2].contour = b
        BY <2>3, <2>5, <2>8, <2>12 DEF BodiesOf
    <3>2. Cardinality(taken) = 2
      <4>1. Cardinality({a} \cup {b}) = 2
          BY <3>1, CardinalityOfTwo
      <4>2. taken = {a} \cup {b}
          BY <3>1
      <4> QED
          BY <4>1, <4>2, Zenon
    <3>3. \A c \in taken, d \in fit \ taken : Len(d) <= Len(c)
      <4>1. \A d \in fit \ taken : Len(d) <= Len(b) /\ Len(d) \in Nat
          BY <2>6, <2>7, <3>1
      <4>2. Len(a) \in Nat /\ Len(b) \in Nat
          BY <2>7, <3>1
      <4> QED
          BY <2>6, <3>1, <4>1, <4>2
    <3>4. Len(found_bodies[1].contour) >= Len(found_bodies[2].contour)
        BY <2>6, <2>7, <3>1
    <3> QED
        BY <3>1, <3>2, <3>3, <3>4
  <2> QED
      BY <2>10, <2>11, <2>12
<1> QED
    BY <1>1, <1>2, <1>3, PTL DEF Spec
-----------------------------------------------------------------------------
(* extract_body: the cut at which it stops.                                *)

\* With a finished mask, Components has just the contours.
LEMMA ComponentsAreContours ==
    ASSUME ContoursOK, InContours = Masked(index)
    PROVE  Components(index) = {Points(contours[i]) : i \in DOMAIN contours}
<1> DEFINE M == Masked(index)
<1>1. ASSUME NEW i \in DOMAIN contours PROVE Points(contours[i]) \in Components(index)
  <2> DEFINE P == Points(contours[i])
  <2>1. IsContour(contours[i], M)
      BY DEF ContoursOK
  <2>2. P \subseteq M /\ P # {}
      BY <2>1, MaskedFact, PointsOfContour
  <2>3. IsConnected(P) /\ \A p \in P, r \in M : Adjacent(p, r) => r \in P
      BY <2>1 DEF IsContour
  <2> HIDE DEF P
  <2>4. P \in Components(index)
      BY <2>2, <2>3 DEF Components
  <2> QED
      BY <2>4 DEF P
<1>2. ASSUME NEW S \in Components(index)
      PROVE  \E i \in DOMAIN contours : S = Points(contours[i])
  <2>1. /\ S \subseteq M /\ S # {} /\ IsConnected(S)
        /\ \A p \in S, r \in M \ S : ~Adjacent(p, r)
      BY DEF Components
  <2>2. PICK x \in S : TRUE
      BY <2>1
  <2>3. PICK i \in DOMAIN contours : x \in Points(contours[i])
      BY <2>1, <2>2 DEF InContours, ToSet
  <2> DEFINE P == Points(contours[i])
             T == S \cap P
  <2>4. IsContour(contours[i], M)
      BY DEF ContoursOK
  <2>5. P \subseteq M
      BY <2>4, MaskedFact, PointsOfContour
  <2>6. IsConnected(P) /\ \A p \in P, r \in M : Adjacent(p, r) => r \in P
      BY <2>4 DEF IsContour
  <2>7. x \in T
      BY <2>3
  <2> HIDE DEF P, M
  <2>8. T = P
    <3>1. SUFFICES ASSUME T # P PROVE FALSE
        OBVIOUS
    <3>2. T \in (SUBSET P) \ {{}, P}
        BY <2>7, <3>1
    <3>3. PICK p \in T, r \in P \ T : Adjacent(p, r)
        BY <2>6, <3>2 DEF IsConnected
    <3> QED
        BY <2>1, <2>5, <3>3
  <2>9. T = S
    <3>1. SUFFICES ASSUME T # S PROVE FALSE
        OBVIOUS
    <3>2. T \in (SUBSET S) \ {{}, S}
        BY <2>7, <3>1
    <3>3. PICK p \in T, r \in S \ T : Adjacent(p, r)
        BY <2>1, <3>2 DEF IsConnected
    <3> QED
        BY <2>1, <2>6, <3>3
  <2> QED
      BY <2>8, <2>9 DEF P
<1> QED
    BY <1>1, <1>2

\* Areas are integers.
LEMMA AreasFact ==
    /\ MIN_BODY_AREA * Cols * Rows \in Int /\ MAX_BODY_AREA * Cols * Rows \in Int
<1>1. \A x, y, z \in Int : x * y * z \in Int
    OBVIOUS
<1>2. MIN_BODY_AREA \in Int /\ MAX_BODY_AREA \in Int /\ Cols \in Int /\ Rows \in Int
    BY BodyAssumption
<1> QED
    BY <1>1, <1>2

\* extract_body goes on just when a single component fits and is too big.
LEMMA EnoughUnlessOneTooBig ==
    ASSUME TypeInv, ContoursOK, InContours = Masked(index)
    PROVE  Enough(convert_contour_to_body(contours)) <=> ~OneTooBig(index)
<1> DEFINE f == convert_contour_to_body(contours)
           n == Len(contours)
           least == MIN_BODY_AREA * Cols * Rows
           most == MAX_BODY_AREA * Cols * Rows
           fit == {S \in Components(index) : 100 * Cardinality(S) >= least}
<1>1. Distinct(contours)
    BY ContoursDistinct
<1>2. PICK a, b : Biggest(a, b, contours, n) /\ BodiesOf(f, a, b)
    BY <1>1, BodiesFact
<1>3. DOMAIN contours = 1..n
    BY <1>1 DEF Distinct
<1>4. ASSUME NEW i \in 1..n
      PROVE  /\ Cardinality(Points(contours[i])) = Len(contours[i]) /\ Len(contours[i]) \in Nat
             /\ Len(contours[i]) # 0 /\ contours[i] # <<>> /\ Points(contours[i]) # {}
  <2>1. IsContour(contours[i], Masked(index))
      BY <1>3 DEF ContoursOK
  <2>2. /\ Cardinality(Points(contours[i])) = Len(contours[i]) /\ Len(contours[i]) \in Nat \ {0}
        /\ Points(contours[i]) # {}
      BY <2>1, MaskedFact, PointsOfContour
  <2>3. contours[i] # <<>>
      BY <2>1 DEF IsContour
  <2> QED
      BY <2>2, <2>3
<1>5. least \in Int /\ most \in Int
    BY AreasFact
<1>6. \A i \in 1..n : /\ Small(contours[i]) <=> 100 * Len(contours[i]) < least
                      /\ TooBig(contours[i]) <=> 100 * Len(contours[i]) > most
    BY DEF Small, TooBig
<1>7. OneTooBig(index) <=> /\ Cardinality(fit) = 1
                           /\ \A S \in fit : 100 * Cardinality(S) > most
    BY DEF OneTooBig
<1>8. IsFiniteSet(fit)
  <2>1. fit \subseteq SUBSET Pixels
      BY MaskedFact DEF Components
  <2>2. IsFiniteSet(SUBSET Pixels)
      BY PixelsFinite, FS_SUBSET
  <2> QED
      BY <2>1, <2>2, FS_Subset
<1> HIDE DEF least, most, f, n
<1>9. fit = {S \in {Points(contours[i]) : i \in 1..n} : 100 * Cardinality(S) >= least}
    BY <1>3, ComponentsAreContours
<1> HIDE DEF fit
<1>10. /\ \A i \in 1..n : ~Small(contours[i]) => Points(contours[i]) \in fit
       /\ \A S \in fit : \E i \in 1..n : S = Points(contours[i]) /\ ~Small(contours[i])
    BY <1>4, <1>5, <1>6, <1>9
<1>11. \A i, j \in 1..n : Points(contours[i]) = Points(contours[j]) => i = j
    BY <1>3, <1>4 DEF ContoursOK
<1>12. Enough(f) <=> Len(f) # 1 \/ ~TooBig(f[1].contour)
    BY DEF Enough
<1>13. CASE OneTooBig(index)
  <2>1. PICK S : fit = {S}
      BY <1>7, <1>8, <1>13, FS_Singleton
  <2>2. PICK i \in 1..n : S = Points(contours[i]) /\ ~Small(contours[i])
      BY <1>10, <2>1
  <2>3. \A j \in 1..n : ~Small(contours[j]) => j = i
      BY <1>10, <1>11, <2>1, <2>2
  <2>4. a \in {<<>>, contours[i]} /\ b \in {<<>>, contours[i]} /\ (b # <<>> => b # a)
      BY <1>2, <2>3 DEF Biggest
  <2>5. Len(<<>>) = 0
      OBVIOUS
  <2>6. a = contours[i] /\ b = <<>>
    <3>1. Len(b) <= Len(a) /\ (contours[i] \in {a, b} \/ Len(contours[i]) <= Len(b))
        BY <1>2, <2>2 DEF Biggest
    <3>2. a # <<>>
        BY <1>4, <2>4, <2>5, <3>1
    <3> QED
        BY <2>4, <3>2
  <2>7. Len(f) = 1 /\ f[1].contour = contours[i]
      BY <1>2, <1>4, <2>6 DEF BodiesOf
  <2>8. TooBig(contours[i])
    <3>1. 100 * Cardinality(S) > most
        BY <1>7, <1>13, <2>1
    <3> QED
        BY <1>4, <1>6, <2>2, <3>1
  <2> QED
      BY <1>12, <1>13, <2>7, <2>8 DEF f
<1>14. CASE ~Enough(f)
  <2>1. Len(f) = 1 /\ TooBig(f[1].contour)
      BY <1>12, <1>14
  <2>2. a # <<>> /\ b = <<>> /\ f[1].contour = a
      BY <1>2, <2>1 DEF BodiesOf
  <2>3. PICK i \in 1..n : a = contours[i] /\ ~Small(a)
      BY <1>2, <2>2 DEF Biggest
  <2>4. Len(<<>>) = 0
      OBVIOUS
  <2>5. ASSUME NEW j \in 1..n, ~Small(contours[j]) PROVE contours[j] = a
    <3>1. contours[j] \in {a, b} \/ Len(contours[j]) <= Len(b)
        BY <1>2, <2>5 DEF Biggest
    <3> QED
        BY <1>4, <2>2, <2>4, <3>1
  <2>6. fit = {Points(a)}
      BY <1>10, <2>3, <2>5
  <2>7. Cardinality(fit) = 1
      BY <1>8, <2>6, FS_Singleton
  <2>8. 100 * Cardinality(Points(a)) > most
      BY <1>4, <1>6, <2>1, <2>2, <2>3
  <2>9. \A S \in fit : 100 * Cardinality(S) > most
      BY <2>6, <2>8
  <2> QED
      BY <1>7, <1>14, <2>7, <2>9 DEF f
<1> QED
    BY <1>13, <1>14 DEF f

\* The inductive invariant of LowestCutIsUsed, with ComponentsInv.
CutInv ==
    /\ pc \in {"learn", "look"} => index = 0
    /\ pc \in {"cut", "scan", "bfs", "pick", "centre"} => \A i \in 0..index - 1 : OneTooBig(i)
    /\ pc = "centre" => index = MaxIndex \/ Enough(found_bodies)

LEMMA CutStep ==
    ASSUME TypeInv, ComponentsInv, CutInv, [Next]_vars
    PROVE  CutInv'
<1>1. ASSUME diffs' = diffs PROVE \A i : OneTooBig(i)' = OneTooBig(i)
  <2>1. \A i : Masked(i)' = Masked(i)
      BY <1>1 DEF Masked
  <2> QED
      BY <2>1 DEF OneTooBig, Components
<1>2. CASE UNCHANGED vars
  <2>1. UNCHANGED <<diffs, index, found_bodies, pc>>
      BY <1>2 DEF vars
  <2>2. diffs' = diffs
      BY <2>1
  <2> QED
      BY <1>1, <2>1, <2>2 DEF CutInv, Enough
<1>3. CASE Learn \/ Look
  <2>1. CASE Learn
      BY <2>1 DEF Learn, CutInv
  <2>2. CASE Look
    <3>1. index' = 0 /\ pc' \in {"cut", "nobody"}
        BY <2>2 DEF Look, CutInv
    <3> QED
        BY <3>1 DEF CutInv
  <2> QED
      BY <1>3, <2>1, <2>2
<1>4. CASE Cut \/ Scan \/ Visit \/ Found
  <2>1. /\ UNCHANGED <<diffs, index>> /\ pc \in {"cut", "scan", "bfs"}
        /\ pc' \in {"scan", "bfs", "pick"}
      BY <1>4 DEF Cut, Scan, Visit, Found
  <2>2. diffs' = diffs
      BY <2>1
  <2> QED
      BY <1>1, <2>1, <2>2 DEF CutInv
<1>5. CASE Pick
  <2>1. ContoursOK /\ InContours = Masked(index)
      BY <1>5 DEF Pick, ComponentsInv
  <2>2. Enough(convert_contour_to_body(contours)) <=> ~OneTooBig(index)
      BY <2>1, EnoughUnlessOneTooBig
  <2>3. \A i \in 0..index - 1 : OneTooBig(i)
      BY <1>5 DEF Pick, CutInv
  <2>4. diffs' = diffs /\ found_bodies' = convert_contour_to_body(contours)
      BY <1>5 DEF Pick
  <2>5. CASE Enough(found_bodies') \/ index = MaxIndex
    <3>1. pc' \in {"done", "centre"} /\ index' = index
        BY <1>5, <2>5 DEF Pick
    <3>2. Enough(found_bodies)' = Enough(found_bodies')
        BY DEF Enough
    <3> QED
        BY <1>1, <2>3, <2>4, <2>5, <3>1, <3>2 DEF CutInv
  <2>6. CASE ~(Enough(found_bodies') \/ index = MaxIndex)
    <3>1. pc' = "cut" /\ index' = index + 1
        BY <1>5, <2>6 DEF Pick
    <3>2. OneTooBig(index)
        BY <2>2, <2>4, <2>6
    <3>3. \A i \in 0..index' - 1 : OneTooBig(i)
      <4>1. \A i \in 0..index' - 1 : i \in 0..index - 1 \/ i = index
          BY <3>1 DEF TypeInv
      <4> QED
          BY <2>3, <3>2, <4>1
    <3> QED
        BY <1>1, <2>4, <3>1, <3>3 DEF CutInv
  <2> QED
      BY <2>5, <2>6
<1>6. CASE Centre \/ Filter \/ AssignSides
  <2>1. pc' \in {"crashed", "filter", "sides", "done"}
      BY <1>6 DEF Centre, Filter, AssignSides
  <2> QED
      BY <2>1 DEF CutInv
<1> QED
    BY <1>2, <1>3, <1>4, <1>5, <1>6 DEF Next

\* For every frame extract_body stops at the lowest cut that does not leave a
\* single body that is too big, or at the last one (OccupancyCounter.cpp:1201-1217).
THEOREM LowestCut == Spec => []LowestCutIsUsed
<1>1. Init => TypeInv /\ ComponentsInv /\ CutInv
    BY TypeInit DEF Init, ComponentsInv, CutInv
<1>2. TypeInv /\ ComponentsInv /\ CutInv /\ [Next]_vars => TypeInv' /\ ComponentsInv' /\ CutInv'
    BY TypeStep, ComponentsStep, CutStep
<1>3. TypeInv /\ ComponentsInv /\ CutInv => LowestCutIsUsed
  <2>1. SUFFICES ASSUME TypeInv, ComponentsInv, CutInv, pc = "centre"
                 PROVE  /\ \A i \in 0..index - 1 : OneTooBig(i)
                        /\ index < MaxIndex => ~OneTooBig(index)
      BY DEF LowestCutIsUsed
  <2>2. Enough(convert_contour_to_body(contours)) <=> ~OneTooBig(index)
      BY <2>1, EnoughUnlessOneTooBig DEF ComponentsInv
  <2>3. found_bodies = convert_contour_to_body(contours)
      BY <2>1 DEF ComponentsInv
  <2>4. \A i \in 0..index - 1 : OneTooBig(i)
      BY <2>1 DEF CutInv
  <2>5. index = MaxIndex \/ Enough(found_bodies)
      BY <2>1 DEF CutInv
  <2>6. index < MaxIndex => index # MaxIndex
      BY BodyAssumption DEF TypeInv
  <2> QED
      BY <2>2, <2>3, <2>4, <2>5, <2>6
<1> QED
    BY <1>1, <1>2, <1>3, PTL DEF Spec
-----------------------------------------------------------------------------
(* Sums over sets of pixels.                                               *)

\* The equation of the fold in SumOver: sum is defined on every subset of S.
Some(T) == CHOOSE x \in T : TRUE
IsSumOf(sum, d, S) ==
    sum = [T \in SUBSET S |-> IF T = {} THEN 0 ELSE d[Some(T)] + sum[T \ {Some(T)}]]
Sums(d, S) == CHOOSE sum : IsSumOf(sum, d, S)

LEMMA SumOverIsSum ==
    ASSUME NEW d, NEW S
    PROVE  SumOver(d, S) = Sums(d, S)[S]
BY DEF SumOver, MapThenSumSet, MapThenFoldSet, Sums, IsSumOf, Some

LEMMA SomeFact ==
    ASSUME NEW S, IsFiniteSet(S)
    PROVE  /\ Cardinality(S) \in Nat /\ (Cardinality(S) = 0 <=> S = {})
           /\ S # {} => Some(S) \in S
           /\ \A x \in S : /\ IsFiniteSet(S \ {x})
                           /\ Cardinality(S \ {x}) = Cardinality(S) - 1
<1>1. Cardinality(S) \in Nat /\ (Cardinality(S) = 0 <=> S = {})
    BY FS_CardinalityType, FS_EmptySet
<1>2. S # {} => Some(S) \in S
    BY DEF Some
<1>3. ASSUME NEW x \in S
      PROVE  IsFiniteSet(S \ {x}) /\ Cardinality(S \ {x}) = Cardinality(S) - 1
    BY FS_RemoveElement
<1> QED
    BY <1>1, <1>2, <1>3

\* Sets of pixels with at most k of them.
UpTo(S, k) == {T \in SUBSET S : Cardinality(T) <= k}

LEMMA SumExists ==
    ASSUME NEW d, NEW S, S \subseteq Pixels
    PROVE  IsSumOf(Sums(d, S), d, S)
<1> DEFINE Rec(g, T) == IF T = {} THEN 0 ELSE d[Some(T)] + g[T \ {Some(T)}]
           Has(k) == \E g : \A T \in UpTo(S, k) : g[T] = Rec(g, T)
           P == {k \in Nat : Has(k)}
<1>1. \A T \in SUBSET S : IsFiniteSet(T)
    BY PixelsFinite
<1>2. 0 \in P
  <2> DEFINE g == [T \in SUBSET S |-> 0]
  <2>1. \A T \in UpTo(S, 0) : T = {} /\ T \in SUBSET S
    <3> TAKE T \in UpTo(S, 0)
    <3>1. IsFiniteSet(T) /\ Cardinality(T) <= 0
        BY <1>1 DEF UpTo
    <3> QED
        BY <3>1, SomeFact
  <2>2. \A T \in UpTo(S, 0) : g[T] = Rec(g, T)
      BY <2>1
  <2> QED
      BY <2>2
<1>3. ASSUME NEW k \in Nat, k \in P PROVE k + 1 \in P
  <2>1. PICK g : \A T \in UpTo(S, k) : g[T] = Rec(g, T)
      BY <1>3
  <2> DEFINE h == [T \in SUBSET S |-> IF Cardinality(T) <= k THEN g[T] ELSE Rec(g, T)]
  <2>2. \A T \in UpTo(S, k) : h[T] = g[T]
      BY DEF UpTo
  <2>3. \A T \in SUBSET S : h[T] = IF T \in UpTo(S, k) THEN g[T] ELSE Rec(g, T)
      BY DEF UpTo
  <2> HIDE DEF h
  <2>4. ASSUME NEW T \in UpTo(S, k + 1) PROVE h[T] = Rec(h, T)
    <3>1. IsFiniteSet(T) /\ Cardinality(T) <= k + 1 /\ T \in SUBSET S
        BY <1>1 DEF UpTo
    <3>2. h[T] = Rec(g, T)
        BY <2>1, <2>3, <3>1
    <3>3. T # {} => T \ {Some(T)} \in UpTo(S, k)
      <4>1. SUFFICES ASSUME T # {} PROVE T \ {Some(T)} \in UpTo(S, k)
          OBVIOUS
      <4>2. Cardinality(T \ {Some(T)}) = Cardinality(T) - 1 /\ Cardinality(T) \in Nat
          BY <3>1, <4>1, SomeFact
      <4>3. Cardinality(T \ {Some(T)}) <= k
          BY <3>1, <4>2
      <4> QED
          BY <3>1, <4>3 DEF UpTo
    <3>4. T # {} => h[T \ {Some(T)}] = g[T \ {Some(T)}]
        BY <2>2, <3>3
    <3> QED
        BY <3>2, <3>4
  <2>5. \A T \in UpTo(S, k + 1) : h[T] = Rec(h, T)
      BY <2>4
  <2>6. Has(k + 1)
      BY <2>5
  <2> HIDE DEF Has
  <2> QED
      BY <2>6
<1>4. Cardinality(S) \in Nat
    BY <1>1, SomeFact
<1> HIDE DEF P
<1>5. Cardinality(S) \in P
    BY <1>2, <1>3, <1>4, NatInduct
<1>6. PICK g : \A T \in UpTo(S, Cardinality(S)) : g[T] = Rec(g, T)
    BY <1>5 DEF P
<1>7. \A T \in SUBSET S : T \in UpTo(S, Cardinality(S))
    BY <1>1, FS_Subset DEF UpTo
<1> DEFINE f == [T \in SUBSET S |-> g[T]]
<1>8. \A T \in SUBSET S : f[T] = Rec(f, T)
  <2> TAKE T \in SUBSET S
  <2>1. T \ {Some(T)} \in SUBSET S
      OBVIOUS
  <2>2. g[T] = Rec(g, T)
      BY <1>6, <1>7
  <2> QED
      BY <2>1, <2>2
<1>9. f = [T \in SUBSET S |-> f[T]]
    OBVIOUS
<1> HIDE DEF f
<1>10. IsSumOf(f, d, S)
    BY <1>8, <1>9 DEF IsSumOf
<1> QED
    BY <1>10 DEF Sums

\* f has a sum for every subset of S, whatever is taken first.
Additive(f, d, S) ==
    /\ f[{}] = 0
    /\ \A T \in SUBSET S : f[T] \in Int /\ \A x \in T : f[T] = d[x] + f[T \ {x}]

\* A sum is an integer, and does not depend on the order of its terms.
LEMMA SumRemove ==
    ASSUME NEW d \in [Pixels -> Int], NEW S, S \subseteq Pixels, NEW f, IsSumOf(f, d, S)
    PROVE  Additive(f, d, S)
<1>1. \A T \in SUBSET S : IsFiniteSet(T)
    BY PixelsFinite
<1>2. \A T \in SUBSET S : f[T] = IF T = {} THEN 0 ELSE d[Some(T)] + f[T \ {Some(T)}]
    BY DEF IsSumOf
<1> DEFINE Good(T) == /\ f[T] \in Int
                      /\ \A x \in T : f[T \ {x}] \in Int /\ f[T] = d[x] + f[T \ {x}]
           P == {k \in Nat : \A T \in SUBSET S : Cardinality(T) = k => Good(T)}
<1>3. f[{}] = 0
    BY <1>2
<1>4. 0 \in P
  <2>1. ASSUME NEW T \in SUBSET S, Cardinality(T) = 0 PROVE Good(T)
    <3>1. T = {}
        BY <1>1, <2>1, SomeFact
    <3> QED
        BY <1>3, <3>1
  <2> QED
      BY <2>1
<1>5. ASSUME NEW k \in Nat, k \in P PROVE k + 1 \in P
  <2>1. ASSUME NEW T \in SUBSET S, Cardinality(T) = k + 1 PROVE Good(T)
    <3> DEFINE s == Some(T)
               U == T \ {s}
    <3>1. IsFiniteSet(T) /\ T # {} /\ s \in T
      <4>1. IsFiniteSet(T) /\ Cardinality(T) # 0
          BY <1>1, <2>1
      <4> QED
          BY <4>1, SomeFact
    <3>2. \A x \in T : T \ {x} \in SUBSET S /\ Cardinality(T \ {x}) = k
      <4> TAKE x \in T
      <4>1. Cardinality(T \ {x}) = Cardinality(T) - 1
          BY <3>1, SomeFact
      <4> QED
          BY <2>1, <4>1
    <3>3. \A x \in T : Good(T \ {x})
        BY <1>5, <3>2
    <3>4. f[T] = d[s] + f[U]
        BY <1>2, <3>1
    <3>5. \A x \in T : d[x] \in Int
        OBVIOUS
    <3>6. f[T] \in Int
      <4>1. f[U] \in Int
          BY <3>1, <3>3
      <4>2. d[s] \in Int
          BY <3>1, <3>5
      <4> QED
          BY <3>4, <4>1, <4>2
    <3>7. ASSUME NEW x \in T PROVE f[T] = d[x] + f[T \ {x}]
      <4>1. CASE x = s
          BY <3>4, <4>1
      <4>2. CASE x # s
        <5> DEFINE V == T \ {x}
                   W == T \ {x, s}
        <5>1. x \in U /\ s \in V /\ U \ {x} = W /\ V \ {s} = W
            BY <3>1, <4>2
        <5>2. Good(U) /\ Good(V)
            BY <3>1, <3>3
        <5> HIDE DEF U, V, W, s
        <5>3. f[U] = d[x] + f[W]
            BY <5>1, <5>2
        <5>4. f[V] = d[s] + f[W]
            BY <5>1, <5>2
        <5>5. d[x] \in Int /\ d[s] \in Int /\ f[U] \in Int /\ f[V] \in Int /\ f[T] \in Int
            BY <3>1, <3>5, <3>6, <5>2
        <5>6. f[W] \in Int
            BY <5>1, <5>2
        <5>7. f[T] = d[x] + f[V]
            BY <3>4, <5>3, <5>4, <5>5, <5>6
        <5> QED
            BY <5>7 DEF V
      <4> QED
          BY <4>1, <4>2
    <3>8. \A x \in T : f[T \ {x}] \in Int
        BY <3>3
    <3> QED
        BY <3>6, <3>7, <3>8
  <2> QED
      BY <2>1
<1> HIDE DEF P
<1>6. \A k \in Nat : k \in P
    BY <1>4, <1>5, NatInduct
<1>7. ASSUME NEW T \in SUBSET S PROVE Good(T)
  <2>1. Cardinality(T) \in Nat
      BY <1>1, SomeFact
  <2>2. Cardinality(T) \in P
      BY <1>6, <2>1
  <2> QED
      BY <2>2 DEF P
<1> QED
    BY <1>3, <1>7 DEF Additive

LEMMA SumOverType ==
    ASSUME NEW d \in [Pixels -> Int], NEW S, S \subseteq Pixels
    PROVE  SumOver(d, S) \in Int
<1>1. IsSumOf(Sums(d, S), d, S)
    BY SumExists
<1> DEFINE f == Sums(d, S)
<1> HIDE DEF f
<1>2. f[S] \in Int
  <2>1. Additive(f, d, S)
      BY <1>1, SumRemove DEF f
  <2> QED
      BY <2>1 DEF Additive
<1> QED
    BY <1>2, SumOverIsSum DEF f
-----------------------------------------------------------------------------
(* find_frame_side and the mirror.                                         *)

\* Where a mirror shows a pixel, and a set of them.
Image(p) == <<Cols + 1 - p[1], p[2]>>
Images(T) == {Image(p) : p \in T}

LEMMA ImageFact ==
    ASSUME NEW p \in Pixels
    PROVE  /\ Image(p) \in Pixels /\ Image(Image(p)) = p
           /\ Image(p)[1] = Cols + 1 - p[1] /\ p[1] \in 1..Cols
<1>1. p = <<p[1], p[2]>> /\ p[1] \in 1..Cols /\ p[2] \in 1..Rows
    BY DEF Pixels
<1>2. Cols \in Nat
    BY BodyAssumption
<1>3. Cols + 1 - p[1] \in 1..Cols /\ Cols + 1 - (Cols + 1 - p[1]) = p[1]
    BY <1>1, <1>2
<1> QED
    BY <1>1, <1>3 DEF Image, Pixels

LEMMA MirroredSum ==
    ASSUME NEW d \in [Pixels -> Int], NEW S, S \subseteq Pixels
    PROVE  SumOver(Mirrored(d), S) = SumOver(d, Images(S))
<1> DEFINE e == Mirrored(d)
           F == Sums(e, S)
           G == Sums(d, Images(S))
           P == {k \in Nat : \A T \in SUBSET S : Cardinality(T) = k => F[T] = G[Images(T)]}
<1>1. /\ Images(S) \subseteq Pixels /\ e \in [Pixels -> Int]
      /\ \A p \in Pixels : e[p] = d[Image(p)]
    BY ImageFact DEF Images, Mirrored, Image
<1>2. IsSumOf(F, e, S) /\ IsSumOf(G, d, Images(S))
    BY <1>1, SumExists
<1> HIDE DEF F, G, e
<1>3. \A T \in SUBSET S : /\ IsFiniteSet(T) /\ Images(T) \in SUBSET Images(S)
                          /\ \A x \in T : Image(x) \in Images(T)
    BY PixelsFinite DEF Images
<1>4. /\ F[{}] = 0 /\ G[{}] = 0
      /\ \A T \in SUBSET S : \A x \in T : F[T] = e[x] + F[T \ {x}]
      /\ \A U \in SUBSET Images(S) : \A y \in U : G[U] = d[y] + G[U \ {y}]
  <2>1. Additive(F, e, S)
      BY <1>1, <1>2, SumRemove
  <2> DEFINE V == Images(S)
  <2> HIDE DEF V
  <2>2. Additive(G, d, V)
      BY <1>1, <1>2, SumRemove DEF V
  <2>3. F[{}] = 0 /\ \A T \in SUBSET S : \A x \in T : F[T] = e[x] + F[T \ {x}]
      BY <2>1 DEF Additive
  <2>4. G[{}] = 0 /\ \A U \in SUBSET V : \A y \in U : G[U] = d[y] + G[U \ {y}]
      BY <2>2 DEF Additive
  <2> QED
      BY <2>3, <2>4 DEF V
<1>5. 0 \in P
  <2>1. ASSUME NEW T \in SUBSET S, Cardinality(T) = 0 PROVE F[T] = G[Images(T)]
    <3>1. T = {}
        BY <1>3, <2>1, SomeFact
    <3>2. Images(T) = {}
        BY <3>1 DEF Images
    <3> QED
        BY <1>4, <3>1, <3>2
  <2> QED
      BY <2>1
<1>6. ASSUME NEW k \in Nat, k \in P PROVE k + 1 \in P
  <2>1. ASSUME NEW T \in SUBSET S, Cardinality(T) = k + 1 PROVE F[T] = G[Images(T)]
    <3>1. IsFiniteSet(T) /\ T # {}
      <4>1. IsFiniteSet(T) /\ Cardinality(T) # 0
          BY <1>3, <2>1
      <4> QED
          BY <4>1, SomeFact
    <3>2. PICK x \in T : TRUE
        BY <3>1
    <3> DEFINE U == T \ {x}
    <3>3. U \in SUBSET S /\ Cardinality(U) = k
      <4>1. Cardinality(U) = Cardinality(T) - 1
          BY <3>1, SomeFact
      <4> QED
          BY <2>1, <4>1
    <3>4. Images(U) = Images(T) \ {Image(x)}
      <4>1. \A p \in U : Image(p) # Image(x)
        <5> TAKE p \in U
        <5>1. p \in Pixels /\ x \in Pixels /\ p # x
            OBVIOUS
        <5>2. Image(Image(p)) = p /\ Image(Image(x)) = x
            BY <5>1, ImageFact
        <5> QED
            BY <5>1, <5>2
      <4> QED
          BY <4>1 DEF Images
    <3> HIDE DEF U
    <3>5. F[U] = G[Images(U)]
        BY <1>6, <3>3
    <3>6. F[T] = e[x] + F[U]
        BY <1>4 DEF U
    <3>7. Images(T) \in SUBSET Images(S) /\ Image(x) \in Images(T)
        BY <1>3
    <3>8. G[Images(T)] = d[Image(x)] + G[Images(U)]
        BY <1>4, <3>4, <3>7
    <3>9. e[x] = d[Image(x)]
        BY <1>1
    <3> QED
        BY <3>5, <3>6, <3>8, <3>9
  <2> QED
      BY <2>1
<1> HIDE DEF P
<1>7. Cardinality(S) \in Nat /\ S \in SUBSET S
    BY <1>3, SomeFact
<1>8. Cardinality(S) \in P
    BY <1>5, <1>6, <1>7, NatInduct
<1>9. F[S] = G[Images(S)]
    BY <1>7, <1>8 DEF P
<1> QED
    BY <1>9, SumOverIsSum DEF F, G, e

\* The columns at one end are shown at the other.
LEMMA EndsAreMirrored ==
    ASSUME NEW k \in 1..CheckLen
    PROVE  /\ Images(LeftColumns(k)) = RightColumns(k)
           /\ Images(RightColumns(k)) = LeftColumns(k)
           /\ LeftColumns(k) \subseteq Pixels /\ RightColumns(k) \subseteq Pixels
<1>1. k \in Int /\ Cols \in Int /\ 1 <= k /\ k <= Cols - k
  <2>1. Cols \in Nat /\ CheckLen \in 1..Cols \div 2
      BY BodyAssumption
  <2> QED
      BY <2>1
<1>2. \A p \in Pixels : p \in LeftColumns(k) <=> p[1] <= k
    BY DEF LeftColumns
<1>3. \A p \in Pixels : p \in RightColumns(k) <=> p[1] > Cols - k
  <2> TAKE p \in Pixels
  <2>1. p[1] \in Int
      BY ImageFact
  <2>2. p[1] > Cols - k => p[1] > k
      BY <1>1, <2>1
  <2> QED
      BY <2>2 DEF RightColumns
<1>4. LeftColumns(k) \subseteq Pixels /\ RightColumns(k) \subseteq Pixels
    BY DEF LeftColumns, RightColumns
<1>5. ASSUME NEW p \in Pixels
      PROVE  /\ p \in LeftColumns(k) <=> Image(p) \in RightColumns(k)
             /\ p \in RightColumns(k) <=> Image(p) \in LeftColumns(k)
  <2>1. Image(p) \in Pixels /\ Image(p)[1] = Cols + 1 - p[1] /\ p[1] \in Int
      BY ImageFact
  <2>2. p[1] <= k <=> Cols + 1 - p[1] > Cols - k
      BY <1>1, <2>1
  <2>3. p[1] > Cols - k <=> Cols + 1 - p[1] <= k
      BY <1>1, <2>1
  <2> QED
      BY <1>2, <1>3, <2>1, <2>2, <2>3
<1>6. ASSUME NEW S, NEW U, S \subseteq Pixels, U \subseteq Pixels,
             \A p \in Pixels : /\ p \in S <=> Image(p) \in U
                               /\ p \in U <=> Image(p) \in S
      PROVE  Images(S) = U
  <2>1. ASSUME NEW r \in U PROVE \E p \in S : r = Image(p)
    <3>1. r \in Pixels /\ Image(r) \in S /\ Image(Image(r)) = r
        BY <1>6, ImageFact
    <3> QED
        BY <3>1
  <2> QED
      BY <1>6, <2>1 DEF Images
<1> QED
    BY <1>4, <1>5, <1>6

LEMMA LeanIsMirrored ==
    ASSUME NEW d \in [Pixels -> Int], NEW k \in 1..CheckLen
    PROVE  Lean(d, k) \in Int /\ Lean(Mirrored(d), k) = -Lean(d, k)
<1> DEFINE left == SumOver(d, LeftColumns(k))
           right == SumOver(d, RightColumns(k))
<1>1. left \in Int /\ right \in Int
    BY SumOverType, EndsAreMirrored
<1>2. /\ SumOver(Mirrored(d), LeftColumns(k)) = right
      /\ SumOver(Mirrored(d), RightColumns(k)) = left
    BY MirroredSum, EndsAreMirrored
<1>3. k * Rows \in Nat \ {0}
  <2>1. k \in Nat \ {0} /\ Rows \in Nat \ {0}
      BY BodyAssumption
  <2>2. \A x, y \in Nat \ {0} : x * y \in Nat \ {0}
      OBVIOUS
  <2> QED
      BY <2>1, <2>2
<1> DEFINE area == k * Rows
<1>4. Lean(d, k) = (left \div area) - (right \div area)
    BY DEF Lean
<1>5. Lean(Mirrored(d), k) = (right \div area) - (left \div area)
    BY <1>2 DEF Lean
<1> HIDE DEF left, right, area
<1>6. left \div area \in Int /\ right \div area \in Int
    BY <1>1, <1>3 DEF area
<1> QED
    BY <1>4, <1>5, <1>6

\* The least element of a set of naturals.
LEMMA LeastOf ==
    ASSUME NEW S, S \subseteq Nat, S # {}
    PROVE  Min(S) \in S /\ \A x \in S : Min(S) <= x
<1> DEFINE R == {p \in Nat \X Nat : p[1] < p[2]}
<1>1. IsWellFoundedOn(R, Nat)
    BY NatLessThanWellFounded DEF OpToRel
<1> HIDE DEF R
<1>2. PICK k \in S : \A j \in S : ~(<<j, k>> \in R)
    BY <1>1, WFMin
<1>3. \A j \in S : k <= j
  <2> TAKE j \in S
  <2>1. k \in Nat /\ j \in Nat
      OBVIOUS
  <2>2. j < k => <<j, k>> \in R
      BY <2>1 DEF R
  <2> QED
      BY <1>2, <2>1, <2>2
<1> QED
    BY <1>3 DEF Min

LEMMA SideIsMirrored ==
    ASSUME NEW d \in [Pixels -> Int]
    PROVE  SideOf(Mirrored(d)) = OtherSide(SideOf(d))
<1> DEFINE clear == {k \in 1..CheckLen : Lean(d, k) \notin -1..1}
           clearM == {k \in 1..CheckLen : Lean(Mirrored(d), k) \notin -1..1}
<1>1. clearM = clear
  <2>1. \A k \in 1..CheckLen : Lean(Mirrored(d), k) \notin -1..1 <=> Lean(d, k) \notin -1..1
    <3> TAKE k \in 1..CheckLen
    <3>1. Lean(d, k) \in Int /\ Lean(Mirrored(d), k) = -Lean(d, k)
        BY LeanIsMirrored
    <3>2. \A x \in Int : -x \notin -1..1 <=> x \notin -1..1
        OBVIOUS
    <3> QED
        BY <3>1, <3>2
  <2> QED
      BY <2>1
<1>2. SideOf(d) = IF clear = {} THEN UNKNOWNSIDE
                  ELSE IF Lean(d, Min(clear)) > 0 THEN LEFTSIDE ELSE RIGHTSIDE
    BY DEF SideOf
<1>3. SideOf(Mirrored(d)) = IF clear = {} THEN UNKNOWNSIDE
                            ELSE IF Lean(Mirrored(d), Min(clear)) > 0 THEN LEFTSIDE ELSE RIGHTSIDE
  <2>1. SideOf(Mirrored(d)) =
            IF clearM = {} THEN UNKNOWNSIDE
            ELSE IF Lean(Mirrored(d), Min(clearM)) > 0 THEN LEFTSIDE ELSE RIGHTSIDE
      BY DEF SideOf
  <2> HIDE DEF clear, clearM
  <2> QED
      BY <1>1, <2>1
<1>4. CASE clear = {}
  <2>1. SideOf(d) = UNKNOWNSIDE /\ SideOf(Mirrored(d)) = UNKNOWNSIDE
      BY <1>2, <1>3, <1>4
  <2> QED
      BY <2>1 DEF OtherSide, UNKNOWNSIDE, LEFTSIDE, RIGHTSIDE
<1>5. CASE clear # {}
  <2>1. clear \subseteq Nat
      BY BodyAssumption
  <2>2. Min(clear) \in clear
    <3> HIDE DEF clear
    <3> QED
        BY <1>5, <2>1, LeastOf
  <2> DEFINE k == Min(clear)
  <2>3. k \in 1..CheckLen /\ Lean(d, k) \notin -1..1
      BY <2>2
  <2> HIDE DEF k
  <2>4. Lean(d, k) \in Int /\ Lean(Mirrored(d), k) = -Lean(d, k)
      BY <2>3, LeanIsMirrored
  <2>5. \A x \in Int : x \notin -1..1 => (-x > 0 <=> ~(x > 0))
      OBVIOUS
  <2>6. Lean(Mirrored(d), k) > 0 <=> ~(Lean(d, k) > 0)
      BY <2>3, <2>4, <2>5
  <2> HIDE DEF clear
  <2>7. /\ SideOf(d) = IF Lean(d, k) > 0 THEN LEFTSIDE ELSE RIGHTSIDE
        /\ SideOf(Mirrored(d)) = IF Lean(Mirrored(d), k) > 0 THEN LEFTSIDE ELSE RIGHTSIDE
      BY <1>2, <1>3, <1>5 DEF k
  <2>8. CASE Lean(d, k) > 0
      BY <2>6, <2>7, <2>8 DEF OtherSide, UNKNOWNSIDE, LEFTSIDE, RIGHTSIDE
  <2>9. CASE ~(Lean(d, k) > 0)
      BY <2>6, <2>7, <2>9 DEF OtherSide, UNKNOWNSIDE, LEFTSIDE, RIGHTSIDE
  <2> QED
      BY <2>8, <2>9
<1> QED
    BY <1>4, <1>5

\* For every frame, the frame seen in a mirror has the other side
\* (OccupancyCounter.cpp:937-976).
THEOREM SymmetricSides == Spec => []SidesAreSymmetric
<1>1. TypeInv => SidesAreSymmetric
  <2>1. SUFFICES ASSUME TypeInv PROVE SideOf(Mirrored(diffs)) = OtherSide(SideOf(diffs))
      BY DEF SidesAreSymmetric
  <2>2. diffs \in [Pixels -> Int]
    <3>1. diffs \in [Pixels -> 0..255] /\ \A x \in 0..255 : x \in Int
        BY <2>1 DEF TypeInv
    <3> QED
        BY <3>1
  <2> QED
      BY <2>2, SideIsMirrored
<1> QED
    BY TypeInit, TypeStep, <1>1, PTL DEF Spec
-----------------------------------------------------------------------------
(* find_body_center and the peak of the heat.                              *)

\* The greatest element of a set of columns.
LEMMA GreatestOf ==
    ASSUME NEW n \in Nat
    PROVE  \A I \in SUBSET (1..n) : I # {} => Max(I) \in I /\ \A i \in I : i <= Max(I)
<1> DEFINE Top(k) == \A I \in SUBSET (1..k) : I # {} => \E m \in I : \A i \in I : m >= i
           P == {k \in Nat : Top(k)}
<1>1. 0 \in P
  <2>1. 1..0 = {} /\ SUBSET {} = {{}}
      OBVIOUS
  <2> QED
      BY <2>1
<1>2. ASSUME NEW k \in Nat, k \in P PROVE k + 1 \in P
  <2>1. SUFFICES ASSUME NEW I \in SUBSET (1..(k + 1)), I # {} PROVE \E m \in I : \A i \in I : m >= i
      OBVIOUS
  <2>2. CASE k + 1 \in I
      BY <2>2
  <2>3. CASE k + 1 \notin I
    <3>1. I \in SUBSET (1..k)
        BY <2>3
    <3> QED
        BY <3>1, <2>1, <1>2
  <2> QED
      BY <2>2, <2>3
<1> HIDE DEF P
<1>3. n \in P
    BY <1>1, <1>2, NatInduct
<1>4. Top(n)
    BY <1>3 DEF P
<1>5. ASSUME NEW I \in SUBSET (1..n), I # {} PROVE Max(I) \in I /\ \A i \in I : i <= Max(I)
  <2>1. PICK m \in I : \A i \in I : m >= i
      BY <1>4, <1>5
  <2>2. Max(I) \in I /\ \A i \in I : Max(I) >= i
      BY <2>1 DEF Max
  <2> QED
      BY <2>2
<1> QED
    BY <1>5

\* None of the columns after a, up to b, differs from the one before.
Flat(h, a, b) == \A x \in a + 1..b : h[x] = h[x - 1]

LEMMA Level ==
    ASSUME NEW h, NEW a \in Int, NEW b \in Int, Flat(h, a, b)
    PROVE  \A z \in a..b : h[z] = h[a]
<1> DEFINE P == {k \in Nat : a + k <= b => h[a + k] = h[a]}
<1>1. 0 \in P
    OBVIOUS
<1>2. ASSUME NEW k \in Nat, k \in P PROVE k + 1 \in P
  <2>1. SUFFICES ASSUME a + (k + 1) <= b PROVE h[a + (k + 1)] = h[a]
      OBVIOUS
  <2>2. h[a + k] = h[a]
      BY <1>2, <2>1
  <2>3. a + (k + 1) \in a + 1..b /\ (a + (k + 1)) - 1 = a + k
      BY <2>1
  <2> QED
      BY <2>2, <2>3 DEF Flat
<1> HIDE DEF P
<1>3. \A k \in Nat : k \in P
    BY <1>1, <1>2, NatInduct
<1>4. ASSUME NEW z \in a..b PROVE h[z] = h[a]
  <2>1. z - a \in Nat /\ a + (z - a) = z /\ z <= b
      OBVIOUS
  <2>2. z - a \in P
      BY <1>3, <2>1
  <2> QED
      BY <2>1, <2>2 DEF P
<1> QED
    BY <1>4

\* Columns a to b are at most as warm as a when none is warmer than the one before.
LEMMA Falling ==
    ASSUME NEW h \in [1..Cols -> Int], NEW b \in 1..Cols, \A x \in 2..b : h[x] <= h[x - 1]
    PROVE  h[b] <= h[1]
<1>1. Cols \in Nat
    BY BodyAssumption
<1> DEFINE P == {k \in Nat : 1 + k <= b => h[1 + k] <= h[1]}
<1>2. 0 \in P
    BY <1>1
<1>3. ASSUME NEW k \in Nat, k \in P PROVE k + 1 \in P
  <2>1. SUFFICES ASSUME 1 + (k + 1) <= b PROVE h[1 + (k + 1)] <= h[1]
      OBVIOUS
  <2>2. h[1 + k] <= h[1]
      BY <1>3, <2>1
  <2>3. h[1 + (k + 1)] <= h[1 + k]
    <3>1. 1 + (k + 1) \in 2..b /\ (1 + (k + 1)) - 1 = 1 + k
        BY <2>1
    <3> QED
        BY <3>1
  <2>4. 1 + k \in 1..Cols /\ 1 + (k + 1) \in 1..Cols /\ 1 \in 1..Cols
      BY <1>1, <2>1
  <2>5. h[1] \in Int /\ h[1 + k] \in Int /\ h[1 + (k + 1)] \in Int
      BY <2>4
  <2> QED
      BY <2>2, <2>3, <2>5
<1> HIDE DEF P
<1>4. \A k \in Nat : k \in P
    BY <1>2, <1>3, NatInduct
<1>5. b - 1 \in Nat /\ 1 + (b - 1) = b
    BY <1>1
<1>6. b - 1 \in P
    BY <1>4, <1>5
<1> QED
    BY <1>5, <1>6 DEF P

\* What status says after column x: the way of the last change, y, and that
\* there is none from there to x.
LEMMA TrendFact ==
    ASSUME NEW h \in [1..Cols -> Int], NEW x \in 1..Cols, Trend(h, x) # 0
    PROVE  \E y \in 2..x : /\ Sign(h, y) = Trend(h, x) /\ h[y] # h[y - 1]
                           /\ Flat(h, y, x)
<1> DEFINE changes == {y \in 2..x : h[y] # h[y - 1]}
<1>1. x \in Nat
    BY BodyAssumption
<1>2. Trend(h, x) = IF changes = {} THEN 0 ELSE Sign(h, Max(changes))
    BY DEF Trend
<1>3. changes # {}
    BY <1>2
<1>4. changes \in SUBSET (1..x)
    BY <1>1
<1>5. \A z \in 2..x : h[z] # h[z - 1] => z \in changes
    OBVIOUS
<1>6. \A y \in changes : y \in 2..x /\ h[y] # h[y - 1]
    OBVIOUS
<1> HIDE DEF changes
<1> DEFINE y == Max(changes)
<1>7. y \in changes /\ \A z \in changes : z <= y
    BY <1>1, <1>3, <1>4, GreatestOf
<1> HIDE DEF y
<1>8. Flat(h, y, x)
  <2>1. SUFFICES ASSUME NEW z \in y + 1..x, h[z] # h[z - 1] PROVE FALSE
      BY DEF Flat
  <2>2. y \in 2..x
      BY <1>6, <1>7
  <2>3. z \in 2..x
      BY <1>1, <2>2
  <2>4. z <= y
      BY <1>5, <1>7, <2>1, <2>3
  <2> QED
      BY <1>1, <2>2, <2>4
<1>9. Sign(h, y) = Trend(h, x)
    BY <1>2, <1>3 DEF y
<1> QED
    BY <1>6, <1>7, <1>8, <1>9

LEMMA ColumnsFact ==
    ASSUME NEW h \in [1..Cols -> Int], NEW x \in 2..Cols
    PROVE  x - 1 \in 1..Cols /\ x \in 1..Cols /\ h[x] \in Int /\ h[x - 1] \in Int
<1>1. x - 1 \in 1..Cols /\ x \in 1..Cols
    BY BodyAssumption
<1> QED
    BY <1>1

LEMMA SignUp ==
    ASSUME NEW h \in [1..Cols -> Int], NEW x \in 2..Cols
    PROVE  Sign(h, x) = 1 <=> h[x] > h[x - 1]
BY ColumnsFact DEF Sign

LEMMA SignDown ==
    ASSUME NEW h \in [1..Cols -> Int], NEW x \in 2..Cols
    PROVE  Sign(h, x) = -1 <=> h[x] < h[x - 1]
BY ColumnsFact DEF Sign

LEMMA MinusMinus == -(-1) = 1
<1>1. \A s, t \in Int : s + t = 0 => -s = t
    OBVIOUS
<1>2. -1 \in Int /\ 1 \in Int /\ -1 + 1 = 0
    OBVIOUS
<1> DEFINE s == -1
<1>3. s \in Int /\ s + 1 = 0
    BY <1>2
<1> HIDE DEF s
<1>4. -s = 1
    BY <1>1, <1>3
<1> QED
    BY <1>4 DEF s

WarmestColumns(h) == {x \in 1..Cols : \A y \in 1..Cols : h[y] <= h[x]}

\* With one peak, a column that the heat has risen to is as warm as any to its
\* left, and it is a warmest one when it falls again or the frame ends.
LEMMA RiseToPeak ==
    ASSUME NEW h \in [1..Cols -> Int], SinglePeaked(h),
           NEW x \in 1..Cols, Trend(h, x) = 1,
           x = Cols \/ h[x + 1] < h[x]
    PROVE  x \in WarmestColumns(h)
<1>1. Cols \in Nat /\ x \in Nat
    BY BodyAssumption
<1>2. PICK y \in 2..x : Sign(h, y) = 1 /\ Flat(h, y, x)
  <2>1. Trend(h, x) # 0
      OBVIOUS
  <2>2. \E y \in 2..x : /\ Sign(h, y) = Trend(h, x) /\ h[y] # h[y - 1]
                       /\ Flat(h, y, x)
      BY <2>1, TrendFact
  <2> QED
      BY <2>2
<1>3. y \in 2..Cols /\ y - 1 \in 1..Cols /\ y \in 1..Cols
    BY <1>1
<1>4. h[y] > h[y - 1]
    BY <1>2, <1>3, SignUp
<1>5. \A z \in y..x : h[z] = h[y]
    BY <1>1, <1>2, Level
<1>6. h[x] = h[y]
    BY <1>1, <1>5
<1>7. ASSUME NEW z \in 1..Cols, ~(h[z] <= h[x]) PROVE FALSE
  <2>1. h[z] \in Int /\ h[x] \in Int /\ h[y] \in Int /\ h[y - 1] \in Int
      BY <1>3
  <2>2. h[z] > h[x]
      BY <1>7, <2>1
  <2>3. z \notin y..x
      BY <1>5, <1>6, <2>1, <2>2
  <2>4. z # y - 1
      BY <1>4, <1>6, <2>1, <2>2
  <2>5. ~(z < y - 1)
    <3>1. SUFFICES ASSUME z < y - 1 PROVE FALSE
        OBVIOUS
    <3>2. h[y - 1] < h[z] /\ h[y - 1] < h[y] /\ y - 1 < y
        BY <1>3, <1>4, <1>6, <2>1, <2>2
    <3> QED
        BY <1>3, <3>1, <3>2 DEF SinglePeaked
  <2>6. z > x
      BY <1>1, <1>3, <2>3, <2>4, <2>5
  <2>7. x + 1 \in 1..Cols /\ x # Cols
      BY <1>1, <2>6
  <2>8. h[x + 1] < h[x] /\ h[x + 1] \in Int
      BY <2>7
  <2>9. z # x + 1
      BY <2>1, <2>2, <2>8
  <2>10. x < x + 1 /\ x + 1 < z /\ h[x + 1] < h[z]
      BY <1>1, <2>1, <2>2, <2>6, <2>8, <2>9
  <2> QED
      BY <2>7, <2>8, <2>10 DEF SinglePeaked
<1> QED
    BY <1>7 DEF WarmestColumns

\* Turns of status down are at the end of a peak, so there is at most one.
LEMMA TurnFact ==
    ASSUME NEW h \in [1..Cols -> Int], SinglePeaked(h), NEW x \in Turns(h, -1)
    PROVE  /\ x \in 2..Cols /\ x - 1 \in 1..Cols /\ h[x] < h[x - 1]
           /\ x - 1 \in WarmestColumns(h)
<1>1. x \in 2..Cols /\ Sign(h, x) = -1 /\ Trend(h, x - 1) = -(-1)
    BY DEF Turns
<1>2. x - 1 \in 1..Cols /\ h[x] < h[x - 1]
    BY <1>1, SignDown, ColumnsFact
<1>3. (x - 1) + 1 = x /\ -(-1) = 1
    BY <1>1, MinusMinus
<1>4. x - 1 \in WarmestColumns(h)
  <2> DEFINE w == x - 1
  <2>1. w \in 1..Cols /\ Trend(h, w) = 1 /\ h[w + 1] < h[w]
      BY <1>1, <1>2, <1>3
  <2> HIDE DEF w
  <2>2. w \in WarmestColumns(h)
      BY <2>1, RiseToPeak
  <2> QED
      BY <2>2 DEF w
<1> QED
    BY <1>1, <1>2, <1>4

LEMMA OneTurn ==
    ASSUME NEW h \in [1..Cols -> Int], SinglePeaked(h),
           NEW x \in Turns(h, -1), NEW y \in Turns(h, -1)
    PROVE  x = y
<1>1. ASSUME NEW u \in Turns(h, -1), NEW v \in Turns(h, -1), u < v PROVE FALSE
  <2>1. /\ u \in 2..Cols /\ u - 1 \in 1..Cols /\ h[u] < h[u - 1] /\ u - 1 \in WarmestColumns(h)
        /\ v \in 2..Cols /\ v - 1 \in 1..Cols /\ h[v] < h[v - 1] /\ v - 1 \in WarmestColumns(h)
      BY TurnFact
  <2>2. u \in 1..Cols /\ u \in Int /\ v \in Int
      BY <2>1, BodyAssumption
  <2>3. h[u] \in Int /\ h[u - 1] \in Int /\ h[v - 1] \in Int
      BY <2>1, <2>2
  <2>4. h[u - 1] <= h[v - 1]
      BY <2>1 DEF WarmestColumns
  <2>5. h[u] < h[v - 1]
      BY <2>1, <2>3, <2>4
  <2>6. u # v - 1
      BY <2>3, <2>5
  <2>7. u - 1 < u /\ u < v - 1
      BY <1>1, <2>2, <2>6
  <2> QED
      BY <2>1, <2>2, <2>5, <2>7 DEF SinglePeaked
<1>2. x \in Int /\ y \in Int
    BY TurnFact
<1>3. x < y \/ y < x \/ x = y
    BY <1>2
<1> QED
    BY <1>1, <1>3

\* When status never turned down and says so at the end, the first column is a
\* warmest one.
LEMMA OnlyFalls ==
    ASSUME NEW h \in [1..Cols -> Int], Turns(h, -1) = {}, Trend(h, Cols) = -1
    PROVE  1 \in WarmestColumns(h)
<1>1. Cols \in Nat \ {0} /\ Cols \in 1..Cols /\ 1 \in 1..Cols
    BY BodyAssumption
<1>2. PICK last \in 2..Cols : Sign(h, last) = -1 /\ Flat(h, last, Cols)
  <2>1. -1 # 0
      OBVIOUS
  <2> QED
      BY <1>1, <2>1, TrendFact
<1>3. h[last] < h[last - 1]
    BY <1>2, SignDown
<1>4. ASSUME NEW w \in 2..Cols, h[w] > h[w - 1] PROVE FALSE
  <2> DEFINE falls == {z \in w + 1..Cols : h[z] < h[z - 1]}
             x == Min(falls)
  <2>1. h[w] \in Int /\ h[w - 1] \in Int /\ h[last] \in Int /\ h[last - 1] \in Int /\ w \in Int
      BY ColumnsFact
  <2>2. last \in falls
    <3>1. w # last
        BY <1>3, <1>4, <2>1
    <3>2. ~(w > last)
      <4>1. SUFFICES ASSUME w > last PROVE FALSE
          OBVIOUS
      <4>2. w \in last + 1..Cols
          BY <1>1, <4>1
      <4> QED
          BY <1>2, <1>4, <2>1, <4>2 DEF Flat
    <3>3. last \in w + 1..Cols
        BY <1>1, <3>1, <3>2
    <3> QED
        BY <1>3, <3>3
  <2>3. falls \subseteq Nat
      BY <1>1
  <2>4. \A z \in falls : z \in w + 1..Cols /\ h[z] < h[z - 1]
      OBVIOUS
  <2>5. \A z \in w + 1..Cols : h[z] < h[z - 1] => z \in falls
      OBVIOUS
  <2> HIDE DEF falls
  <2>6. x \in falls /\ \A z \in falls : x <= z
      BY <2>2, <2>3, LeastOf
  <2> HIDE DEF x
  <2>7. x \in w + 1..Cols /\ h[x] < h[x - 1] /\ x \in 2..Cols /\ x - 1 \in 1..Cols /\ x - 1 \in Nat
      BY <1>1, <2>4, <2>6
  <2>8. Sign(h, x) = -1
      BY <2>7, SignDown
  <2>9. Trend(h, x - 1) = 1
    <3> DEFINE changes == {z \in 2..x - 1 : h[z] # h[z - 1]}
               c == Max(changes)
    <3>1. Trend(h, x - 1) = IF changes = {} THEN 0 ELSE Sign(h, c)
        BY DEF Trend
    <3>2. w \in changes
        BY <1>1, <1>4, <2>1, <2>7
    <3>3. changes \in SUBSET (1..x - 1)
        BY <2>7
    <3>4. \A z \in changes : z \in 2..x - 1 /\ h[z] # h[z - 1]
        OBVIOUS
    <3> HIDE DEF changes
    <3>5. c \in changes /\ w <= c
      <4>1. \A I \in SUBSET (1..x - 1) : I # {} => Max(I) \in I /\ \A i \in I : i <= Max(I)
          BY <2>7, GreatestOf
      <4> QED
          BY <3>2, <3>3, <4>1
    <3> HIDE DEF c
    <3>6. c \in 2..x - 1 /\ h[c] # h[c - 1] /\ c \in 2..Cols
      <4>1. c \in 2..x - 1 /\ h[c] # h[c - 1]
          BY <3>4, <3>5
      <4>2. c \in 2..Cols
          BY <1>1, <2>7, <4>1
      <4> QED
          BY <4>1, <4>2
    <3>7. h[c] \in Int /\ h[c - 1] \in Int
        BY <3>6, ColumnsFact
    <3>8. ~(h[c] < h[c - 1])
      <4>1. SUFFICES ASSUME h[c] < h[c - 1] PROVE FALSE
          OBVIOUS
      <4>2. c # w
          BY <1>4, <2>1, <4>1
      <4>3. c \in w + 1..Cols
          BY <2>1, <3>5, <3>6, <4>2
      <4>4. x <= c
          BY <2>5, <2>6, <4>1, <4>3
      <4> QED
          BY <2>7, <3>6, <4>4
    <3>9. Sign(h, c) = 1
      <4>1. h[c] > h[c - 1]
          BY <3>6, <3>7, <3>8
      <4> QED
          BY <3>6, <4>1, SignUp
    <3> QED
        BY <3>1, <3>2, <3>9
  <2>10. x \in Turns(h, -1)
    <3>1. Trend(h, x - 1) = -(-1)
        BY <2>9, MinusMinus
    <3> QED
        BY <2>7, <2>8, <3>1 DEF Turns
  <2> QED
      BY <2>10
<1>5. ASSUME NEW z \in 1..Cols PROVE h[z] <= h[1]
  <2>1. \A w \in 2..z : h[w] <= h[w - 1]
    <3> TAKE w \in 2..z
    <3>1. w \in 2..Cols
        BY <1>1
    <3>2. h[w] \in Int /\ h[w - 1] \in Int
        BY <3>1, ColumnsFact
    <3> QED
        BY <1>4, <3>1, <3>2
  <2> QED
      BY <2>1, Falling
<1> QED
    BY <1>1, <1>5 DEF WarmestColumns

LEMMA HistType ==
    ASSUME TypeInv
    PROVE  Hist \in [1..Cols -> Int]
<1>1. frame \in [Pixels -> Int]
  <2>1. \A p \in Pixels : Background[p] \in Int /\ diffs[p] \in Int
    <3>1. Background \in [Pixels -> 0..255] /\ diffs \in [Pixels -> 0..255]
        BY BodyAssumption DEF TypeInv
    <3> QED
        BY <3>1
  <2> QED
      BY <2>1 DEF frame
<1> DEFINE Column(x) == {p \in Pixels : p[1] = x}
<1>2. \A x \in 1..Cols : Column(x) \subseteq Pixels
    OBVIOUS
<1> HIDE DEF Column
<1>3. \A x \in 1..Cols : SumOver(frame, Column(x)) \in Int
    BY <1>1, <1>2, SumOverType
<1> QED
    BY <1>3 DEF Hist, Column

\* With one peak, Peaks has one column, in the peak or right behind it.
LEMMA PeaksFact ==
    ASSUME TypeInv, SinglePeaked(Hist), Peaks # {}
    PROVE  \E x \in Int : /\ Peaks = {x}
                          /\ x \in WarmestColumns(Hist) \/ x - 1 \in WarmestColumns(Hist)
<1> DEFINE h == Hist
<1>1. h \in [1..Cols -> Int] /\ Cols \in 1..Cols /\ Cols \in Int /\ 1 \in Int
    BY HistType, BodyAssumption
<1>2. inc_decs = Turns(h, -1)
    BY DEF inc_decs
<1> HIDE DEF h
<1>3. SinglePeaked(h)
    BY DEF h
<1>4. CASE inc_decs # {}
  <2>1. PICK x \in Turns(h, -1) : TRUE
      BY <1>2, <1>4
  <2>2. inc_decs = {x}
      BY <1>1, <1>2, <1>3, OneTurn
  <2>3. x \in Int /\ x - 1 \in WarmestColumns(h)
      BY <1>1, <1>3, TurnFact
  <2>4. Peaks = {x}
      BY <1>4, <2>2 DEF Peaks
  <2> QED
      BY <2>3, <2>4 DEF h
<1>5. CASE inc_decs = {}
  <2>1. Peaks = CASE Trend(h, Cols) = 1 -> {Cols}
                  [] Trend(h, Cols) = -1 -> {1}
                  [] OTHER -> {}
      BY <1>5 DEF Peaks, h
  <2>2. CASE Trend(h, Cols) = 1
    <3>1. Peaks = {Cols}
        BY <2>1, <2>2
    <3>2. Cols \in WarmestColumns(h)
        BY <1>1, <1>3, <2>2, RiseToPeak
    <3> QED
        BY <1>1, <3>1, <3>2 DEF h
  <2>3. CASE Trend(h, Cols) = -1
    <3>1. Peaks = {1}
        BY <2>1, <2>3
    <3>2. 1 \in WarmestColumns(h)
        BY <1>1, <1>2, <1>5, <2>3, OnlyFalls
    <3> QED
        BY <1>1, <3>1, <3>2 DEF h
  <2>4. Trend(h, Cols) \in {1, -1}
      BY <2>1
  <2> QED
      BY <2>2, <2>3, <2>4
<1> QED
    BY <1>4, <1>5

\* A lone body is placed at the one peak.
LEMMA LoneBodyIsCentred ==
    ASSUME NEW a, NEW b, BodiesOf(found_bodies, a, b), Len(Centred) = 1,
           NEW x \in Int, Peaks = {x}
    PROVE  Centred[1].cx = x
<1> DEFINE f == found_bodies
<1>1. 1..2 = {1, 2} /\ 2 \in Nat
    OBVIOUS
<1>2. Len(f) # 2
  <2>1. SUFFICES ASSUME Len(f) = 2 PROVE FALSE
      OBVIOUS
  <2>2. DOMAIN f = {1, 2}
      BY <2>1 DEF BodiesOf
  <2> DEFINE gap == Min(dec_incs)
             g == [f EXCEPT ![1].cx = gap - 1, ![2].cx = gap + 1]
  <2>3. DOMAIN g = 1..2 /\ g = [i \in 1..2 |-> g[i]]
      BY <1>1, <2>2
  <2>4. Centred = g \/ Centred = f
      BY <2>1 DEF Centred
  <2> HIDE DEF g
  <2>5. Len(g) = 2
      BY <1>1, <2>3, LengthOfFunction
  <2> QED
      BY <2>1, <2>4, <2>5
<1>3. Cardinality(Peaks) = 1
    BY FS_Singleton
<1>4. Min(Peaks) = x
    BY DEF Min
<1>5. Len(f) = 1
  <2>1. Len(f) # 1 => Centred = f
      BY <1>2 DEF Centred
  <2> QED
      BY <2>1
<1>6. Centred = [f EXCEPT ![1].cx = x]
  <2>1. Centred = [f EXCEPT ![1].cx = Min(Peaks)]
      BY <1>3, <1>5 DEF Centred
  <2> QED
      BY <1>4, <2>1
<1>7. DOMAIN f = {1} /\ f[1] = Body(a)
    BY <1>5 DEF BodiesOf
<1>8. "cx" \in DOMAIN f[1]
    BY <1>7 DEF Body
<1> QED
    BY <1>6, <1>7, <1>8

\* CentreIsAtThePeak is inductive together with ComponentsInv, which says what
\* the bodies are when find_body_center starts.
LEMMA CentreStep ==
    ASSUME TypeInv, ComponentsInv, CentreIsAtThePeak, [Next]_vars
    PROVE  CentreIsAtThePeak'
<1>1. CASE Centre
  <2>1. SUFFICES ASSUME pc' = "filter", Len(found_bodies') = 1, SinglePeaked(Hist')
                 PROVE  \/ found_bodies'[1].cx \in WarmestColumns(Hist')
                        \/ found_bodies'[1].cx - 1 \in WarmestColumns(Hist')
    <3>1. SinglePeaked(Hist)' = SinglePeaked(Hist')
        BY DEF SinglePeaked
    <3> QED
        BY <3>1 DEF CentreIsAtThePeak, WarmestColumns
  <2>2. Hist' = Hist
    <3>1. diffs' = diffs
        BY <1>1 DEF Centre
    <3> QED
        BY <3>1 DEF Hist, frame
  <2>3. found_bodies' = Centred /\ ~(Len(found_bodies) = 1 /\ Peaks = {}) /\ pc = "centre"
      BY <1>1, <2>1 DEF Centre
  <2>4. PICK a, b : BodiesOf(found_bodies, a, b)
      BY <2>3, ContoursDistinct, BodiesFact DEF ComponentsInv
  <2>5. Peaks # {}
    <3>1. SUFFICES ASSUME Peaks = {} PROVE FALSE
        OBVIOUS
    <3>2. Len(found_bodies) # 1
        BY <2>3, <3>1
    <3>3. Len(Centred) # 1
      <4>1. CASE Len(found_bodies) = 2
        <5> DEFINE gap == Min(dec_incs)
                   g == [found_bodies EXCEPT ![1].cx = gap - 1, ![2].cx = gap + 1]
        <5>1. DOMAIN found_bodies = {1, 2} /\ {1, 2} = 1..2 /\ 2 \in Nat
            BY <2>4, <4>1 DEF BodiesOf
        <5>2. g = [i \in 1..2 |-> g[i]]
            BY <5>1
        <5>3. Centred = g \/ Centred = found_bodies
            BY <3>2 DEF Centred
        <5> HIDE DEF g
        <5>4. Len(g) = 2
            BY <5>1, <5>2, LengthOfFunction
        <5> QED
            BY <3>2, <5>3, <5>4
      <4>2. CASE Len(found_bodies) # 2
        <5>1. Centred = found_bodies
            BY <3>2, <4>2 DEF Centred
        <5> QED
            BY <3>2, <5>1
      <4> QED
          BY <4>1, <4>2
    <3> QED
        BY <2>1, <2>3, <3>3
  <2>6. PICK x \in Int : /\ Peaks = {x}
                         /\ x \in WarmestColumns(Hist) \/ x - 1 \in WarmestColumns(Hist)
      BY <2>1, <2>2, <2>5, PeaksFact
  <2>7. Centred[1].cx = x
      BY <2>1, <2>3, <2>4, <2>6, LoneBodyIsCentred
  <2> QED
      BY <2>2, <2>3, <2>6, <2>7
<1>2. CASE UNCHANGED vars
  <2>1. UNCHANGED <<diffs, found_bodies, pc>>
      BY <1>2 DEF vars
  <2>2. Hist' = Hist
      BY <2>1 DEF Hist, frame
  <2> QED
      BY <2>1, <2>2 DEF CentreIsAtThePeak, SinglePeaked
<1>3. ASSUME Next, ~Centre PROVE CentreIsAtThePeak'
  <2>1. pc' # "filter"
      BY <1>3 DEF Next, TypeInv, Learn, Look, Cut, Scan, Visit, Found, Pick, Filter, AssignSides
  <2> QED
      BY <2>1 DEF CentreIsAtThePeak
<1> QED
    BY <1>1, <1>2, <1>3

\* For every frame whose heat has one peak, a lone body is placed in the warmest
\* column or right behind the last such one (OccupancyCounter.cpp:1231-1300).
THEOREM CentreAtPeak == Spec => []CentreIsAtThePeak
<1>1. Init => TypeInv /\ ComponentsInv /\ CentreIsAtThePeak
    BY TypeInit DEF Init, ComponentsInv, CentreIsAtThePeak
<1>2. TypeInv /\ ComponentsInv /\ CentreIsAtThePeak /\ [Next]_vars =>
          TypeInv' /\ ComponentsInv' /\ CentreIsAtThePeak'
    BY TypeStep, ComponentsStep, CentreStep
<1> QED
    BY <1>1, <1>2, PTL DEF Spec
-----------------------------------------------------------------------------
(***************************************************************************)
(* check_by_histogram.  A histogram that begins and ends with 0 is a       *)
(* sequence of hills, which rise and then fall; the walk over the bins     *)
(* ends a pulse where the next hill begins (WalkOK).  So the pulses are    *)
(* the peaks of the histogram, in order (PulsesArePeaks).                  *)
(***************************************************************************)

\* From bin a to bin b no bin is lower, or higher, than the one before.
Rises(h, a, b) == \A x \in a + 1..b : h[x] >= h[x - 1]
Falls(h, a, b) == \A x \in a + 1..b : h[x] <= h[x - 1]

\* Bins a to b are equal, and those next to them are lower.
IsPeak(h, a, b) ==
    /\ a \in 1..histSize - 2 /\ b \in a..histSize - 2
    /\ Flat(h, a, b) /\ h[a - 1] < h[a] /\ h[b + 1] < h[b]

\* Behind bin lo, up to bin hi, the histogram rises to bin a, is flat to bin b
\* and falls.
Hill(h, lo, a, b, hi) ==
    /\ a \in lo + 1..hi /\ b \in a..hi - 1
    /\ Rises(h, lo, a) /\ Flat(h, a, b) /\ Falls(h, b, hi)
    /\ h[a - 1] < h[a] /\ h[b + 1] < h[b]

\* A hill has one peak.
LEMMA HillPeak ==
    ASSUME NEW h \in Histograms, NEW lo \in Nat, NEW hi \in 0..histSize - 1, NEW a, NEW b,
           Hill(h, lo, a, b, hi)
    PROVE  /\ IsPeak(h, a, b)
           /\ \A c, d : IsPeak(h, c, d) /\ lo < c /\ c <= hi => c = a /\ d = b
<1>1. /\ a \in lo + 1..hi /\ b \in a..hi - 1 /\ histSize \in Nat
      /\ h[a - 1] < h[a] /\ h[b + 1] < h[b]
    BY HistogramAssumption DEF Hill
<1>2. IsPeak(h, a, b)
    BY <1>1 DEF Hill, IsPeak
<1>3. ASSUME NEW c, NEW d, IsPeak(h, c, d), lo < c, c <= hi PROVE c = a /\ d = b
  <2>1. /\ c \in 1..histSize - 2 /\ d \in c..histSize - 2
        /\ h[c - 1] < h[c] /\ h[d + 1] < h[d]
      BY <1>3 DEF IsPeak
  <2>2. \A x \in 0..histSize - 1 : h[x] \in Nat
      BY DEF Histograms
  <2>3. ~(b < c)
    <3>1. SUFFICES ASSUME b < c PROVE FALSE
        OBVIOUS
    <3>2. c \in b + 1..hi
        BY <1>1, <1>3, <2>1, <3>1
    <3>3. h[c] <= h[c - 1]
        BY <3>2 DEF Hill, Falls
    <3>4. h[c] \in Nat /\ h[c - 1] \in Nat
        BY <1>1, <2>1, <2>2
    <3> QED
        BY <2>1, <3>3, <3>4
  <2>4. ~(a < c /\ c <= b)
    <3>1. SUFFICES ASSUME a < c, c <= b PROVE FALSE
        OBVIOUS
    <3>2. c \in a + 1..b
        BY <1>1, <2>1, <3>1
    <3>3. h[c] = h[c - 1]
        BY <3>2 DEF Hill, Flat
    <3> QED
        BY <1>1, <2>1, <2>2, <3>3
  <2>5. ~(c < a /\ a <= d)
    <3>1. SUFFICES ASSUME c < a, a <= d PROVE FALSE
        OBVIOUS
    <3>2. a \in c + 1..d
        BY <1>1, <2>1, <3>1
    <3>3. h[a] = h[a - 1]
        BY <1>3, <3>2 DEF IsPeak, Flat
    <3> QED
        BY <1>1, <2>2, <3>3
  <2>6. ~(c < a /\ d < a)
    <3>1. SUFFICES ASSUME c < a, d < a PROVE FALSE
        OBVIOUS
    <3>2. d + 1 \in lo + 1..a /\ (d + 1) - 1 = d
        BY <1>1, <1>3, <2>1, <3>1
    <3>3. h[d + 1] >= h[d]
        BY <3>2 DEF Hill, Rises
    <3>4. h[d + 1] \in Nat /\ h[d] \in Nat
        BY <1>1, <2>1, <2>2
    <3> QED
        BY <2>1, <3>3, <3>4
  <2>7. c = a
      BY <1>1, <2>1, <2>3, <2>4, <2>5, <2>6
  <2>8. ~(d < b)
    <3>1. SUFFICES ASSUME d < b PROVE FALSE
        OBVIOUS
    <3>2. d + 1 \in a + 1..b /\ (d + 1) - 1 = d
        BY <1>1, <2>1, <2>7, <3>1
    <3>3. h[d + 1] = h[d]
        BY <3>2 DEF Hill, Flat
    <3> QED
        BY <1>1, <2>1, <2>2, <3>3
  <2>9. ~(b < d)
    <3>1. SUFFICES ASSUME b < d PROVE FALSE
        OBVIOUS
    <3>2. b + 1 \in c + 1..d /\ (b + 1) - 1 = b
        BY <1>1, <2>1, <2>7, <3>1
    <3>3. h[b + 1] = h[b]
        BY <1>3, <3>2 DEF IsPeak, Flat
    <3> QED
        BY <1>1, <2>2, <3>3
  <2> QED
      BY <1>1, <2>1, <2>7, <2>8, <2>9
<1> QED
    BY <1>2, <1>3

LEMMA GreaterOfTwo ==
    ASSUME NEW x \in Int, NEW y \in Int
    PROVE  Max({x, y}) = IF x >= y THEN x ELSE y
<1>1. CASE x >= y
  <2>1. Max({x, y}) \in {x, y} /\ Max({x, y}) >= x
      BY <1>1 DEF Max
  <2> QED
      BY <1>1, <2>1
<1>2. CASE y > x
  <2>1. Max({x, y}) \in {x, y} /\ Max({x, y}) >= y
      BY <1>2 DEF Max
  <2> QED
      BY <1>2, <2>1
<1> QED
    BY <1>1, <1>2

\* The walk over the bins whose numbers are in I.
IsWalkOf(w, h, s, D) ==
    w = [I \in SUBSET D |->
            IF I = {} THEN Start(h) ELSE Bin(w[I \ {Max(I)}], h[s[Max(I)]], s[Max(I)])]
WalkOf(h, s) == CHOOSE w : IsWalkOf(w, h, s, DOMAIN s)

Bins == [i \in 1..histSize - 1 |-> i]

LEMMA WalkIsFold == \A h : Walk(h) = WalkOf(h, Bins)[DOMAIN Bins]
BY DEF Walk, FoldLeft, MapThenFoldSet, WalkOf, IsWalkOf, Bins

LEMMA WalkExists ==
    ASSUME NEW h, NEW s, NEW n \in Nat
    PROVE  \E w : IsWalkOf(w, h, s, 1..n)
<1> DEFINE P == {k \in Nat : \E w : IsWalkOf(w, h, s, 1..k)}
<1>1. 0 \in P
  <2> DEFINE z == [I \in SUBSET (1..0) |-> Start(h)]
  <2>1. \A I \in SUBSET (1..0) : I = {}
      OBVIOUS
  <2>2. IsWalkOf(z, h, s, 1..0)
      BY <2>1 DEF IsWalkOf
  <2> QED
      BY <2>2
<1>2. ASSUME NEW k \in Nat, k \in P PROVE k + 1 \in P
  <2>1. PICK g : IsWalkOf(g, h, s, 1..k)
      BY <1>2
  <2> DEFINE w == [I \in SUBSET (1..(k + 1)) |->
                      IF k + 1 \notin I THEN g[I] ELSE Bin(g[I \ {k + 1}], h[s[k + 1]], s[k + 1])]
  <2>2. ASSUME NEW I \in SUBSET (1..(k + 1))
        PROVE  w[I] = IF I = {} THEN Start(h) ELSE Bin(w[I \ {Max(I)}], h[s[Max(I)]], s[Max(I)])
    <3>1. CASE k + 1 \in I
      <4>1. Max(I) = k + 1
          BY <3>1, SegmentTop
      <4>2. I \ {k + 1} \in SUBSET (1..(k + 1)) /\ k + 1 \notin I \ {k + 1}
          OBVIOUS
      <4>3. w[I \ {k + 1}] = g[I \ {k + 1}]
          BY <4>2
      <4>4. w[I] = Bin(g[I \ {k + 1}], h[s[k + 1]], s[k + 1])
          BY <3>1
      <4> HIDE DEF w
      <4> QED
          BY <4>1, <4>3, <4>4, <3>1
    <3>2. CASE k + 1 \notin I
      <4>1. I \in SUBSET (1..k)
          BY <3>2
      <4>2. w[I] = g[I]
          BY <3>2
      <4>3. g[I] = IF I = {} THEN Start(h) ELSE Bin(g[I \ {Max(I)}], h[s[Max(I)]], s[Max(I)])
          BY <2>1, <4>1 DEF IsWalkOf
      <4>4. I \ {Max(I)} \in SUBSET (1..(k + 1)) /\ k + 1 \notin I \ {Max(I)}
          BY <3>2
      <4>5. w[I \ {Max(I)}] = g[I \ {Max(I)}]
          BY <4>4
      <4> HIDE DEF w
      <4> QED
          BY <4>2, <4>3, <4>5
    <3> QED
        BY <3>1, <3>2
  <2>3. w = [I \in SUBSET (1..(k + 1)) |-> w[I]]
      OBVIOUS
  <2> HIDE DEF w
  <2>4. IsWalkOf(w, h, s, 1..(k + 1))
      BY <2>2, <2>3 DEF IsWalkOf
  <2> QED
      BY <2>4
<1> HIDE DEF P
<1>3. n \in P
    BY <1>1, <1>2, NatInduct
<1> QED
    BY <1>3 DEF P

\* The states of the walk, one for each bin.
LEMMA WalkSteps ==
    ASSUME NEW h
    PROVE  \E st : /\ st[0] = Start(h) /\ st[histSize - 1] = Walk(h)
                   /\ \A k \in 0..histSize - 2 : st[k + 1] = Bin(st[k], h[k + 1], k + 1)
<1>1. histSize \in Nat /\ histSize - 1 \in Nat
    BY HistogramAssumption
<1>2. DOMAIN Bins = 1..histSize - 1 /\ \A i \in 1..histSize - 1 : Bins[i] = i
    BY DEF Bins
<1> DEFINE w == WalkOf(h, Bins)
<1>3. IsWalkOf(w, h, Bins, 1..histSize - 1)
    BY <1>1, <1>2, WalkExists DEF WalkOf
<1> HIDE DEF w
<1> DEFINE st == [k \in 0..histSize - 1 |-> w[1..k]]
<1>4. st[0] = Start(h)
  <2>1. 1..0 = {} /\ 1..0 \in SUBSET (1..histSize - 1) /\ 0 \in 0..histSize - 1
      BY <1>1
  <2>2. w[{}] = Start(h)
      BY <1>3, <2>1 DEF IsWalkOf
  <2> QED
      BY <2>1, <2>2
<1>5. st[histSize - 1] = Walk(h)
    BY <1>1, <1>2, WalkIsFold DEF w
<1>6. ASSUME NEW k \in 0..histSize - 2 PROVE st[k + 1] = Bin(st[k], h[k + 1], k + 1)
  <2>1. /\ k \in Nat /\ k + 1 \in 0..histSize - 1 /\ k \in 0..histSize - 1
        /\ k + 1 \in 1..histSize - 1
        /\ 1..(k + 1) \in SUBSET (1..histSize - 1) /\ 1..(k + 1) # {}
      BY <1>1
  <2>2. Max(1..(k + 1)) = k + 1 /\ (1..(k + 1)) \ {k + 1} = 1..k
      BY <2>1, SegmentTop
  <2>3. w[1..(k + 1)] = Bin(w[(1..(k + 1)) \ {Max(1..(k + 1))}], h[Bins[Max(1..(k + 1))]],
                            Bins[Max(1..(k + 1))])
      BY <1>3, <2>1 DEF IsWalkOf
  <2>4. Bins[k + 1] = k + 1
      BY <1>2, <2>1
  <2> QED
      BY <2>1, <2>2, <2>3, <2>4
<1> HIDE DEF st
<1> QED
    BY <1>4, <1>5, <1>6

Pulse == [end : Nat, amp : Int]
Walker == [pre : Int, status : -1..1, amp : Int, pulses : Seq(Pulse), top : Int]

\* Where pulse j begins: behind the end of the one before.
Begin(pulses, j) == IF j = 1 THEN 0 ELSE pulses[j - 1].end

PulsesOK(h, pulses) ==
    \A j \in 1..Len(pulses) : \E a, b :
        Hill(h, Begin(pulses, j), a, b, pulses[j].end) /\ pulses[j].amp = h[a]

\* The present pulse, which begins behind bin lo: nothing yet, rising, falling.
Even(h, k, s) ==
    s.pulses = <<>> /\ Flat(h, 0, k) /\ h[k] = 0 /\ s.amp \in {-1, 0} /\ s.top = 0

Up(h, k, lo, amp) ==
    \E a \in lo + 1..k :
        Rises(h, lo, a) /\ Flat(h, a, k) /\ h[a - 1] < h[a] /\ h[k] = h[a] /\ amp = h[a]

Down(h, k, lo, amp) == \E a, b : Hill(h, lo, a, b, k) /\ amp = h[a] /\ h[k] < h[a]

\* The highest bin so far is one of the pulses that ended or the present one.
TopOK(s) ==
    /\ s.amp <= s.top /\ \A j \in 1..Len(s.pulses) : s.pulses[j].amp <= s.top
    /\ s.status # 0 => s.top = s.amp \/ \E j \in 1..Len(s.pulses) : s.top = s.pulses[j].amp

\* The walk at bin k.
WalkOK(h, k, s) ==
    LET lo == Begin(s.pulses, Len(s.pulses) + 1)
    IN  /\ s \in Walker /\ s.pre = h[k] /\ lo \in 0..k
        /\ PulsesOK(h, s.pulses) /\ TopOK(s)
        /\ s.status = 0 => Even(h, k, s)
        /\ s.status = 1 => Up(h, k, lo, s.amp)
        /\ s.status = -1 => Down(h, k, lo, s.amp)

LEMMA WalkStarts ==
    ASSUME NEW h \in Histograms, h[0] = 0
    PROVE  WalkOK(h, 0, Start(h))
<1> DEFINE s == Start(h)
<1>1. /\ s.pre = 0 /\ s.status = 0 /\ s.amp = -1 /\ s.pulses = <<>> /\ s.top = 0
    BY DEF Start
<1>2. s \in Walker
    BY DEF Start, Walker
<1> HIDE DEF s
<1>3. Len(s.pulses) = 0 /\ Begin(s.pulses, Len(s.pulses) + 1) = 0
    BY <1>1 DEF Begin
<1>4. Even(h, 0, s)
    BY <1>1 DEF Even, Flat
<1>5. PulsesOK(h, s.pulses) /\ TopOK(s)
    BY <1>1, <1>3 DEF PulsesOK, TopOK
<1> QED
    BY <1>1, <1>2, <1>3, <1>4, <1>5 DEF WalkOK, s

\* The next bin is higher.
LEMMA UpByOne ==
    ASSUME NEW h \in Histograms, NEW k \in 0..histSize - 2, NEW lo \in 0..k,
           Rises(h, lo, k), h[k] < h[k + 1]
    PROVE  Up(h, k + 1, lo, h[k + 1])
<1>1. Rises(h, lo, k + 1)
  <2>1. ASSUME NEW x \in lo + 1..k + 1 PROVE h[x] >= h[x - 1]
    <3>1. CASE x = k + 1
        BY <3>1, HistogramAssumption DEF Histograms
    <3>2. CASE x # k + 1
      <4>1. x \in lo + 1..k
          BY <3>2
      <4> QED
          BY <4>1 DEF Rises
    <3> QED
        BY <3>1, <3>2
  <2> QED
      BY <2>1 DEF Rises
<1>2. Flat(h, k + 1, k + 1) /\ k + 1 \in lo + 1..k + 1 /\ (k + 1) - 1 = k
    BY DEF Flat
<1> QED
    BY <1>1, <1>2 DEF Up

LEMMA FlatLonger ==
    ASSUME NEW h, NEW k \in Nat, NEW a \in 0..k, Flat(h, a, k), h[k + 1] = h[k]
    PROVE  Flat(h, a, k + 1)
<1>1. ASSUME NEW x \in a + 1..k + 1 PROVE h[x] = h[x - 1]
  <2>1. CASE x = k + 1
      BY <2>1
  <2>2. CASE x # k + 1
    <3>1. x \in a + 1..k
        BY <2>2
    <3> QED
        BY <3>1 DEF Flat
  <2> QED
      BY <2>1, <2>2
<1> QED
    BY <1>1 DEF Flat

\* The next bin is not higher, on a slope.
LEMMA DownLonger ==
    ASSUME NEW h \in Histograms, NEW k \in 0..histSize - 2, NEW lo \in 0..k, NEW amp,
           Down(h, k, lo, amp), h[k + 1] <= h[k]
    PROVE  Down(h, k + 1, lo, amp)
<1>1. PICK a, b : Hill(h, lo, a, b, k) /\ amp = h[a] /\ h[k] < h[a]
    BY DEF Down
<1>2. a \in lo + 1..k /\ b \in a..k - 1
    BY <1>1 DEF Hill
<1>3. Falls(h, b, k + 1)
  <2>1. ASSUME NEW x \in b + 1..k + 1 PROVE h[x] <= h[x - 1]
    <3>1. CASE x = k + 1
        BY <3>1
    <3>2. CASE x # k + 1
      <4>1. x \in b + 1..k
          BY <1>2, <3>2
      <4> QED
          BY <1>1, <4>1 DEF Hill, Falls
    <3> QED
        BY <3>1, <3>2
  <2> QED
      BY <2>1 DEF Falls
<1>4. a \in lo + 1..k + 1 /\ b \in a..(k + 1) - 1
    BY <1>2
<1>5. Hill(h, lo, a, b, k + 1)
    BY <1>1, <1>3, <1>4 DEF Hill
<1>6. h[k + 1] < h[a]
  <2>1. h[k + 1] \in Nat /\ h[k] \in Nat /\ h[a] \in Nat
      BY <1>2, HistogramAssumption DEF Histograms
  <2> QED
      BY <1>1, <2>1
<1> QED
    BY <1>1, <1>5, <1>6 DEF Down

\* From a rise the next bin goes down.
LEMMA DownFirst ==
    ASSUME NEW h \in Histograms, NEW k \in 0..histSize - 2, NEW lo \in 0..k, NEW amp,
           Up(h, k, lo, amp), h[k + 1] < h[k]
    PROVE  Down(h, k + 1, lo, amp)
<1>1. PICK a \in lo + 1..k : /\ Rises(h, lo, a) /\ Flat(h, a, k) /\ h[a - 1] < h[a]
                             /\ h[k] = h[a] /\ amp = h[a]
    BY DEF Up
<1>2. Falls(h, k, k + 1)
  <2>1. ASSUME NEW x \in k + 1..k + 1 PROVE h[x] <= h[x - 1]
    <3>1. x = k + 1 /\ h[k + 1] \in Nat /\ h[k] \in Nat
        BY HistogramAssumption DEF Histograms
    <3> QED
        BY <3>1
  <2> QED
      BY <2>1 DEF Falls
<1>3. a \in lo + 1..k + 1 /\ k \in a..(k + 1) - 1
    OBVIOUS
<1>4. Hill(h, lo, a, k, k + 1)
    BY <1>1, <1>2, <1>3 DEF Hill
<1> QED
    BY <1>1, <1>4 DEF Down

\* A rise goes on, or comes to a level.
LEMMA UpRises ==
    ASSUME NEW h \in Histograms, NEW k \in 0..histSize - 2, NEW lo \in 0..k, NEW amp,
           Up(h, k, lo, amp)
    PROVE  Rises(h, lo, k) /\ amp = h[k] /\ (h[k + 1] = h[k] => Up(h, k + 1, lo, amp))
<1>1. PICK a \in lo + 1..k : /\ Rises(h, lo, a) /\ Flat(h, a, k) /\ h[a - 1] < h[a]
                             /\ h[k] = h[a] /\ amp = h[a]
    BY DEF Up
<1>2. Rises(h, lo, k)
  <2>1. ASSUME NEW x \in lo + 1..k PROVE h[x] >= h[x - 1]
    <3>1. CASE x \in lo + 1..a
        BY <1>1, <3>1 DEF Rises
    <3>2. CASE x \notin lo + 1..a
      <4>1. h[x] = h[x - 1] /\ h[x] \in Nat
        <5>1. x \in a + 1..k /\ x \in 0..histSize - 1
            BY <3>2, HistogramAssumption
        <5> QED
            BY <1>1, <5>1 DEF Flat, Histograms
      <4> QED
          BY <4>1
    <3> QED
        BY <3>1, <3>2
  <2> QED
      BY <2>1 DEF Rises
<1>3. ASSUME h[k + 1] = h[k] PROVE Up(h, k + 1, lo, amp)
  <2>1. Flat(h, a, k + 1)
      BY <1>1, <1>3, FlatLonger
  <2>2. a \in lo + 1..k + 1
      OBVIOUS
  <2> QED
      BY <1>1, <1>3, <2>1, <2>2 DEF Up
<1> QED
    BY <1>1, <1>2, <1>3

\* The fields of the next state.
LEMMA BinFact ==
    ASSUME NEW s \in Walker, NEW v \in Nat, NEW k \in Nat
    PROVE  LET t == Bin(s, v, k + 1)
               ends == v > s.pre /\ s.status = -1
               amp == IF ends \/ v >= s.amp THEN v ELSE s.amp
           IN  /\ t \in Walker /\ t.pre = v /\ t.amp = amp
               /\ t.top = IF s.top >= amp THEN s.top ELSE amp
               /\ t.status = IF v > s.pre THEN 1 ELSE IF v < s.pre THEN -1 ELSE s.status
               /\ t.pulses = IF ends THEN Append(s.pulses, [end |-> k, amp |-> s.amp])
                             ELSE s.pulses
<1> DEFINE t == Bin(s, v, k + 1)
           ends == v > s.pre /\ s.status = -1
           amp == IF ends \/ v >= s.amp THEN v ELSE s.amp
<1>1. /\ s.pre \in Int /\ s.status \in -1..1 /\ s.amp \in Int /\ s.pulses \in Seq(Pulse)
      /\ s.top \in Int
    BY DEF Walker
<1>2. Max({v, IF ends THEN -1 ELSE s.amp}) = amp
  <2>1. CASE ends
      BY <1>1, <2>1, GreaterOfTwo
  <2>2. CASE ~ends
      BY <1>1, <2>2, GreaterOfTwo
  <2> QED
      BY <2>1, <2>2
<1>3. amp \in Int
    BY <1>1
<1>4. Ends(s, v) = ends
    BY DEF Ends
<1> HIDE DEF ends, amp
<1>5. Max({s.top, amp}) = IF s.top >= amp THEN s.top ELSE amp
    BY <1>1, <1>3, GreaterOfTwo
<1>6. (k + 1) - 1 = k
    OBVIOUS
<1>7. t = [pre |-> v,
           status |-> IF v > s.pre THEN 1 ELSE IF v < s.pre THEN -1 ELSE s.status,
           amp |-> amp,
           pulses |-> IF ends THEN Append(s.pulses, [end |-> k, amp |-> s.amp]) ELSE s.pulses,
           top |-> IF s.top >= amp THEN s.top ELSE amp]
    BY <1>2, <1>4, <1>5, <1>6 DEF Bin, ends
<1> HIDE DEF t
<1>8. t.pulses \in Seq(Pulse)
  <2>1. [end |-> k, amp |-> s.amp] \in Pulse
      BY <1>1 DEF Pulse
  <2> QED
      BY <1>1, <1>7, <2>1
<1>9. t.top \in Int /\ t.amp \in Int /\ t.pre \in Int /\ t.status \in -1..1
    BY <1>1, <1>3, <1>7
<1>10. t \in Walker
    BY <1>7, <1>8, <1>9 DEF Walker
<1>11. /\ t.pre = v /\ t.amp = amp /\ t.top = IF s.top >= amp THEN s.top ELSE amp
       /\ t.status = IF v > s.pre THEN 1 ELSE IF v < s.pre THEN -1 ELSE s.status
       /\ t.pulses = IF ends THEN Append(s.pulses, [end |-> k, amp |-> s.amp]) ELSE s.pulses
    BY <1>7
<1> QED
    BY <1>10, <1>11 DEF t, ends, amp

\* One pulse more.
LEMMA PulsesLonger ==
    ASSUME NEW h, NEW ps \in Seq(Pulse), NEW p \in Pulse, PulsesOK(h, ps),
           \E a, b : Hill(h, Begin(ps, Len(ps) + 1), a, b, p.end) /\ p.amp = h[a]
    PROVE  /\ PulsesOK(h, Append(ps, p)) /\ Len(Append(ps, p)) = Len(ps) + 1
           /\ \A j \in 1..Len(ps) + 1 : Begin(Append(ps, p), j) = Begin(ps, j)
           /\ Begin(Append(ps, p), Len(ps) + 2) = p.end
<1> DEFINE qs == Append(ps, p)
           n == Len(ps)
<1>1. /\ qs \in Seq(Pulse) /\ n \in Nat /\ Len(qs) = n + 1 /\ qs[n + 1] = p
      /\ \A j \in 1..n : qs[j] = ps[j]
    OBVIOUS
<1> HIDE DEF qs
<1>2. \A j \in 1..n + 1 : Begin(qs, j) = Begin(ps, j)
  <2> TAKE j \in 1..n + 1
  <2>1. j # 1 => j - 1 \in 1..n
      BY <1>1
  <2> QED
      BY <1>1, <2>1 DEF Begin
<1>3. Begin(qs, n + 2) = p.end
  <2>1. n + 2 # 1 /\ (n + 2) - 1 = n + 1
      BY <1>1
  <2> QED
      BY <1>1, <2>1 DEF Begin
<1>4. PulsesOK(h, qs)
  <2>1. ASSUME NEW j \in 1..n + 1
        PROVE  \E a, b : Hill(h, Begin(qs, j), a, b, qs[j].end) /\ qs[j].amp = h[a]
    <3>1. CASE j = n + 1
      <4>1. Begin(qs, j) = Begin(ps, n + 1) /\ qs[j] = p
          BY <1>1, <1>2, <3>1
      <4> QED
          BY <4>1
    <3>2. CASE j # n + 1
      <4>1. j \in 1..n
          BY <1>1, <3>2
      <4>2. Begin(qs, j) = Begin(ps, j) /\ qs[j] = ps[j]
          BY <1>1, <1>2, <4>1
      <4> QED
          BY <4>1, <4>2 DEF PulsesOK
    <3> QED
        BY <3>1, <3>2
  <2> HIDE DEF n
  <2> QED
      BY <1>1, <2>1 DEF PulsesOK
<1> QED
    BY <1>1, <1>2, <1>3, <1>4 DEF qs

LEMMA WalkIsOK ==
    ASSUME NEW h, NEW k, NEW t \in Walker, NEW lo, t.pre = h[k], lo \in 0..k,
           Begin(t.pulses, Len(t.pulses) + 1) = lo, PulsesOK(h, t.pulses), TopOK(t),
           \/ t.status = 0 /\ Even(h, k, t)
           \/ t.status = 1 /\ Up(h, k, lo, t.amp)
           \/ t.status = -1 /\ Down(h, k, lo, t.amp)
    PROVE  WalkOK(h, k, t)
<1>1. /\ t.status = 0 => Even(h, k, t)
      /\ t.status = 1 => Up(h, k, lo, t.amp)
      /\ t.status = -1 => Down(h, k, lo, t.amp)
    OBVIOUS
<1> QED
    BY <1>1 DEF WalkOK

LEMMA WalkStep ==
    ASSUME NEW h \in Histograms, NEW k \in 0..histSize - 2, NEW s, WalkOK(h, k, s)
    PROVE  WalkOK(h, k + 1, Bin(s, h[k + 1], k + 1))
<1> DEFINE v == h[k + 1]
           t == Bin(s, v, k + 1)
           lo == Begin(s.pulses, Len(s.pulses) + 1)
           n == Len(s.pulses)
<1>1. /\ histSize \in Nat /\ k \in Nat /\ k + 1 \in Nat \ {0}
      /\ v \in Nat /\ h[k] \in Nat
    BY HistogramAssumption DEF Histograms
<1>2. /\ s \in Walker /\ s.pre = h[k] /\ lo \in 0..k /\ PulsesOK(h, s.pulses) /\ TopOK(s)
      /\ s.status = 0 => Even(h, k, s)
      /\ s.status = 1 => Up(h, k, lo, s.amp)
      /\ s.status = -1 => Down(h, k, lo, s.amp)
    BY DEF WalkOK
<1>3. /\ s.status \in -1..1 /\ s.amp \in Int /\ s.pulses \in Seq(Pulse) /\ s.top \in Int /\ n \in Nat
    BY <1>2 DEF Walker
<1> DEFINE ends == v > s.pre /\ s.status = -1
           amp == IF ends \/ v >= s.amp THEN v ELSE s.amp
<1>4. /\ t \in Walker /\ t.pre = v /\ t.amp = amp
      /\ t.top = IF s.top >= amp THEN s.top ELSE amp
      /\ t.status = IF v > s.pre THEN 1 ELSE IF v < s.pre THEN -1 ELSE s.status
      /\ t.pulses = IF ends THEN Append(s.pulses, [end |-> k, amp |-> s.amp]) ELSE s.pulses
    BY <1>1, <1>2, BinFact
<1> SUFFICES WalkOK(h, k + 1, t)
    OBVIOUS
<1> HIDE DEF t
<1>5. /\ s.amp <= s.top /\ \A j \in 1..n : s.pulses[j].amp <= s.top
      /\ s.status # 0 => s.top = s.amp \/ \E j \in 1..n : s.top = s.pulses[j].amp
      /\ \A j \in 1..n : s.pulses[j].amp \in Int
  <2>1. \A j \in 1..n : s.pulses[j] \in Pulse
      BY <1>3
  <2> QED
      BY <1>2, <2>1 DEF TopOK, Pulse
\* A pulse ends.
<1>6. CASE v > h[k] /\ s.status = -1
  <2> DEFINE p == [end |-> k, amp |-> s.amp]
  <2>1. t.pulses = Append(s.pulses, p) /\ t.amp = v /\ t.status = 1
      BY <1>2, <1>4, <1>6
  <2>2. p \in Pulse /\ p.end = k /\ p.amp = s.amp
      BY <1>1, <1>3 DEF Pulse
  <2> HIDE DEF p
  <2>3. \E a, b : Hill(h, Begin(s.pulses, n + 1), a, b, p.end) /\ p.amp = h[a]
      BY <1>2, <1>6, <2>2 DEF Down
  <2>4. /\ PulsesOK(h, t.pulses) /\ Len(t.pulses) = n + 1
        /\ Begin(t.pulses, n + 2) = k
      BY <1>2, <1>3, <2>1, <2>2, <2>3, PulsesLonger
  <2>5. t.pulses[n + 1] = p /\ \A j \in 1..n : t.pulses[j] = s.pulses[j]
      BY <1>3, <2>1
  <2>6. Rises(h, k, k)
      BY <1>1 DEF Rises
  <2>7. Up(h, k + 1, k, v)
      BY <1>1, <1>6, <2>6, UpByOne
  <2>8. t.top = IF s.top >= v THEN s.top ELSE v
      BY <1>4, <2>1
  <2>9. TopOK(t)
    <3>1. t.amp <= t.top
        BY <1>1, <1>3, <2>1, <2>8
    <3>2. ASSUME NEW j \in 1..n + 1 PROVE t.pulses[j].amp <= t.top
      <4>1. CASE j = n + 1
          BY <1>1, <1>3, <1>5, <2>2, <2>5, <2>8, <4>1
      <4>2. CASE j # n + 1
        <5>1. j \in 1..n
            BY <1>3, <4>2
        <5>2. s.pulses[j].amp \in Int /\ s.pulses[j].amp <= s.top
            BY <1>5, <5>1
        <5> QED
            BY <1>1, <1>3, <2>5, <2>8, <5>1, <5>2
      <4> QED
          BY <4>1, <4>2
    <3>3. t.top = t.amp \/ \E j \in 1..n + 1 : t.top = t.pulses[j].amp
      <4>1. CASE s.top < v
          BY <1>1, <1>3, <2>1, <2>8, <4>1
      <4>2. CASE s.top >= v
        <5>1. t.top = s.top
            BY <2>8, <4>2
        <5>2. CASE s.top = s.amp
          <6>1. n + 1 \in 1..n + 1 /\ t.pulses[n + 1].amp = s.amp
              BY <1>3, <2>2, <2>5
          <6> QED
              BY <5>1, <5>2, <6>1
        <5>3. CASE \E j \in 1..n : s.top = s.pulses[j].amp
          <6>1. PICK j \in 1..n : s.top = s.pulses[j].amp
              BY <5>3
          <6>2. j \in 1..n + 1
              BY <1>3
          <6> QED
              BY <2>5, <5>1, <6>1, <6>2
        <5> QED
            BY <1>5, <1>6, <5>2, <5>3
      <4> QED
          BY <1>1, <1>3, <4>1, <4>2
    <3> HIDE DEF n
    <3> QED
        BY <2>4, <3>1, <3>2, <3>3 DEF TopOK
  <2>10. Begin(t.pulses, Len(t.pulses) + 1) = k /\ k \in 0..k + 1
    <3>1. (n + 1) + 1 = n + 2
        BY <1>3
    <3> QED
        BY <1>1, <2>4, <3>1
  <2> QED
      BY <1>4, <2>1, <2>4, <2>7, <2>9, <2>10, WalkIsOK
\* No pulse ends.
<1>7. CASE ~(v > h[k] /\ s.status = -1)
  <2>1. /\ t.pulses = s.pulses /\ t.amp = IF v >= s.amp THEN v ELSE s.amp
        /\ t.top = IF s.top >= t.amp THEN s.top ELSE t.amp
      BY <1>2, <1>4, <1>7
  <2>2. lo \in 0..k + 1 /\ Begin(t.pulses, Len(t.pulses) + 1) = lo /\ PulsesOK(h, t.pulses)
      BY <1>2, <2>1
  <2>3. t.amp \in Int /\ t.amp <= t.top
      BY <1>1, <1>3, <2>1
  <2>4. \A j \in 1..Len(t.pulses) : t.pulses[j].amp <= t.top
      BY <1>3, <1>5, <2>1, <2>3
  <2> HIDE DEF amp, ends
  <2>5. CASE v > h[k] /\ s.status = 1
    <3>1. Rises(h, lo, k) /\ s.amp = h[k]
        BY <1>2, <2>5, UpRises
    <3>2. t.status = 1 /\ t.amp = v
        BY <1>1, <1>2, <1>4, <2>1, <2>5, <3>1
    <3>3. Up(h, k + 1, lo, v)
        BY <1>1, <1>2, <2>5, <3>1, UpByOne
    <3>4. t.top = t.amp \/ \E j \in 1..Len(t.pulses) : t.top = t.pulses[j].amp
        BY <1>1, <1>3, <1>5, <2>1, <2>5, <3>1, <3>2
    <3>5. TopOK(t)
        BY <2>1, <2>3, <2>4, <3>4 DEF TopOK
    <3> QED
        BY <1>1, <1>4, <2>2, <3>2, <3>3, <3>5, WalkIsOK
  <2>6. CASE v > h[k] /\ s.status = 0
    <3>1. s.pulses = <<>> /\ Flat(h, 0, k) /\ h[k] = 0 /\ s.amp \in {-1, 0} /\ s.top = 0
        BY <1>2, <2>6 DEF Even
    <3>2. t.status = 1 /\ t.amp = v /\ t.top = v
        BY <1>1, <1>2, <1>4, <2>1, <2>6, <3>1
    <3>3. lo = 0 /\ n = 0
        BY <3>1 DEF Begin
    <3>4. Rises(h, 0, k)
      <4>1. ASSUME NEW x \in 0 + 1..k PROVE h[x] >= h[x - 1]
        <5>1. h[x] = h[x - 1]
            BY <3>1 DEF Flat
        <5>2. h[x] \in Nat
            BY <1>1 DEF Histograms
        <5> QED
            BY <5>1, <5>2
      <4> QED
          BY <4>1 DEF Rises
    <3>5. Up(h, k + 1, lo, v)
        BY <1>1, <2>6, <3>3, <3>4, UpByOne
    <3>6. TopOK(t)
        BY <2>1, <2>3, <2>4, <3>2 DEF TopOK
    <3> QED
        BY <1>1, <1>4, <2>2, <3>2, <3>5, <3>6, WalkIsOK
  <2>7. CASE v <= h[k] /\ s.status = -1
    <3>1. h[k] < s.amp /\ Down(h, k + 1, lo, s.amp)
      <4>1. Down(h, k, lo, s.amp)
          BY <1>2, <2>7
      <4>2. Down(h, k + 1, lo, s.amp)
          BY <1>2, <2>7, <4>1, DownLonger
      <4> QED
          BY <4>1, <4>2 DEF Down
    <3>2. t.status = -1 /\ t.amp = s.amp /\ t.top = s.top
        BY <1>1, <1>2, <1>3, <1>4, <1>5, <2>1, <2>7, <3>1
    <3>3. TopOK(t)
        BY <1>5, <2>1, <2>3, <2>4, <2>7, <3>2 DEF TopOK
    <3> QED
        BY <1>1, <1>4, <2>2, <3>1, <3>2, <3>3, WalkIsOK
  <2>8. CASE v < h[k] /\ s.status = 1
    <3>1. s.amp = h[k] /\ Down(h, k + 1, lo, s.amp)
        BY <1>1, <1>2, <2>8, UpRises, DownFirst
    <3>2. t.status = -1 /\ t.amp = s.amp /\ t.top = s.top
        BY <1>1, <1>2, <1>3, <1>4, <1>5, <2>1, <2>8, <3>1
    <3>3. TopOK(t)
        BY <1>5, <2>1, <2>3, <2>4, <2>8, <3>2 DEF TopOK
    <3> QED
        BY <1>1, <1>4, <2>2, <3>1, <3>2, <3>3, WalkIsOK
  <2>9. CASE v = h[k] /\ s.status = 1
    <3>1. s.amp = h[k] /\ Up(h, k + 1, lo, s.amp)
        BY <1>1, <1>2, <2>9, UpRises
    <3>2. t.status = 1 /\ t.amp = s.amp /\ t.top = s.top
        BY <1>1, <1>2, <1>3, <1>4, <1>5, <2>1, <2>9, <3>1
    <3>3. TopOK(t)
        BY <1>5, <2>1, <2>3, <2>4, <2>9, <3>2 DEF TopOK
    <3> QED
        BY <1>1, <1>4, <2>2, <3>1, <3>2, <3>3, WalkIsOK
  <2>10. CASE v <= h[k] /\ s.status = 0
    <3>1. s.pulses = <<>> /\ Flat(h, 0, k) /\ h[k] = 0 /\ s.amp \in {-1, 0} /\ s.top = 0
        BY <1>2, <2>10 DEF Even
    <3>2. v = 0 /\ v = h[k]
        BY <1>1, <2>10, <3>1
    <3>3. t.status = 0 /\ t.amp = 0 /\ t.top = 0
        BY <1>2, <1>4, <2>1, <2>10, <3>1, <3>2
    <3>4. Flat(h, 0, k + 1)
      <4>1. 0 \in 0..k
          BY <1>1
      <4> QED
          BY <1>1, <3>1, <3>2, <4>1, FlatLonger
    <3>5. Even(h, k + 1, t)
        BY <2>1, <3>1, <3>2, <3>3, <3>4 DEF Even
    <3>6. TopOK(t)
        BY <2>1, <2>3, <2>4, <3>3 DEF TopOK
    <3> QED
        BY <1>1, <1>4, <2>2, <3>3, <3>5, <3>6, WalkIsOK
  <2>11. \/ v > h[k] /\ s.status = 1
         \/ v > h[k] /\ s.status = 0
         \/ v <= h[k] /\ s.status = -1
         \/ v < h[k] /\ s.status = 1
         \/ v = h[k] /\ s.status = 1
         \/ v <= h[k] /\ s.status = 0
      BY <1>1, <1>3, <1>7
  <2> QED
      BY <2>5, <2>6, <2>7, <2>8, <2>9, <2>10, <2>11
<1> QED
    BY <1>6, <1>7

LEMMA WalkEnds ==
    ASSUME NEW h \in Histograms, h[0] = 0
    PROVE  WalkOK(h, histSize - 1, Walk(h))
<1>1. histSize \in Nat /\ histSize - 1 \in Nat
    BY HistogramAssumption
<1>2. PICK st : /\ st[0] = Start(h) /\ st[histSize - 1] = Walk(h)
                /\ \A k \in 0..histSize - 2 : st[k + 1] = Bin(st[k], h[k + 1], k + 1)
    BY WalkSteps
<1> DEFINE P == {k \in Nat : k <= histSize - 1 => WalkOK(h, k, st[k])}
<1>3. 0 \in P
    BY <1>2, WalkStarts
<1>4. ASSUME NEW k \in Nat, k \in P PROVE k + 1 \in P
  <2>1. SUFFICES ASSUME k + 1 <= histSize - 1 PROVE WalkOK(h, k + 1, st[k + 1])
      OBVIOUS
  <2>2. k \in 0..histSize - 2 /\ k <= histSize - 1
      BY <1>1, <2>1
  <2>3. WalkOK(h, k, st[k])
      BY <1>4, <2>2
  <2> QED
      BY <1>2, <2>2, <2>3, WalkStep
<1> HIDE DEF P
<1>5. histSize - 1 \in P
    BY <1>1, <1>3, <1>4, NatInduct
<1> QED
    BY <1>1, <1>2, <1>5 DEF P

\* f gives for each pulse of P the peak of the histogram that it stands for.
Matches(h, f, P) ==
    /\ P \in Seq(Pulse) /\ Len(P) \in Nat \ {0}
    /\ \A j \in 1..Len(P) : IsPeak(h, f[j][1], f[j][2]) /\ h[f[j][1]] = P[j].amp
    /\ \A i, j \in 1..Len(P) : i < j => f[i][2] < f[j][1]
    /\ \A c, d : IsPeak(h, c, d) => \E j \in 1..Len(P) : f[j][1] = c /\ f[j][2] = d
    /\ \A j \in 1..Len(P) - 1 : P[j].end < P[Len(P)].end - 1

\* Pulses follow one another.
LEMMA PulsesInOrder ==
    ASSUME NEW h, NEW Q \in Seq(Pulse), PulsesOK(h, Q)
    PROVE  /\ \A j \in 1..Len(Q) + 1 : Begin(Q, j) \in Nat
           /\ \A i, j \in 1..Len(Q) + 1 : i < j => Begin(Q, i) < Begin(Q, j)
           /\ \A j \in 1..Len(Q) : Begin(Q, j + 1) = Q[j].end
<1> DEFINE n == Len(Q)
<1>1. n \in Nat /\ \A j \in 1..n : Q[j] \in Pulse
    OBVIOUS
<1>2. \A j \in 1..n : Q[j].end \in Nat
    BY <1>1 DEF Pulse
<1>3. \A j \in 1..n : Begin(Q, j + 1) = Q[j].end
  <2> TAKE j \in 1..n
  <2>1. j + 1 # 1 /\ (j + 1) - 1 = j
      OBVIOUS
  <2> QED
      BY <2>1 DEF Begin
<1>4. \A j \in 1..n + 1 : Begin(Q, j) \in Nat
  <2> TAKE j \in 1..n + 1
  <2>1. CASE j = 1
      BY <2>1 DEF Begin
  <2>2. CASE j # 1
    <3>1. j - 1 \in 1..n
        BY <1>1, <2>2
    <3> QED
        BY <1>2, <2>2, <3>1 DEF Begin
  <2> QED
      BY <2>1, <2>2
<1>5. \A j \in 1..n : Begin(Q, j) < Begin(Q, j + 1)
  <2> TAKE j \in 1..n
  <2>1. PICK a, b : Hill(h, Begin(Q, j), a, b, Q[j].end)
      BY DEF PulsesOK
  <2>2. Begin(Q, j) \in Nat /\ Q[j].end \in Nat
      BY <1>1, <1>2, <1>4
  <2>3. a \in Begin(Q, j) + 1..Q[j].end
      BY <2>1 DEF Hill
  <2> QED
      BY <1>3, <2>2, <2>3
<1>6. ASSUME NEW i \in 1..n + 1
      PROVE  \A j \in 1..n + 1 : i < j => Begin(Q, i) < Begin(Q, j)
  <2> DEFINE S == {k \in Nat : i + (k + 1) <= n + 1 => Begin(Q, i) < Begin(Q, i + (k + 1))}
  <2>1. 0 \in S
    <3>1. SUFFICES ASSUME i + (0 + 1) <= n + 1 PROVE Begin(Q, i) < Begin(Q, i + (0 + 1))
        OBVIOUS
    <3>2. i \in 1..n /\ i + (0 + 1) = i + 1
        BY <1>1, <3>1
    <3> QED
        BY <1>5, <3>2
  <2>2. ASSUME NEW k \in Nat, k \in S PROVE k + 1 \in S
    <3>1. SUFFICES ASSUME i + ((k + 1) + 1) <= n + 1
                   PROVE  Begin(Q, i) < Begin(Q, i + ((k + 1) + 1))
        OBVIOUS
    <3>2. /\ i + (k + 1) \in 1..n /\ i + (k + 1) <= n + 1 /\ i + (k + 1) \in 1..n + 1
          /\ i + ((k + 1) + 1) = (i + (k + 1)) + 1 /\ (i + (k + 1)) + 1 \in 1..n + 1
        BY <1>1, <3>1
    <3>3. Begin(Q, i) < Begin(Q, i + (k + 1))
        BY <2>2, <3>2
    <3>4. Begin(Q, i + (k + 1)) < Begin(Q, (i + (k + 1)) + 1)
        BY <1>5, <3>2
    <3>5. /\ Begin(Q, i) \in Nat /\ Begin(Q, i + (k + 1)) \in Nat
          /\ Begin(Q, (i + (k + 1)) + 1) \in Nat
        BY <1>4, <3>2
    <3> QED
        BY <3>2, <3>3, <3>4, <3>5
  <2> HIDE DEF S
  <2>3. \A k \in Nat : k \in S
      BY <2>1, <2>2, NatInduct
  <2> TAKE j \in 1..n + 1
  <2> HAVE i < j
  <2>4. (j - i) - 1 \in Nat /\ i + (((j - i) - 1) + 1) = j /\ j <= n + 1
      BY <1>1
  <2>5. (j - i) - 1 \in S
      BY <2>3, <2>4
  <2> QED
      BY <2>4, <2>5 DEF S
<1> QED
    BY <1>3, <1>4, <1>6

LEMMA PulsesArePeaks ==
    ASSUME NEW h \in Histograms, h[0] = 0, h[histSize - 1] = 0,
           \E x \in 0..histSize - 1 : h[x] # 0
    PROVE  /\ \E f : Matches(h, f, new_peaks(h))
           /\ LET P == new_peaks(h)
              IN  /\ \A j \in 1..Len(P) : P[j].amp <= Walk(h).top
                  /\ \E j \in 1..Len(P) : P[j].amp = Walk(h).top
<1> DEFINE s == Walk(h)
           ps == s.pulses
           n == Len(ps)
           k == histSize - 1
           lo == Begin(ps, n + 1)
           last == [end |-> histSize, amp |-> s.amp]
           P == new_peaks(h)
<1>1. k \in Nat /\ histSize \in Nat /\ histSize - 1 = k /\ \A x \in 0..k : h[x] \in Nat
    BY HistogramAssumption DEF Histograms
<1>2. WalkOK(h, k, s)
    BY WalkEnds
<1> HIDE DEF s
<1>3. /\ s.status \in -1..1 /\ s.amp \in Int /\ ps \in Seq(Pulse) /\ s.top \in Int /\ n \in Nat
    BY <1>2 DEF WalkOK, Walker
<1>4. s.status # 0
  <2>1. SUFFICES ASSUME s.status = 0 PROVE FALSE
      OBVIOUS
  <2>2. Flat(h, 0, k)
      BY <1>2, <2>1 DEF WalkOK, Even
  <2>3. \A z \in 0..k : h[z] = h[0]
      BY <1>1, <2>2, Level
  <2> QED
      BY <2>3
<1>5. s.status # 1
  <2>1. SUFFICES ASSUME s.status = 1 PROVE FALSE
      OBVIOUS
  <2>2. lo \in 0..k /\ Up(h, k, lo, s.amp)
      BY <1>2, <2>1 DEF WalkOK
  <2>3. PICK a \in lo + 1..k : h[a - 1] < h[a] /\ h[k] = h[a]
      BY <2>2 DEF Up
  <2>4. a - 1 \in 0..k
      BY <1>1, <2>2
  <2>5. h[a - 1] \in Nat /\ h[a] = 0
      BY <1>1, <2>3, <2>4
  <2> QED
      BY <2>3, <2>5
<1>6. s.status = -1 /\ PulsesOK(h, ps) /\ TopOK(s) /\ Down(h, k, lo, s.amp)
    BY <1>2, <1>3, <1>4, <1>5 DEF WalkOK
<1>7. P = Append(ps, last)
    BY <1>6 DEF new_peaks, s
<1> DEFINE here == [end |-> k, amp |-> s.amp]
           Q == Append(ps, here)
<1>8. here \in Pulse /\ last \in Pulse
    BY <1>1, <1>3 DEF Pulse
<1>9. here.end = k /\ here.amp = s.amp /\ last.end = k + 1 /\ last.amp = s.amp
    BY <1>1
<1> HIDE DEF here, last
<1>10. \E a, b : Hill(h, Begin(ps, n + 1), a, b, here.end) /\ here.amp = h[a]
    BY <1>6, <1>9 DEF Down
<1>11. /\ PulsesOK(h, Q) /\ Len(Q) = n + 1
       /\ \A j \in 1..n + 1 : Begin(Q, j) = Begin(ps, j)
       /\ Begin(Q, n + 2) = k
    BY <1>3, <1>6, <1>8, <1>9, <1>10, PulsesLonger
<1>12. /\ P \in Seq(Pulse) /\ Len(P) = n + 1 /\ P[n + 1] = last
       /\ \A j \in 1..n : P[j] = ps[j]
    BY <1>3, <1>7, <1>8
<1>13. /\ Q \in Seq(Pulse) /\ Q[n + 1] = here
       /\ \A j \in 1..n : Q[j] = ps[j]
    BY <1>3, <1>8
<1> HIDE DEF P, Q
<1>14. \A j \in 1..n + 1 : P[j].amp = Q[j].amp
  <2> TAKE j \in 1..n + 1
  <2>1. CASE j = n + 1
      BY <1>9, <1>12, <1>13, <2>1
  <2>2. CASE j # n + 1
    <3>1. j \in 1..n
        BY <1>3, <2>2
    <3> QED
        BY <1>12, <1>13, <3>1
  <2> QED
      BY <2>1, <2>2
<1> DEFINE E(j) == Begin(Q, j)
<1>15. /\ \A j \in 1..n + 2 : E(j) \in Nat
       /\ \A i, j \in 1..n + 2 : i < j => E(i) < E(j)
       /\ \A j \in 1..n + 1 : E(j + 1) = Q[j].end
       /\ E(1) = 0 /\ E(n + 2) = k
  <2>1. Len(Q) + 1 = n + 2
      BY <1>3, <1>11
  <2>2. E(1) = 0
      BY DEF Begin
  <2> QED
      BY <1>11, <1>13, <2>1, <2>2, PulsesInOrder
<1> DEFINE IsPlace(j, m) == Hill(h, E(j), m[1], m[2], E(j + 1)) /\ Q[j].amp = h[m[1]]
           f == [j \in 1..n + 1 |-> CHOOSE m : IsPlace(j, m)]
<1>16. \A j \in 1..n + 1 : IsPlace(j, f[j])
  <2> TAKE j \in 1..n + 1
  <2>1. PICK a, b : Hill(h, E(j), a, b, Q[j].end) /\ Q[j].amp = h[a]
      BY <1>11 DEF PulsesOK
  <2>2. IsPlace(j, <<a, b>>)
      BY <1>15, <2>1
  <2> HIDE DEF IsPlace
  <2> QED
      BY <2>2
<1> HIDE DEF E, f
<1>17. \A j \in 1..n + 1 : E(j) \in Nat /\ E(j) < E(j + 1) /\ E(j + 1) \in 0..k
  <2> TAKE j \in 1..n + 1
  <2>1. /\ j \in 1..n + 2 /\ j + 1 \in 1..n + 2 /\ n + 2 \in 1..n + 2 /\ j < j + 1
        /\ j + 1 = n + 2 \/ j + 1 < n + 2
      BY <1>3
  <2>2. E(j) \in Nat /\ E(j + 1) \in Nat /\ E(j) < E(j + 1)
      BY <1>15, <2>1
  <2>3. E(j + 1) = k \/ E(j + 1) < k
      BY <1>15, <2>1
  <2> QED
      BY <1>1, <2>2, <2>3
<1>18. \A j \in 1..n + 1 : /\ IsPeak(h, f[j][1], f[j][2]) /\ Q[j].amp = h[f[j][1]]
                           /\ \A c, d : IsPeak(h, c, d) /\ E(j) < c /\ c <= E(j + 1)
                                          => c = f[j][1] /\ d = f[j][2]
    BY <1>1, <1>16, <1>17, HillPeak
<1>19. \A i, j \in 1..n + 1 : i < j => f[i][2] < f[j][1]
  <2> TAKE i, j \in 1..n + 1
  <2> HAVE i < j
  <2>1. Hill(h, E(i), f[i][1], f[i][2], E(i + 1)) /\ Hill(h, E(j), f[j][1], f[j][2], E(j + 1))
      BY <1>16
  <2>2. f[i][1] \in E(i) + 1..E(i + 1) /\ f[i][2] \in f[i][1]..E(i + 1) - 1 /\ f[j][1] \in E(j) + 1..E(j + 1)
      BY <2>1 DEF Hill
  <2>3. E(i + 1) = E(j) \/ E(i + 1) < E(j)
    <3>1. /\ i + 1 \in 1..n + 2 /\ j \in 1..n + 2
          /\ i + 1 = j \/ i + 1 < j
        BY <1>3
    <3> QED
        BY <1>15, <3>1
  <2>4. E(i) \in Nat /\ E(i + 1) \in Nat /\ E(j) \in Nat /\ E(j + 1) \in Nat
      BY <1>1, <1>17
  <2> QED
      BY <2>2, <2>3, <2>4
<1>20. ASSUME NEW c, NEW d, IsPeak(h, c, d)
       PROVE  \E j \in 1..n + 1 : f[j][1] = c /\ f[j][2] = d
  <2> DEFINE behind == {j \in 1..n + 1 : c <= E(j + 1)}
  <2>1. c \in 1..k
      BY <1>1, <1>20 DEF IsPeak
  <2>2. n + 1 \in behind
    <3>1. (n + 1) + 1 = n + 2 /\ n + 1 \in 1..n + 1
        BY <1>3
    <3> QED
        BY <1>1, <1>15, <2>1, <3>1
  <2>3. behind \subseteq Nat
      OBVIOUS
  <2> DEFINE j == Min(behind)
  <2>4. j \in behind /\ \A i \in behind : j <= i
      BY <2>2, <2>3, LeastOf
  <2> HIDE DEF j
  <2>5. j \in 1..n + 1 /\ c <= E(j + 1)
      BY <2>4
  <2>6. E(j) < c
    <3>1. CASE j = 1
        BY <1>15, <2>1, <3>1
    <3>2. CASE j # 1
      <4>1. j - 1 \in 1..n + 1 /\ (j - 1) + 1 = j /\ ~(j <= j - 1)
          BY <1>3, <2>5, <3>2
      <4>2. ~(c <= E(j))
          BY <2>4, <4>1
      <4> QED
          BY <1>17, <2>1, <2>5, <4>2
    <3> QED
        BY <3>1, <3>2
  <2> QED
      BY <1>18, <1>20, <2>5, <2>6
<1>21. \A j \in 1..n : P[j].end < P[n + 1].end - 1
  <2> TAKE j \in 1..n
  <2>1. /\ j \in 1..n + 1 /\ j + 1 \in 1..n + 2 /\ n + 2 \in 1..n + 2 /\ j + 1 < n + 2
      BY <1>3
  <2>2. E(j + 1) < E(n + 2) /\ E(j + 1) = Q[j].end
      BY <1>15, <2>1
  <2>3. P[j].end = E(j + 1) /\ E(n + 2) = k /\ P[n + 1].end - 1 = k
      BY <1>1, <1>9, <1>12, <1>13, <1>15, <2>2
  <2> QED
      BY <2>2, <2>3
<1>22. Matches(h, f, P)
  <2>1. Len(P) \in Nat \ {0} /\ Len(P) - 1 = n
      BY <1>3, <1>12
  <2>2. \A j \in 1..n + 1 : IsPeak(h, f[j][1], f[j][2]) /\ h[f[j][1]] = P[j].amp
      BY <1>14, <1>18
  <2> HIDE DEF n
  <2> QED
      BY <1>12, <1>19, <1>20, <1>21, <2>1, <2>2 DEF Matches
<1>23. \A j \in 1..n + 1 : P[j].amp <= s.top
  <2> TAKE j \in 1..n + 1
  <2>1. CASE j = n + 1
      BY <1>6, <1>9, <1>12, <2>1 DEF TopOK
  <2>2. CASE j # n + 1
    <3>1. j \in 1..n
        BY <1>3, <2>2
    <3> QED
        BY <1>6, <1>12, <3>1 DEF TopOK
  <2> QED
      BY <2>1, <2>2
<1>24. \E j \in 1..n + 1 : P[j].amp = s.top
  <2>1. CASE s.top = s.amp
    <3>1. n + 1 \in 1..n + 1
        BY <1>3
    <3> QED
        BY <1>9, <1>12, <2>1, <3>1
  <2>2. CASE \E j \in 1..n : s.top = ps[j].amp
    <3>1. PICK j \in 1..n : s.top = ps[j].amp
        BY <2>2
    <3>2. j \in 1..n + 1
        BY <1>3
    <3> QED
        BY <1>12, <3>1, <3>2
  <2> QED
      BY <1>4, <1>6, <2>1, <2>2 DEF TopOK
<1> HIDE DEF n
<1> QED
    BY <1>12, <1>22, <1>23, <1>24 DEF P, s

\* Nobody is too warm for the histogram, or in its last bin.
InRange(d) == \A p \in Pixels : d[p] < histSize - 1 - Zero
NobodyIsTooWarm == \A d \in Frames : InRange(d)

\* A pixel counts in the bin of its temperature.
LEMMA HistogramFact ==
    ASSUME diffs \in [Pixels -> 0..255], InRange(diffs)
    PROVE  /\ Histogram(diffs) \in Histograms
           /\ Histogram(diffs)[0] = 0 /\ Histogram(diffs)[histSize - 1] = 0
           /\ \A t \in -1..histSize - 1 - Zero : Counts(t) = Histogram(diffs)[t + Zero]
           /\ \A x \in 0..histSize - 1 : Histogram(diffs)[x] # 0 => \E p \in Pixels : diffs[p] = x - Zero
           /\ \E x \in 0..histSize - 1 : Histogram(diffs)[x] # 0
<1> DEFINE h == Histogram(diffs)
           at(t) == {p \in Pixels : diffs[p] = t}
<1>1. /\ histSize \in Nat /\ Zero \in Nat \ {0} /\ Zero < histSize
    BY HistogramAssumption
<1>2. \A p \in Pixels : diffs[p] \in 0..255 /\ diffs[p] < histSize - 1 - Zero
    BY DEF InRange
<1>3. \A t : IsFiniteSet(at(t)) /\ Cardinality(at(t)) \in Nat
    BY PixelsFinite, FS_CardinalityType
<1>4. \A x \in 0..histSize - 1 : h[x] = Cardinality(at(x - Zero))
    BY DEF Histogram
<1>5. \A t : Counts(t) = Cardinality(at(t))
    BY DEF Counts
<1>6. h \in Histograms
  <2>1. h = [x \in 0..histSize - 1 |-> Cardinality(at(x - Zero))]
      BY DEF Histogram
  <2> HIDE DEF h, at
  <2> QED
      BY <1>3, <2>1 DEF Histograms
<1> HIDE DEF h
<1>7. at(0 - Zero) = {} /\ at((histSize - 1) - Zero) = {}
  <2>1. ASSUME NEW p \in Pixels PROVE diffs[p] # 0 - Zero /\ diffs[p] # (histSize - 1) - Zero
      BY <1>1, <1>2
  <2> QED
      BY <2>1
<1>8. h[0] = 0 /\ h[histSize - 1] = 0
  <2>1. 0 \in 0..histSize - 1 /\ histSize - 1 \in 0..histSize - 1
      BY <1>1
  <2> HIDE DEF at
  <2> QED
      BY <1>4, <1>7, <2>1, FS_EmptySet
<1>9. ASSUME NEW t \in -1..histSize - 1 - Zero PROVE Counts(t) = h[t + Zero]
  <2>1. t + Zero \in 0..histSize - 1 /\ (t + Zero) - Zero = t
      BY <1>1
  <2> HIDE DEF at
  <2> QED
      BY <1>4, <1>5, <2>1
<1>10. ASSUME NEW x \in 0..histSize - 1, h[x] # 0 PROVE \E p \in Pixels : diffs[p] = x - Zero
  <2>1. at(x - Zero) # {}
      BY <1>4, <1>10, FS_EmptySet
  <2> QED
      BY <2>1
<1>11. \E x \in 0..histSize - 1 : h[x] # 0
  <2>1. PICK p \in Pixels : TRUE
    <3>1. <<1, 1>> \in Pixels
        BY BodyAssumption DEF Pixels
    <3> QED
        BY <3>1
  <2> DEFINE x == diffs[p] + Zero
  <2>2. x \in 0..histSize - 1 /\ x - Zero = diffs[p]
      BY <1>1, <1>2
  <2>3. at(x - Zero) # {}
      BY <2>2
  <2> HIDE DEF at, x
  <2>4. Cardinality(at(x - Zero)) # 0
      BY <1>3, <2>3, FS_EmptySet
  <2> QED
      BY <1>4, <2>2, <2>4
<1> QED
    BY <1>6, <1>8, <1>9, <1>10, <1>11 DEF h

LEMMA WarmestFact ==
    ASSUME diffs \in [Pixels -> 0..255]
    PROVE  /\ Warmest \in 0..255 /\ \E p \in Pixels : diffs[p] = Warmest
           /\ \A p \in Pixels : diffs[p] <= Warmest
<1> DEFINE S == {diffs[p] : p \in Pixels}
           T == {x + 1 : x \in S}
<1>1. <<1, 1>> \in Pixels
    BY BodyAssumption DEF Pixels
<1>2. S \subseteq 0..255 /\ S # {}
    BY <1>1
<1> HIDE DEF S
<1>3. T \in SUBSET (1..256) /\ T # {}
  <2>1. PICK x : x \in S
      BY <1>2
  <2>2. x + 1 \in T
      BY <2>1
  <2>3. \A y \in S : y + 1 \in 1..256
      BY <1>2
  <2> QED
      BY <2>2, <2>3
<1>4. Max(T) \in T /\ \A i \in T : i <= Max(T)
    BY <1>3, GreatestOf
<1>5. PICK g \in S : g + 1 = Max(T)
    BY <1>4
<1>6. \A x \in S : g >= x
  <2> TAKE x \in S
  <2>1. x + 1 <= g + 1
      BY <1>4, <1>5
  <2>2. x \in Int /\ g \in Int
      BY <1>2
  <2> QED
      BY <2>1, <2>2
<1>7. Max(S) \in S /\ \A x \in S : Max(S) >= x
    BY <1>6 DEF Max
<1>8. Warmest \in S /\ \A x \in S : Warmest >= x
    BY <1>7 DEF Warmest, S
<1> QED
    BY <1>2, <1>8 DEF S

\* The modes of the frame are the peaks of its histogram.
LEMMA ModesArePeaks ==
    ASSUME diffs \in [Pixels -> 0..255], InRange(diffs)
    PROVE  /\ \A m \in Modes : /\ m[1] \in Int /\ m[2] \in Int /\ m = <<m[1], m[2]>>
                               /\ IsPeak(Histogram(diffs), m[1] + Zero, m[2] + Zero)
                               /\ Counts(m[1]) = Histogram(diffs)[m[1] + Zero]
           /\ \A a, b : IsPeak(Histogram(diffs), a, b) => <<a - Zero, b - Zero>> \in Modes
<1> DEFINE h == Histogram(diffs)
<1>1. /\ histSize \in Nat /\ Zero \in Nat \ {0} /\ Zero < histSize
    BY HistogramAssumption
<1>2. /\ h \in Histograms
      /\ \A t \in -1..histSize - 1 - Zero : Counts(t) = h[t + Zero]
      /\ \A x \in 0..histSize - 1 : h[x] # 0 => \E p \in Pixels : diffs[p] = x - Zero
    BY HistogramFact
<1>3. \A x \in 0..histSize - 1 : h[x] \in Nat
    BY <1>2 DEF Histograms
<1> HIDE DEF h
<1>4. Warmest \in 0..histSize - 2 - Zero /\ \A p \in Pixels : diffs[p] <= Warmest
  <2>1. PICK p \in Pixels : diffs[p] = Warmest
      BY WarmestFact
  <2>2. Warmest < histSize - 1 - Zero
      BY <2>1 DEF InRange
  <2> QED
      BY <1>1, <2>2, WarmestFact
<1>5. ASSUME NEW m \in Modes
      PROVE  /\ m[1] \in Int /\ m[2] \in Int /\ m = <<m[1], m[2]>>
             /\ IsPeak(h, m[1] + Zero, m[2] + Zero) /\ Counts(m[1]) = h[m[1] + Zero]
  <2>1. /\ m \in (0..Warmest) \X (0..Warmest) /\ m[1] <= m[2]
        /\ \A t \in m[1]..m[2] : Counts(t) = Counts(m[1])
        /\ Counts(m[1] - 1) < Counts(m[1]) /\ Counts(m[2] + 1) < Counts(m[2])
      BY DEF Modes
  <2>2. m[1] \in 0..Warmest /\ m[2] \in 0..Warmest /\ m = <<m[1], m[2]>>
      BY <2>1
  <2> DEFINE a == m[1] + Zero
             b == m[2] + Zero
  <2>3. /\ a \in 1..histSize - 2 /\ b \in a..histSize - 2 /\ m[1] \in Int /\ m[2] \in Int
        /\ m[1] \in -1..histSize - 1 - Zero /\ m[2] \in -1..histSize - 1 - Zero
        /\ m[1] - 1 \in -1..histSize - 1 - Zero /\ m[2] + 1 \in -1..histSize - 1 - Zero
        /\ (m[1] - 1) + Zero = a - 1 /\ (m[2] + 1) + Zero = b + 1
      BY <1>1, <1>4, <2>1, <2>2
  <2>4. Counts(m[1]) = h[a] /\ Counts(m[2]) = h[b] /\ Counts(m[1] - 1) = h[a - 1] /\ Counts(m[2] + 1) = h[b + 1]
      BY <1>2, <2>3
  <2>5. Flat(h, a, b)
    <3>1. ASSUME NEW x \in a + 1..b PROVE h[x] = h[x - 1]
      <4>1. /\ x - Zero \in m[1]..m[2] /\ (x - 1) - Zero \in m[1]..m[2]
            /\ x - Zero \in -1..histSize - 1 - Zero /\ (x - 1) - Zero \in -1..histSize - 1 - Zero
            /\ (x - Zero) + Zero = x /\ ((x - 1) - Zero) + Zero = x - 1
          BY <1>1, <2>3
      <4>2. Counts(x - Zero) = h[x] /\ Counts((x - 1) - Zero) = h[x - 1]
          BY <1>2, <4>1
      <4> QED
          BY <2>1, <4>1, <4>2
    <3> QED
        BY <3>1 DEF Flat
  <2> QED
      BY <2>1, <2>2, <2>3, <2>4, <2>5 DEF IsPeak
<1>6. ASSUME NEW a, NEW b, IsPeak(h, a, b) PROVE <<a - Zero, b - Zero>> \in Modes
  <2> DEFINE lo == a - Zero
             hi == b - Zero
  <2>1. /\ a \in 1..histSize - 2 /\ b \in a..histSize - 2
        /\ Flat(h, a, b) /\ h[a - 1] < h[a] /\ h[b + 1] < h[b]
      BY <1>6 DEF IsPeak
  <2>2. \A z \in a..b : h[z] = h[a]
      BY <1>1, <2>1, Level
  <2>3. a \in 0..histSize - 1 /\ b \in 0..histSize - 1 /\ a - 1 \in 0..histSize - 1 /\ b \in a..b
      BY <1>1, <2>1
  <2>4. h[a] # 0 /\ h[b] # 0
    <3>1. h[a - 1] \in Nat /\ h[a] \in Nat
        BY <1>3, <2>3
    <3>2. h[b] = h[a]
        BY <2>2, <2>3
    <3> QED
        BY <2>1, <3>1, <3>2
  <2>5. lo \in 0..Warmest /\ hi \in 0..Warmest /\ lo <= hi
    <3>1. PICK p \in Pixels : diffs[p] = lo
        BY <1>2, <2>3, <2>4
    <3>2. PICK r \in Pixels : diffs[r] = hi
        BY <1>2, <2>3, <2>4
    <3>3. /\ lo \in 0..255 /\ hi \in 0..255 /\ lo <= Warmest /\ hi <= Warmest
        BY <1>4, <3>1, <3>2
    <3> QED
        BY <1>1, <1>4, <2>1, <3>3
  <2>6. /\ \A t \in lo..hi : t \in -1..histSize - 1 - Zero /\ t + Zero \in a..b
        /\ lo - 1 \in -1..histSize - 1 - Zero /\ hi + 1 \in -1..histSize - 1 - Zero
        /\ (lo - 1) + Zero = a - 1 /\ (hi + 1) + Zero = b + 1 /\ lo \in lo..hi /\ hi \in lo..hi
        /\ lo + Zero = a /\ hi + Zero = b
      BY <1>1, <1>4, <2>1, <2>5
  <2>7. \A t \in lo..hi : Counts(t) = h[a]
      BY <1>2, <2>2, <2>6
  <2>8. Counts(lo - 1) = h[a - 1] /\ Counts(hi + 1) = h[b + 1] /\ Counts(lo) = h[a] /\ Counts(hi) = h[b]
      BY <1>2, <2>6
  <2> HIDE DEF lo, hi
  <2>9. <<lo, hi>> \in Modes
      BY <2>1, <2>5, <2>7, <2>8 DEF Modes
  <2> QED
      BY <2>9 DEF lo, hi
<1> QED
    BY <1>5, <1>6 DEF h

LEMMA StandsOut ==
    ASSUME diffs \in [Pixels -> 0..255], InRange(diffs)
    PROVE  LET top == Max({Counts(m[1]) : m \in Modes})
               main == CHOOSE m \in Modes :
                           /\ Counts(m[1]) = top
                           /\ \A n \in Modes : Counts(n[1]) = top => m[1] <= n[1]
               warmer == {m \in Modes : m[1] > main[2]}
           IN  hist_passed(Histogram(diffs), background_amp) <=>
                   IF warmer # {} THEN \E m \in warmer : Counts(m[1]) >= 2
                   ELSE 10 * top <= 3 * background_amp
<1> DEFINE h == Histogram(diffs)
           P == new_peaks(h)
           n == Len(P)
           high == Walk(h).top
           first == new_max_pulse_index(h)
           highest == {i \in DOMAIN P : P[i].amp = high}
           top == Max({Counts(m[1]) : m \in Modes})
           IsMain(m) == /\ m \in Modes /\ Counts(m[1]) = top
                        /\ \A k \in Modes : Counts(k[1]) = top => m[1] <= k[1]
           main == CHOOSE m \in Modes :
                       /\ Counts(m[1]) = top
                       /\ \A k \in Modes : Counts(k[1]) = top => m[1] <= k[1]
           warmer == {m \in Modes : m[1] > main[2]}
<1>1. histSize \in Nat /\ Zero \in Nat \ {0}
    BY HistogramAssumption
<1>2. /\ h \in Histograms
      /\ h[0] = 0 /\ h[histSize - 1] = 0 /\ \E x \in 0..histSize - 1 : h[x] # 0
    BY HistogramFact
<1>3. /\ \A m \in Modes : /\ m[1] \in Int /\ m[2] \in Int /\ m = <<m[1], m[2]>>
                          /\ IsPeak(h, m[1] + Zero, m[2] + Zero) /\ Counts(m[1]) = h[m[1] + Zero]
      /\ \A a, b : IsPeak(h, a, b) => <<a - Zero, b - Zero>> \in Modes
    BY ModesArePeaks
<1> HIDE DEF h
<1>4. /\ \E f : Matches(h, f, P)
      /\ \A j \in 1..n : P[j].amp <= high
      /\ \E j \in 1..n : P[j].amp = high
    BY <1>2, PulsesArePeaks
<1>5. PICK f : Matches(h, f, P)
    BY <1>4
<1>6. /\ P \in Seq(Pulse) /\ n \in Nat \ {0} /\ DOMAIN P = 1..n
      /\ \A j \in 1..n : P[j].amp \in Int /\ P[j].end \in Int
  <2>1. P \in Seq(Pulse) /\ n \in Nat \ {0}
      BY <1>5 DEF Matches
  <2> HIDE DEF P
  <2>2. \A j \in 1..n : P[j] \in Pulse
      BY <2>1
  <2>3. \A j \in 1..n : P[j].amp \in Int /\ P[j].end \in Int
      BY <2>2 DEF Pulse
  <2> QED
      BY <2>1, <2>3
<1>7. first = Min(highest)
  <2>1. highest # {}
      BY <1>4, <1>6
  <2> QED
      BY <2>1 DEF new_max_pulse_index
<1>8. first \in 1..n /\ P[first].amp = high /\ \A i \in 1..n : P[i].amp = high => first <= i
  <2>1. highest # {} /\ highest \subseteq Nat
      BY <1>4, <1>6
  <2>2. Min(highest) \in highest /\ \A i \in highest : Min(highest) <= i
      BY <2>1, LeastOf
  <2> QED
      BY <1>6, <1>7, <2>2
<1>9. hist_passed(h, background_amp) <=>
          IF first < n THEN \E i \in 1..n : i > first /\ P[i].amp >= 2
          ELSE 10 * high <= 3 * background_amp
  <2> DEFINE width == new_distribution_width(h)
  <2>1. width = P[n].end - P[first].end - 1
    <3>1. first # 0 /\ Last(P) = P[n]
        BY <1>8 DEF Last
    <3> QED
        BY <3>1 DEF new_distribution_width
  <2>2. width > 0 <=> first < n
    <3>1. CASE first < n
      <4>1. first \in 1..n - 1 /\ n \in 1..n
          BY <1>6, <1>8, <3>1
      <4>2. P[first].end < P[n].end - 1
          BY <1>5, <4>1 DEF Matches
      <4> HIDE DEF P, first, width
      <4> QED
          BY <1>6, <1>8, <2>1, <3>1, <4>1, <4>2
    <3>2. CASE ~(first < n)
      <4>1. first = n
          BY <1>6, <1>8, <3>2
      <4> HIDE DEF P, first, width
      <4>2. P[n].end \in Int
          BY <1>6, <1>8, <4>1
      <4> QED
          BY <1>6, <2>1, <3>2, <4>1, <4>2
    <3> QED
        BY <3>1, <3>2
  <2>3. hist_passed(h, background_amp) <=>
            IF width > 0 THEN \E i \in {i \in DOMAIN P : i > first} : P[i].amp >= 2
            ELSE 10 * high <= 3 * background_amp
      BY DEF hist_passed
  <2> HIDE DEF width, P, first, high
  <2> QED
      BY <1>6, <2>2, <2>3
<1> HIDE DEF P, first, high
<1> DEFINE mode(j) == <<f[j][1] - Zero, f[j][2] - Zero>>
<1>10. \A j \in 1..n : /\ f[j][1] \in Int /\ f[j][2] \in Int /\ f[j][1] <= f[j][2]
                       /\ mode(j) \in Modes /\ Counts(mode(j)[1]) = P[j].amp
  <2> TAKE j \in 1..n
  <2>1. IsPeak(h, f[j][1], f[j][2]) /\ h[f[j][1]] = P[j].amp
      BY <1>5 DEF Matches
  <2>2. f[j][1] \in Int /\ f[j][2] \in Int /\ f[j][1] <= f[j][2]
      BY <1>1, <2>1 DEF IsPeak
  <2>3. mode(j) \in Modes
      BY <1>3, <2>1
  <2>4. mode(j)[1] + Zero = f[j][1]
      BY <1>1, <2>2
  <2>5. Counts(mode(j)[1]) = h[mode(j)[1] + Zero]
      BY <1>3, <2>3
  <2> HIDE DEF mode
  <2> QED
      BY <2>1, <2>2, <2>3, <2>4, <2>5
<1>11. \A m \in Modes : \E j \in 1..n : m = mode(j)
  <2> TAKE m \in Modes
  <2>1. m[1] \in Int /\ m[2] \in Int /\ m = <<m[1], m[2]>> /\ IsPeak(h, m[1] + Zero, m[2] + Zero)
      BY <1>3
  <2>2. PICK j \in 1..n : f[j][1] = m[1] + Zero /\ f[j][2] = m[2] + Zero
      BY <1>5, <2>1 DEF Matches
  <2>3. f[j][1] - Zero = m[1] /\ f[j][2] - Zero = m[2]
      BY <1>1, <2>1, <2>2
  <2> QED
      BY <2>1, <2>3
<1>12. \A j : mode(j)[1] = f[j][1] - Zero /\ mode(j)[2] = f[j][2] - Zero
    OBVIOUS
<1> HIDE DEF mode, n
<1>13. \A j \in 1..n : mode(j)[1] \in Int /\ mode(j)[2] \in Int /\ mode(j)[1] <= mode(j)[2]
  <2> TAKE j \in 1..n
  <2>1. f[j][1] \in Int /\ f[j][2] \in Int /\ f[j][1] <= f[j][2]
      BY <1>10
  <2>2. mode(j)[1] = f[j][1] - Zero /\ mode(j)[2] = f[j][2] - Zero
      BY <1>12
  <2> QED
      BY <1>1, <2>1, <2>2
<1>14. \A i, j \in 1..n : i < j => mode(i)[2] < mode(j)[1]
  <2> TAKE i, j \in 1..n
  <2> HAVE i < j
  <2>1. f[i][2] < f[j][1] /\ f[i][2] \in Int /\ f[j][1] \in Int
      BY <1>5, <1>10 DEF Matches, n
  <2>2. mode(i)[2] = f[i][2] - Zero /\ mode(j)[1] = f[j][1] - Zero
      BY <1>12
  <2> QED
      BY <1>1, <2>1, <2>2
<1>15. top = high
  <2> DEFINE C == {Counts(m[1]) : m \in Modes}
  <2>1. ASSUME NEW m \in Modes PROVE Counts(m[1]) \in Int /\ Counts(m[1]) <= high
    <3>1. PICK j \in 1..n : m = mode(j)
        BY <1>11
    <3>2. Counts(m[1]) = P[j].amp
        BY <1>10, <3>1
    <3> QED
        BY <1>4, <1>6, <3>2 DEF n
  <2>2. high \in C
      BY <1>8, <1>10
  <2>3. \A c \in C : c \in Int /\ c <= high
      BY <2>1
  <2> HIDE DEF C
  <2>4. Max(C) \in C /\ \A c \in C : Max(C) >= c
      BY <2>3, <2>2 DEF Max
  <2>5. Max(C) = high
      BY <2>3, <2>2, <2>4
  <2> QED
      BY <2>5 DEF C
<1> HIDE DEF top
<1>16. IsMain(mode(first))
  <2>1. mode(first) \in Modes /\ Counts(mode(first)[1]) = top
      BY <1>8, <1>10, <1>15
  <2>2. ASSUME NEW k \in Modes, Counts(k[1]) = top PROVE mode(first)[1] <= k[1]
    <3>1. PICK i \in 1..n : k = mode(i)
        BY <1>11
    <3>2. first <= i
        BY <1>8, <1>10, <1>15, <2>2, <3>1
    <3>3. first < i \/ first = i
        BY <1>6, <1>8, <3>2
    <3> QED
        BY <1>8, <1>14, <1>13, <3>1, <3>3
  <2> QED
      BY <2>1, <2>2
<1>17. IsMain(main)
    BY <1>16
<1> HIDE DEF main
<1>18. main = mode(first)
  <2>1. PICK i \in 1..n : main = mode(i)
      BY <1>11, <1>17
  <2>2. first <= i
      BY <1>8, <1>10, <1>15, <1>17, <2>1
  <2>3. ~(first < i)
    <3>1. SUFFICES ASSUME first < i PROVE FALSE
        OBVIOUS
    <3>2. mode(first)[2] < mode(i)[1]
        BY <1>8, <1>14, <3>1
    <3>3. mode(i)[1] <= mode(first)[1]
        BY <1>16, <1>17, <2>1
    <3> QED
        BY <1>8, <1>13, <3>2, <3>3
  <2>4. first = i
      BY <1>6, <1>8, <2>2, <2>3
  <2> QED
      BY <2>1, <2>4
<1>19. \A j \in 1..n : mode(j)[1] > main[2] <=> j > first
  <2> TAKE j \in 1..n
  <2>1. first \in Int /\ j \in Int
      BY <1>6, <1>8
  <2>2. CASE j > first
      BY <1>8, <1>14, <1>13, <1>18, <2>1, <2>2
  <2>3. CASE j = first
      BY <1>8, <1>13, <1>18, <2>1, <2>3
  <2>4. CASE j < first
    <3>1. mode(j)[2] < mode(first)[1]
        BY <1>8, <1>14, <2>4
    <3>2. ~(mode(j)[1] > main[2])
        BY <1>8, <1>13, <1>18, <3>1
    <3> QED
        BY <2>1, <2>4, <3>2
  <2> QED
      BY <2>1, <2>2, <2>3, <2>4
<1>20. \A m : m \in warmer <=> \E j \in 1..n : j > first /\ m = mode(j)
  <2> TAKE m
  <2>1. CASE m \in Modes
      BY <1>11, <1>19, <2>1
  <2>2. CASE m \notin Modes
      BY <1>10, <2>2
  <2> QED
      BY <2>1, <2>2
<1> HIDE DEF warmer
<1>21. warmer # {} <=> first < n
  <2>1. CASE first < n
    <3>1. n \in 1..n /\ n > first
        BY <1>6, <2>1
    <3> QED
        BY <1>20, <2>1, <3>1
  <2>2. CASE ~(first < n)
    <3>1. \A j \in 1..n : ~(j > first)
        BY <1>6, <1>8, <2>2
    <3> QED
        BY <1>20, <2>2, <3>1
  <2> QED
      BY <2>1, <2>2
<1>22. (\E m \in warmer : Counts(m[1]) >= 2) <=> \E i \in 1..n : i > first /\ P[i].amp >= 2
  <2>1. ASSUME NEW m \in warmer, Counts(m[1]) >= 2
        PROVE  \E i \in 1..n : i > first /\ P[i].amp >= 2
    <3>1. PICK j \in 1..n : j > first /\ m = mode(j)
        BY <1>20
    <3>2. P[j].amp >= 2
        BY <1>10, <2>1, <3>1
    <3> QED
        BY <3>1, <3>2
  <2>2. ASSUME NEW i \in 1..n, i > first, P[i].amp >= 2
        PROVE  \E m \in warmer : Counts(m[1]) >= 2
    <3>1. mode(i) \in warmer /\ Counts(mode(i)[1]) >= 2
        BY <1>10, <1>20, <2>2
    <3> QED
        BY <3>1
  <2> QED
      BY <2>1, <2>2
<1>23. hist_passed(h, background_amp) <=>
           IF warmer # {} THEN \E m \in warmer : Counts(m[1]) >= 2
           ELSE 10 * top <= 3 * background_amp
    BY <1>9, <1>15, <1>21, <1>22
<1> QED
    BY <1>23 DEF h, warmer, main, top
-----------------------------------------------------------------------------
(* The decision in the specification.                                      *)

SearchInv ==
    /\ pc = "learn" => index = 0
    /\ pc # "learn" => diffs \in Frames
    /\ pc \in {"look", "nobody"} => index = 0
    /\ pc \in {"cut", "nobody"} /\ index = 0
         => (pc = "cut" <=> hist_passed(Histogram(diffs), background_amp))

LEMMA SearchStep ==
    ASSUME TypeInv, SearchInv, [Next]_vars
    PROVE  SearchInv'
<1> USE DEF SearchInv
<1>1. index \in Nat
    BY BodyAssumption DEF TypeInv
<1>2. CASE Learn
    BY <1>2 DEF Learn
<1>3. CASE Look
  <2>1. /\ pc = "look" /\ UNCHANGED <<diffs, bvars, index>>
        /\ pc' = IF hist_passed(Histogram(diffs), background_amp) THEN "cut" ELSE "nobody"
      BY <1>3 DEF Look
  <2>2. hist_passed(Histogram(diffs), background_amp)' <=> hist_passed(Histogram(diffs), background_amp)
      BY <2>1 DEF bvars
  <2> QED
      BY <2>1, <2>2
<1>4. CASE Cut \/ Scan \/ Visit \/ Found \/ Centre \/ Filter \/ AssignSides
  <2>1. UNCHANGED diffs /\ pc # "learn" /\ pc' \notin {"learn", "look", "cut", "nobody"}
      BY <1>4 DEF Cut, Scan, Visit, Found, Centre, Filter, AssignSides
  <2> QED
      BY <2>1
<1>5. CASE Pick
  <2>1. /\ UNCHANGED diffs /\ pc = "pick" /\ pc' \notin {"learn", "look", "nobody"}
        /\ pc' = "cut" => index' = index + 1
      BY <1>5 DEF Pick
  <2>2. pc' = "cut" => index' # 0
      BY <1>1, <2>1
  <2> QED
      BY <2>1, <2>2
<1>6. CASE UNCHANGED vars
  <2>1. UNCHANGED <<diffs, background_amp, index, pc>>
      BY <1>6 DEF vars, bvars
  <2>2. hist_passed(Histogram(diffs), background_amp)' <=> hist_passed(Histogram(diffs), background_amp)
      BY <2>1
  <2> QED
      BY <2>1, <2>2
<1> QED
    BY <1>2, <1>3, <1>4, <1>5, <1>6 DEF Next

\* A frame is searched just when somebody stands out in it, for every frame in
\* which nobody is too warm for the histogram (OccupancyCounter.cpp:94-277).
THEOREM SearchedIfSeen ==
    ASSUME NobodyIsTooWarm
    PROVE  Spec => []SearchedIfSomeoneStandsOut
<1>1. Init => SearchInv
    BY DEF Init, SearchInv
<1>2. TypeInv /\ SearchInv /\ [Next]_vars => SearchInv'
    BY SearchStep
<1>3. TypeInv /\ SearchInv => SearchedIfSomeoneStandsOut
  <2> SUFFICES ASSUME TypeInv, SearchInv, pc \in {"cut", "nobody"}, index = 0
               PROVE  SearchedIfSomeoneStandsOut
      BY DEF SearchedIfSomeoneStandsOut
  <2>1. diffs \in [Pixels -> 0..255] /\ InRange(diffs)
      BY DEF TypeInv, SearchInv, NobodyIsTooWarm
  <2>2. pc = "cut" <=> hist_passed(Histogram(diffs), background_amp)
      BY DEF SearchInv
  <2> QED
      BY <2>1, <2>2, StandsOut DEF SearchedIfSomeoneStandsOut
<1> QED
    BY <1>1, <1>2, <1>3, TypeInit, TypeStep, PTL DEF Spec
=============================================================================
