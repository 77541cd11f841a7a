------------------------- MODULE PeopleCountProofs -------------------------
(***************************************************************************)
(* The types and the safety properties of PeopleCount, for every number of *)
(* frames, requests, midnights and replaced workers.                       *)
(*                                                                         *)
(* NobodyIsCountedTwice is a race between threads that read the count and  *)
(* write it later.  It becomes inductive once the counts that a thread has *)
(* read and not yet written back, mreg and areg, are bounded as well: a    *)
(* value that was within the bounds when it was read stays within them,    *)
(* because entered, left and actuated only grow.                           *)
(*                                                                         *)
(* OffsetsAddUp speaks of the moments when main is between two frames; the *)
(* invariant says what has been reported at every step of the loop.        *)
(*                                                                         *)
(* OnlyOverlapLosesUpdates compares the counters with a sum over all       *)
(* requests so far.  Asked is a fold, so its equation is proved first, and *)
(* from it what one more request adds (AskedMore).  The invariant then     *)
(* says which counter has everything at each step of main and of the       *)
(* handler, and how much the handler has yet to add (Pending).             *)
(***************************************************************************)
EXTENDS PeopleCount, TLAPS, NaturalsInduction, WellFoundedInduction

Tallies ==
    /\ entered \in Nat /\ left \in Nat /\ actuated \in Nat
    /\ actuation_count \in Nat

\* A count that no update has been applied to twice.
Bounded(count) ==
    /\ count \in Int
    /\ -left <= count
    /\ count <= PeopleAtStart + entered + actuated

\* The inductive invariant of NobodyIsCountedTwice.
BoundedInv ==
    /\ Tallies
    /\ Bounded(people_inside) /\ Bounded(oc_people_inside)
    /\ Bounded(mreg) /\ Bounded(areg)

\* process_frame adds d to one of the two tallies of crossings.
LEMMA MaxWithZero ==
    ASSUME NEW d \in Int
    PROVE  Max({d, 0}) = IF d > 0 THEN d ELSE 0
<1>1. CASE d > 0
    BY <1>1 DEF Max
<1>2. CASE d <= 0
    BY <1>2 DEF Max
<1> QED
    BY <1>1, <1>2

\* What is added to the two tallies differs by d.
LEMMA MaxWithZeroType ==
    ASSUME NEW d \in Int
    PROVE  /\ Max({d, 0}) \in Nat /\ Max({-d, 0}) \in Nat
           /\ Max({d, 0}) - Max({-d, 0}) = d
<1>1. -d \in Int
    OBVIOUS
<1>2. /\ Max({d, 0}) = IF d > 0 THEN d ELSE 0
      /\ Max({-d, 0}) = IF -d > 0 THEN -d ELSE 0
    BY <1>1, MaxWithZero
<1> QED
    BY <1>2

LEMMA BoundedInit ==
    ASSUME PeopleAtStart \in Nat, Init
    PROVE  BoundedInv
BY DEF Init, BoundedInv, Tallies, Bounded

LEMMA BoundedStep ==
    ASSUME PeopleAtStart \in Nat, Offsets \subseteq Nat, BoundedInv, [Next]_vars
    PROVE  BoundedInv'
<1> USE DEF BoundedInv, Tallies, Bounded
<1>1. CASE UNCHANGED vars
    BY <1>1 DEF vars, counts, mvars, avars, crossings
<1>2. ASSUME Main PROVE BoundedInv'
    <2>1. CASE FirstReport
        BY <2>1 DEF FirstReport, counts, avars, crossings
    <2>2. CASE Setup
        BY <2>2 DEF Setup, avars, crossings
    <2>3. CASE Frame
        BY <2>3 DEF Frame, counts, avars, crossings
    <2>4. CASE Count
        <3>1. PICK d \in Changes :
                 /\ oc_people_inside' = IF d = 0 THEN oc_people_inside ELSE mreg + d
                 /\ entered' = entered + Max({d, 0})
                 /\ left' = left + Max({-d, 0})
            BY <2>4 DEF Count
        <3>2. d \in Int
            BY CountAssumption
        <3>3. /\ Max({d, 0}) = IF d > 0 THEN d ELSE 0
              /\ Max({-d, 0}) = IF -d > 0 THEN -d ELSE 0
            BY <3>2, MaxWithZero
        <3>4. /\ people_inside' = people_inside /\ mreg' = mreg /\ areg' = areg
              /\ actuated' = actuated /\ actuation_count' = actuation_count
            BY <2>4 DEF Count, avars
        <3>5. Tallies' /\ left <= left' /\ entered <= entered' /\ actuated <= actuated'
            BY <3>1, <3>2, <3>3, <3>4
        <3>6. Bounded(people_inside)' /\ Bounded(oc_people_inside)'
            BY <3>1, <3>2, <3>3, <3>4
        <3>7. Bounded(mreg)' /\ Bounded(areg)'
            BY <3>1, <3>2, <3>3, <3>4
        <3> QED
            BY <3>5, <3>6, <3>7
    <2>5. CASE Copy
        BY <2>5 DEF Copy, avars, crossings
    <2>6. CASE Test
        BY <2>6 DEF Test, counts, avars, crossings
    <2>7. CASE SendChange
        BY <2>7 DEF SendChange, counts, avars, crossings
    <2>8. CASE Remember
        BY <2>8 DEF Remember, counts, avars, crossings
    <2> QED
        BY <1>2, <2>1, <2>2, <2>3, <2>4, <2>5, <2>6, <2>7, <2>8 DEF Main
<1>3. ASSUME Timer PROVE BoundedInv'
    <2>1. CASE Midnight
        BY <2>1 DEF Midnight, counts, mvars, avars, crossings
    <2>2. CASE Zero
        BY <2>2 DEF Zero, mvars, avars, crossings
    <2>3. CASE SendReset
        BY <2>3 DEF SendReset, counts, mvars, avars, crossings
    <2> QED
        BY <1>3, <2>1, <2>2, <2>3 DEF Timer
<1>4. ASSUME Actuation PROVE BoundedInv'
    <2>1. ASSUME NEW n \in Offsets, NEW ts \in Stamps, NEW junk \in Junk, Request(n, ts, junk)
          PROVE  BoundedInv'
        <3>1. actuation_count' \in Nat
            BY <2>1 DEF Request
        <3>2. UNCHANGED <<people_inside, oc_people_inside, mreg, entered, left, areg, actuated>>
            BY <2>1 DEF Request, counts, crossings
        <3> QED
            BY <3>1, <3>2
    <2>2. CASE ActuateRead
        BY <2>2 DEF ActuateRead, counts, mvars, crossings
    <2>3. CASE ActuateWrite
        BY <2>3 DEF ActuateWrite, mvars, crossings
    <2>4. CASE ActuateReport
        BY <2>4 DEF ActuateReport, counts, mvars, crossings
    <2>5. CASE ActuateCopy
        BY <2>5 DEF ActuateCopy, mvars, crossings
    <2> QED
        BY <1>4, <2>1, <2>2, <2>3, <2>4, <2>5 DEF Actuation
<1> QED
    BY <1>1, <1>2, <1>3, <1>4 DEF Next

\* Whatever main, the timer and the SIGUSR1 handler do in whatever order, an
\* update may be lost and none is applied twice, when requests only add
\* (HotSpotter.cpp:92, 159-171, XMPPWrapper.cpp:50).
THEOREM NoUpdateTwice ==
    ASSUME PeopleAtStart \in Nat, Offsets \subseteq Nat
    PROVE  Spec => []NobodyIsCountedTwice
<1>1. BoundedInv => NobodyIsCountedTwice
    BY DEF BoundedInv, Bounded, NobodyIsCountedTwice
<1> QED
    BY BoundedInit, BoundedStep, <1>1, PTL DEF Spec
-----------------------------------------------------------------------------
(* What has been reported.                                                 *)

\* The part of the loop in which the count is what it was after the last report.
Settled == {"start", "setup", "frame", "add", "copy"}

\* While only main has run: in the settled part of the loop the count is the
\* one last compared and the sum of the reports, before the report the sum is
\* the one last compared, and after it the count.
Accounts ==
    /\ mpc \in Settled => reported = people_inside /\ person_count_last = people_inside
    /\ mpc \in {"test", "send"} => reported = person_count_last
    /\ mpc = "last" => reported = people_inside

\* The inductive invariant of OffsetsAddUp.
ReportedInv ==
    /\ requests \in Nat /\ midnights \in Nat
    /\ MainAlone =>
          /\ {people_inside, oc_people_inside, person_count_last, reported, mreg} \subseteq Int
          /\ tpc = "sleep" /\ apc = "idle"
          /\ mpc \in Settled \cup {"test", "send", "last"}
          /\ mpc \in {"start", "setup"} => people_inside = 0
          /\ Accounts

LEMMA ReportedInit ==
    ASSUME PeopleAtStart = 0, Init
    PROVE  ReportedInv
BY DEF Init, ReportedInv, MainAlone, Accounts, Settled

LEMMA ReportedStep ==
    ASSUME ReportedInv, [Next]_vars
    PROVE  ReportedInv'
<1> USE DEF ReportedInv, MainAlone, Accounts, Settled
<1>1. CASE UNCHANGED vars
    BY <1>1 DEF vars, counts, mvars, tvars, avars
<1>2. ASSUME Main PROVE ReportedInv'
    <2>1. CASE FirstReport
        BY <2>1 DEF FirstReport, Report, counts, tvars, avars
    <2>2. CASE Setup
        BY <2>2 DEF Setup, tvars, avars
    <2>3. CASE Frame
        BY <2>3 DEF Frame, counts, tvars, avars
    <2>4. CASE Count
        <3>1. PICK d \in Changes :
                 oc_people_inside' = IF d = 0 THEN oc_people_inside ELSE mreg + d
            BY <2>4 DEF Count
        <3>2. MainAlone' => oc_people_inside' \in Int
            BY <2>4, <3>1, CountAssumption DEF Count, tvars, avars
        <3> QED
            BY <2>4, <3>2 DEF Count, tvars, avars
    <2>5. CASE Copy
        BY <2>5 DEF Copy, tvars, avars
    <2>6. CASE Test
        BY <2>6 DEF Test, counts, tvars, avars
    <2>7. CASE SendChange
        BY <2>7 DEF SendChange, Report, counts, tvars, avars
    <2>8. CASE Remember
        BY <2>8 DEF Remember, counts, tvars, avars
    <2> QED
        BY <1>2, <2>1, <2>2, <2>3, <2>4, <2>5, <2>6, <2>7, <2>8 DEF Main
<1>3. ASSUME Timer PROVE ReportedInv'
    <2>1. CASE Midnight
        BY <2>1 DEF Midnight, counts, mvars, avars
    <2>2. CASE Zero
        BY <2>2 DEF Zero, mvars, avars
    <2>3. CASE SendReset
        BY <2>3 DEF SendReset, Report, counts, mvars, avars
    <2> QED
        BY <1>3, <2>1, <2>2, <2>3 DEF Timer
<1>4. ASSUME Actuation PROVE ReportedInv'
    <2>1. ASSUME NEW n \in Offsets, NEW ts \in Stamps, NEW junk \in Junk, Request(n, ts, junk)
          PROVE  ReportedInv'
        BY <2>1 DEF Request, counts, tvars
    <2>2. CASE ActuateRead
        BY <2>2 DEF ActuateRead, counts, mvars, tvars
    <2>3. CASE ActuateWrite
        BY <2>3 DEF ActuateWrite, mvars, tvars
    <2>4. CASE ActuateReport
        BY <2>4 DEF ActuateReport, Report, counts, mvars, tvars
    <2>5. CASE ActuateCopy
        BY <2>5 DEF ActuateCopy, mvars, tvars
    <2> QED
        BY <1>4, <2>1, <2>2, <2>3, <2>4, <2>5 DEF Actuation
<1> QED
    BY <1>1, <1>2, <1>3, <1>4 DEF Next

\* While only main has run, the reports add up to the count after every frame,
\* when the program starts with nobody inside (HotSpotter.cpp:91-98, 250).
THEOREM ReportsAddUp ==
    ASSUME PeopleAtStart = 0
    PROVE  Spec => []OffsetsAddUp
<1>1. ReportedInv => OffsetsAddUp
    BY DEF ReportedInv, MainAlone, Accounts, Settled, OffsetsAddUp, Rest
<1> QED
    BY ReportedInit, ReportedStep, <1>1, PTL DEF Spec
-----------------------------------------------------------------------------
(* Types.                                                                  *)

\* The inductive invariant of TypeOK: the handler runs once for every request.
TypeInv ==
    /\ TypeOK
    /\ actuation_request_count + (IF apc = "read" THEN 1 ELSE 0) <= requests

\* The assumptions on the constants, one by one.
LEMMA Constants ==
    /\ PeopleAtStart \in Int /\ MaxFrames \in Nat /\ MaxRequests \in Nat
    /\ MaxMidnights \in Nat /\ MaxReconnects \in Nat
    /\ \A d \in Changes : d \in Int
    /\ \A n \in Offsets : n \in Int
BY CountAssumption

LEMMA TypeInit ==
    ASSUME Init
    PROVE  TypeInv
<1>1. asked \in Seq([stamp : Stamps, count : Offsets, acted : BOOLEAN])
    BY DEF Init
<1>2. {people_inside, oc_people_inside, person_count_last, mreg, offset, areg,
        actuation_count, actuated, reported} \subseteq Int
    BY Constants DEF Init
<1>3. /\ actuation_request_count \in 0..MaxRequests /\ frames \in 0..MaxFrames
      /\ requests \in 0..MaxRequests /\ midnights \in 0..MaxMidnights
      /\ reconnects \in 0..MaxReconnects /\ {entered, left} \subseteq Nat
    BY Constants DEF Init
<1>4. previous_timestamp \in (Stamps \X Junk) \cup {NoStamp}
    BY DEF Init
<1>5. /\ mpc = "start" /\ tpc = "sleep" /\ apc = "idle" /\ overlap = FALSE
      /\ actuation_request_count = 0 /\ requests = 0
    BY DEF Init
<1>6. TypeOK
    BY <1>1, <1>2, <1>3, <1>4, <1>5 DEF TypeOK
<1> QED
    BY <1>5, <1>6 DEF TypeInv

LEMMA TypeStep ==
    ASSUME TypeInv, [Next]_vars
    PROVE  TypeInv'
<1> USE Constants DEF TypeInv, TypeOK
<1>1. CASE UNCHANGED vars
    BY <1>1 DEF vars, counts, mvars, tvars, avars, worker, crossings
<1>2. ASSUME Next PROVE overlap' \in BOOLEAN
    BY <1>2 DEF Next, Watch
<1>3. ASSUME NEW change \in Int, Report(change)
      PROVE  /\ reported' \in Int /\ reconnects' \in 0..MaxReconnects
             /\ previous_timestamp' \in (Stamps \X Junk) \cup {NoStamp}
  <2>1. /\ reported \in Int /\ reconnects \in 0..MaxReconnects
        /\ previous_timestamp \in (Stamps \X Junk) \cup {NoStamp}
      OBVIOUS
  <2> HIDE DEF TypeInv, TypeOK
  <2>2. reported' \in Int
      BY <1>3, <2>1 DEF Report
  <2>3. reconnects' \in 0..MaxReconnects
      BY <1>3, <2>1 DEF Report, worker
  <2>4. previous_timestamp' \in (Stamps \X Junk) \cup {NoStamp}
      BY <1>3, <2>1, Zenon DEF Report, worker
  <2> QED
      BY <2>2, <2>3, <2>4
<1>4. ASSUME Main, overlap' \in BOOLEAN PROVE TypeInv'
    <2>1. CASE FirstReport
        <3>1. people_inside - person_count_last \in Int
            OBVIOUS
        <3> QED
            BY <1>3, <1>4, <2>1, <3>1 DEF FirstReport, counts, tvars, avars, crossings
    <2>2. CASE Setup
        BY <1>4, <2>2 DEF Setup, tvars, avars, worker, crossings
    <2>3. CASE Frame
        BY <1>4, <2>3 DEF Frame, counts, tvars, avars, worker, crossings
    <2>4. CASE Count
        <3>1. PICK d \in Changes :
                 /\ oc_people_inside' = IF d = 0 THEN oc_people_inside ELSE mreg + d
                 /\ entered' = entered + Max({d, 0})
                 /\ left' = left + Max({-d, 0})
            BY <2>4 DEF Count
        <3>2. d \in Int
            OBVIOUS
        <3>3. Max({d, 0}) \in Nat /\ Max({-d, 0}) \in Nat
            BY <3>2, MaxWithZeroType
        <3>4. oc_people_inside' \in Int /\ entered' \in Nat /\ left' \in Nat
          <4>1. oc_people_inside \in Int /\ mreg \in Int /\ entered \in Nat /\ left \in Nat
              OBVIOUS
          <4> QED
              BY <3>1, <3>2, <3>3, <4>1
        <3> QED
            BY <1>4, <2>4, <3>4 DEF Count, tvars, avars, worker
    <2>5. CASE Copy
        BY <1>4, <2>5 DEF Copy, tvars, avars, worker, crossings
    <2>6. CASE Test
        BY <1>4, <2>6 DEF Test, counts, tvars, avars, worker, crossings
    <2>7. CASE SendChange
        <3>1. people_inside - person_count_last \in Int
            OBVIOUS
        <3> QED
            BY <1>3, <1>4, <2>7, <3>1 DEF SendChange, counts, tvars, avars, crossings
    <2>8. CASE Remember
        BY <1>4, <2>8 DEF Remember, counts, tvars, avars, worker, crossings
    <2> QED
        BY <1>4, <2>1, <2>2, <2>3, <2>4, <2>5, <2>6, <2>7, <2>8 DEF Main
<1>5. ASSUME Timer, overlap' \in BOOLEAN PROVE TypeInv'
    <2>1. CASE Midnight
        BY <1>5, <2>1 DEF Midnight, counts, mvars, avars, worker, crossings
    <2>2. CASE Zero
        BY <1>5, <2>2 DEF Zero, mvars, avars, worker, crossings
    <2>3. CASE SendReset
        BY <1>3, <1>5, <2>3 DEF SendReset, counts, mvars, avars, crossings
    <2> QED
        BY <1>5, <2>1, <2>2, <2>3 DEF Timer
<1>6. ASSUME Actuation, overlap' \in BOOLEAN PROVE TypeInv'
    <2>1. ASSUME NEW n \in Offsets, NEW ts \in Stamps, NEW junk \in Junk, Request(n, ts, junk)
          PROVE  TypeInv'
        <3>1. asked' \in Seq([stamp : Stamps, count : Offsets, acted : BOOLEAN])
            BY <2>1 DEF Request
        <3>2. /\ requests' = requests + 1 /\ requests' \in 0..MaxRequests
              /\ previous_timestamp' \in (Stamps \X Junk) \cup {NoStamp}
              /\ actuation_count' \in Int /\ apc' \in {"idle", "read"} /\ apc = "idle"
              /\ mpc' \in {mpc, "killed"}
            BY <2>1 DEF Request
        <3> QED
            BY <1>6, <2>1, <3>1, <3>2 DEF Request, counts, tvars, crossings
    <2>2. CASE ActuateRead
        <3>1. /\ actuation_request_count' = actuation_request_count + 1
              /\ actuation_request_count' \in 0..MaxRequests /\ requests' = requests
              /\ apc' \in {"write", "copy"} /\ actuation_request_count' <= requests'
            BY <2>2 DEF ActuateRead
        <3>2. areg' \in Int
            BY <2>2 DEF ActuateRead
        <3> QED
            BY <1>6, <2>2, <3>1, <3>2 DEF ActuateRead, counts, mvars, tvars, worker, crossings
    <2>3. CASE ActuateWrite
        BY <1>6, <2>3 DEF ActuateWrite, mvars, tvars, worker, crossings
    <2>4. CASE ActuateReport
        BY <1>3, <1>6, <2>4 DEF ActuateReport, counts, mvars, tvars, crossings
    <2>5. CASE ActuateCopy
        BY <1>6, <2>5 DEF ActuateCopy, mvars, tvars, worker, crossings
    <2> QED
        BY <1>6, <2>1, <2>2, <2>3, <2>4, <2>5 DEF Actuation
<1> QED
    BY <1>1, <1>2, <1>4, <1>5, <1>6 DEF Next

\* Every variable keeps its type, for any number of frames, requests,
\* midnights and replaced workers.
THEOREM TypeCorrect == Spec => []TypeOK
<1>1. TypeInv => TypeOK
    BY DEF TypeInv
<1> QED
    BY TypeInit, TypeStep, <1>1, PTL DEF Spec
-----------------------------------------------------------------------------
(* What the requests ask for, as a sum over a growing sequence.            *)

Requests == [stamp : Stamps, count : Offsets, acted : BOOLEAN]

\* Request i of s adds to the count: it is no repetition, not the first, and
\* not a value that the handler takes for none.
Fresh(s, i) == i > 1 /\ s[i].stamp # s[i - 1].stamp /\ s[i].count > -450

\* The equation of the fold in Asked: sum is defined on every set of indices.
IsSumOf(sum, s, D) ==
    sum = [I \in SUBSET D |->
              IF I = {} THEN 0
              ELSE IF Fresh(s, Max(I)) THEN sum[I \ {Max(I)}] + s[Max(I)].count
                                       ELSE sum[I \ {Max(I)}]]

LEMMA SumAt ==
    ASSUME NEW sum, NEW s, NEW D, IsSumOf(sum, s, D), NEW I, I \subseteq D
    PROVE  sum[I] = IF I = {} THEN 0
                    ELSE IF Fresh(s, Max(I)) THEN sum[I \ {Max(I)}] + s[Max(I)].count
                                             ELSE sum[I \ {Max(I)}]
BY DEF IsSumOf

\* The greatest element of a segment, and the rest of it.
LEMMA SegmentTop ==
    ASSUME NEW n \in Nat
    PROVE  /\ n + 1 \in 1..(n + 1) /\ (1..(n + 1)) \ {n + 1} = 1..n
           /\ \A I : I \subseteq 1..(n + 1) /\ n + 1 \in I => Max(I) = n + 1
<1>1. n + 1 \in 1..(n + 1) /\ (1..(n + 1)) \ {n + 1} = 1..n
    OBVIOUS
<1>2. ASSUME NEW I, I \subseteq 1..(n + 1), n + 1 \in I PROVE Max(I) = n + 1
  <2>1. \A i \in I : n + 1 >= i
      BY <1>2
  <2>2. Max(I) \in I /\ \A i \in I : Max(I) >= i
      BY <1>2, <2>1 DEF Max
  <2>3. Max(I) >= n + 1 /\ n + 1 >= Max(I) /\ Max(I) \in 1..(n + 1)
      BY <1>2, <2>1, <2>2
  <2> QED
      BY <2>3
<1> QED
    BY <1>1, <1>2

\* A set of naturals that has 0 and every successor has all of them.
LEMMA NatInduct ==
    ASSUME NEW P, 0 \in P, \A k \in Nat : k \in P => k + 1 \in P
    PROVE  \A k \in Nat : k \in P
<1> DEFINE Q == Nat \ P
           R == {p \in Nat \X Nat : p[1] < p[2]}
<1>1. SUFFICES ASSUME Q # {} PROVE FALSE
    OBVIOUS
<1>2. IsWellFoundedOn(R, Nat)
    BY NatLessThanWellFounded DEF OpToRel
<1>3. Q \subseteq Nat
    OBVIOUS
<1> HIDE DEF R
<1>4. PICK k \in Q : \A j \in Q : ~(<<j, k>> \in R)
    BY <1>1, <1>2, <1>3, WFMin
<1>5. k \in Nat /\ k # 0 /\ k - 1 \in Nat
    OBVIOUS
<1>6. <<k - 1, k>> \in R
    BY <1>5 DEF R
<1>7. k - 1 \in P
    BY <1>4, <1>5, <1>6
<1> QED
    BY <1>5, <1>7

LEMMA MaxOfSegment ==
    ASSUME NEW n \in Nat
    PROVE  \A I \in SUBSET (1..n) : I # {} => Max(I) \in I /\ \A i \in I : i <= Max(I)
<1> DEFINE P == {k \in Nat : \A I \in SUBSET (1..k) : I # {} => \E m \in I : \A i \in I : m >= i}
<1>1. 0 \in P
  <2>1. 1..0 = {} /\ SUBSET {} = {{}}
      OBVIOUS
  <2> QED
      BY <2>1
<1>2. ASSUME NEW k \in Nat, k \in P PROVE k + 1 \in P
  <2>1. SUFFICES ASSUME NEW I \in SUBSET (1..(k + 1)), I # {} PROVE \E m \in I : \A i \in I : m >= i
      OBVIOUS
  <2>2. CASE k + 1 \in I
      BY <2>2
  <2>3. CASE k + 1 \notin I
    <3>1. I \in SUBSET (1..k)
        BY <2>3
    <3> QED
        BY <3>1, <2>1, <1>2
  <2> QED
      BY <2>2, <2>3
<1> HIDE DEF P
<1>3. n \in P
    BY <1>1, <1>2, NatInduct
<1>4. \A I \in SUBSET (1..n) : I # {} => \E m \in I : \A i \in I : m >= i
    BY <1>3 DEF P
<1>5. ASSUME NEW I \in SUBSET (1..n), I # {} PROVE Max(I) \in I /\ \A i \in I : i <= Max(I)
  <2>1. PICK m \in I : \A i \in I : m >= i
      BY <1>4, <1>5
  <2>2. Max(I) \in I /\ \A i \in I : Max(I) >= i
      BY <2>1 DEF Max
  <2> QED
      BY <2>2
<1> QED
    BY <1>5

LEMMA SumExists ==
    ASSUME NEW s, NEW n \in Nat
    PROVE  \E sum : IsSumOf(sum, s, 1..n)
<1> DEFINE P == {k \in Nat : \E sum : IsSumOf(sum, s, 1..k)}
<1>1. 0 \in P
  <2> DEFINE z == [I \in SUBSET (1..0) |-> 0]
  <2>1. \A I \in SUBSET (1..0) : I = {}
      OBVIOUS
  <2>2. IsSumOf(z, s, 1..0)
      BY <2>1 DEF IsSumOf
  <2> QED
      BY <2>2
<1>2. ASSUME NEW k \in Nat, k \in P PROVE k + 1 \in P
  <2>1. PICK g : IsSumOf(g, s, 1..k)
      BY <1>2
  <2> DEFINE h == [I \in SUBSET (1..(k + 1)) |->
                      IF k + 1 \notin I THEN g[I]
                      ELSE IF Fresh(s, k + 1) THEN g[I \ {k + 1}] + s[k + 1].count
                                              ELSE g[I \ {k + 1}]]
  <2>2. ASSUME NEW I \in SUBSET (1..(k + 1))
        PROVE  h[I] = IF I = {} THEN 0
                      ELSE IF Fresh(s, Max(I)) THEN h[I \ {Max(I)}] + s[Max(I)].count
                                               ELSE h[I \ {Max(I)}]
    <3>1. CASE k + 1 \in I
      <4>1. Max(I) = k + 1
          BY <3>1, SegmentTop
      <4>2. I \ {k + 1} \in SUBSET (1..(k + 1)) /\ k + 1 \notin I \ {k + 1}
          OBVIOUS
      <4>3. h[I \ {k + 1}] = g[I \ {k + 1}]
          BY <4>2
      <4>4. h[I] = IF Fresh(s, k + 1) THEN g[I \ {k + 1}] + s[k + 1].count ELSE g[I \ {k + 1}]
          BY <3>1
      <4> HIDE DEF h
      <4> QED
          BY <4>1, <4>3, <4>4, <3>1
    <3>2. CASE k + 1 \notin I
      <4>1. I \in SUBSET (1..k)
          BY <3>2
      <4>2. h[I] = g[I]
          BY <3>2
      <4>3. g[I] = IF I = {} THEN 0
                   ELSE IF Fresh(s, Max(I)) THEN g[I \ {Max(I)}] + s[Max(I)].count
                                            ELSE g[I \ {Max(I)}]
          BY <2>1, <4>1 DEF IsSumOf
      <4>4. I \ {Max(I)} \in SUBSET (1..(k + 1)) /\ k + 1 \notin I \ {Max(I)}
          BY <3>2
      <4>5. h[I \ {Max(I)}] = g[I \ {Max(I)}]
          BY <4>4
      <4> HIDE DEF h
      <4> QED
          BY <4>2, <4>3, <4>5
    <3> QED
        BY <3>1, <3>2
  <2>3. h = [I \in SUBSET (1..(k + 1)) |-> h[I]]
      OBVIOUS
  <2> HIDE DEF h
  <2>4. IsSumOf(h, s, 1..(k + 1))
      BY <2>2, <2>3 DEF IsSumOf
  <2> QED
      BY <2>4
<1> HIDE DEF P
<1>3. n \in P
    BY <1>1, <1>2, NatInduct
<1> QED
    BY <1>3 DEF P

\* The first n elements of s are those of t, and have a count.
Alike(s, t, n) == \A i \in 1..n : s[i] = t[i] /\ s[i].count \in Int

\* Two sequences that agree up to n have the same sums up to n.
LEMMA SumsAgree ==
    ASSUME NEW s, NEW t, NEW n \in Nat, NEW m \in Nat, n <= m,
           NEW g, IsSumOf(g, s, 1..n), NEW h, IsSumOf(h, t, 1..m),
           Alike(s, t, n)
    PROVE  \A k \in 0..n : g[1..k] \in Int /\ g[1..k] = h[1..k]
<1> DEFINE P == {k \in Nat : k <= n => g[1..k] \in Int /\ g[1..k] = h[1..k]}
<1>1. 0 \in P
  <2>1. 1..0 = {} /\ {} \in SUBSET (1..n) /\ {} \in SUBSET (1..m)
      OBVIOUS
  <2>2. g[{}] = 0 /\ h[{}] = 0
      BY <2>1 DEF IsSumOf
  <2> QED
      BY <2>1, <2>2
<1>2. ASSUME NEW k \in Nat, k \in P PROVE k + 1 \in P
  <2>1. SUFFICES ASSUME k + 1 <= n PROVE g[1..(k + 1)] \in Int /\ g[1..(k + 1)] = h[1..(k + 1)]
      OBVIOUS
  <2> DEFINE J == 1..(k + 1)
  <2>2. J \subseteq 1..n /\ J \subseteq 1..m
      BY <2>1
  <2>3. Max(J) = k + 1 /\ J # {} /\ J \ {k + 1} = 1..k
      BY SegmentTop
  <2> HIDE DEF J
  <2>4. g[J] = IF Fresh(s, k + 1) THEN g[1..k] + s[k + 1].count ELSE g[1..k]
    <3>1. g[J] = IF J = {} THEN 0
                 ELSE IF Fresh(s, Max(J)) THEN g[J \ {Max(J)}] + s[Max(J)].count
                                          ELSE g[J \ {Max(J)}]
        BY <2>2, SumAt
    <3> QED
        BY <2>3, <3>1
  <2>5. h[J] = IF Fresh(t, k + 1) THEN h[1..k] + t[k + 1].count ELSE h[1..k]
    <3>1. h[J] = IF J = {} THEN 0
                 ELSE IF Fresh(t, Max(J)) THEN h[J \ {Max(J)}] + t[Max(J)].count
                                          ELSE h[J \ {Max(J)}]
        BY <2>2, SumAt
    <3> QED
        BY <2>3, <3>1
  <2>6. Fresh(s, k + 1) = Fresh(t, k + 1)
    <3>1. CASE k + 1 > 1
      <4>1. k \in 1..n /\ k + 1 \in 1..n /\ (k + 1) - 1 = k
          BY <2>1, <3>1
      <4> QED
          BY <4>1 DEF Fresh, Alike
    <3>2. CASE ~(k + 1 > 1)
        BY <3>2 DEF Fresh
    <3> QED
        BY <3>1, <3>2
  <2>7. s[k + 1] = t[k + 1] /\ s[k + 1].count \in Int
      BY <2>1 DEF Alike
  <2>8. g[1..k] \in Int /\ g[1..k] = h[1..k]
      BY <1>2, <2>1
  <2> QED
      BY <2>4, <2>5, <2>6, <2>7, <2>8 DEF J
<1> HIDE DEF P
<1>3. \A k \in Nat : k \in P
    BY <1>1, <1>2, NatInduct
<1> QED
    BY <1>3 DEF P

\* The sequence that Asked folds.
Listed(s) == [i \in DOMAIN s |-> i]

\* The function that the fold in Asked chooses.
IsFoldOf(sum, s) ==
    sum = [I \in SUBSET DOMAIN Listed(s) |->
              IF I = {} THEN 0
              ELSE IF Fresh(s, Listed(s)[Max(I)]) THEN sum[I \ {Max(I)}] + s[Listed(s)[Max(I)]].count
                                       ELSE sum[I \ {Max(I)}]]
Fold(s) == CHOOSE sum : IsFoldOf(sum, s)

LEMMA AskedIsFold == Asked = Fold(asked)[DOMAIN Listed(asked)]
BY DEF Asked, FoldLeft, MapThenFoldSet, Fold, IsFoldOf, Listed, Fresh

LEMMA FoldIsSum ==
    ASSUME NEW s \in Seq(Requests)
    PROVE  IsSumOf(Fold(s), s, 1..Len(s)) /\ DOMAIN Listed(s) = 1..Len(s)
<1>1. DOMAIN Listed(s) = 1..Len(s) /\ \A i \in 1..Len(s) : Listed(s)[i] = i
    BY DEF Listed
<1>2. \A sum : IsFoldOf(sum, s) <=> IsSumOf(sum, s, 1..Len(s))
  <2> TAKE sum
  <2>1. ASSUME NEW I \in SUBSET (1..Len(s)), I # {} PROVE Listed(s)[Max(I)] = Max(I)
    <3>1. Len(s) \in Nat
        OBVIOUS
    <3>2. Max(I) \in 1..Len(s)
        BY <2>1, <3>1, MaxOfSegment
    <3> QED
        BY <1>1, <3>2
  <2>2. \A I \in SUBSET (1..Len(s)) :
           (IF I = {} THEN 0
            ELSE IF Fresh(s, Listed(s)[Max(I)]) THEN sum[I \ {Max(I)}] + s[Listed(s)[Max(I)]].count
                                                ELSE sum[I \ {Max(I)}])
         = (IF I = {} THEN 0
            ELSE IF Fresh(s, Max(I)) THEN sum[I \ {Max(I)}] + s[Max(I)].count
                                     ELSE sum[I \ {Max(I)}])
      BY <2>1
  <2> QED
      BY <1>1, <2>2 DEF IsFoldOf, IsSumOf
<1>3. PICK sum : IsFoldOf(sum, s)
  <2>1. Len(s) \in Nat
      OBVIOUS
  <2> QED
      BY <1>2, <2>1, SumExists
<1>4. IsFoldOf(Fold(s), s)
    BY <1>3 DEF Fold
<1> QED
    BY <1>1, <1>2, <1>4

LEMMA AskedIsSum ==
    ASSUME asked \in Seq(Requests)
    PROVE  IsSumOf(Fold(asked), asked, 1..Len(asked)) /\ Asked = Fold(asked)[1..Len(asked)]
BY FoldIsSum, AskedIsFold

LEMMA AskedSame ==
    ASSUME asked' = asked
    PROVE  Asked' = Asked
<1>1. Asked' = Fold(asked')[DOMAIN Listed(asked')]
    BY DEF Asked, FoldLeft, MapThenFoldSet, Fold, IsFoldOf, Listed, Fresh
<1> QED
    BY <1>1, AskedIsFold

LEMMA AskedNone ==
    ASSUME asked = <<>>
    PROVE  Asked = 0
<1>1. asked \in Seq(Requests) /\ Len(asked) = 0 /\ 1..0 = {}
    OBVIOUS
<1>2. IsSumOf(Fold(asked), asked, {}) /\ Asked = Fold(asked)[{}]
    BY <1>1, AskedIsSum
<1> QED
    BY <1>2, SumAt

LEMMA AskedType ==
    ASSUME asked \in Seq(Requests)
    PROVE  Asked \in Int
<1> DEFINE n == Len(asked)
           g == Fold(asked)
<1>1. n \in Nat /\ n <= n /\ n \in 0..n
    OBVIOUS
<1>2. Alike(asked, asked, n)
  <2>1. \A i \in 1..n : asked[i] \in Requests
      OBVIOUS
  <2> QED
      BY <2>1, Constants DEF Alike, Requests
<1>3. IsSumOf(g, asked, 1..n) /\ Asked = g[1..n]
    BY AskedIsSum
<1> HIDE DEF n, g
<1>4. \A k \in 0..n : g[1..k] \in Int /\ g[1..k] = g[1..k]
    BY <1>1, <1>2, <1>3, SumsAgree
<1> QED
    BY <1>1, <1>3, <1>4

LEMMA AskedMore ==
    ASSUME NEW r \in Requests, asked \in Seq(Requests), asked' = Append(asked, r)
    PROVE  /\ Asked \in Int
           /\ Asked' = Asked + IF Fresh(asked', Len(asked) + 1) THEN r.count ELSE 0
<1> DEFINE n == Len(asked)
<1>1. n \in Nat /\ asked' \in Seq(Requests) /\ Len(asked') = n + 1 /\ asked'[n + 1] = r
    OBVIOUS
<1>2. \A i \in 1..n : asked[i] = asked'[i] /\ asked[i] \in Requests
    OBVIOUS
<1>3. \A q \in Requests : q.count \in Int
    BY CountAssumption DEF Requests
<1>4. IsSumOf(Fold(asked), asked, 1..n) /\ Asked = Fold(asked)[1..n]
    BY FoldIsSum, AskedIsFold
<1>5. Asked' = Fold(asked')[DOMAIN Listed(asked')]
    BY DEF Asked, FoldLeft, MapThenFoldSet, Fold, IsFoldOf, Listed, Fresh
<1>6. IsSumOf(Fold(asked'), asked', 1..(n + 1)) /\ Asked' = Fold(asked')[1..(n + 1)]
    BY <1>1, <1>5, FoldIsSum
<1> DEFINE g == Fold(asked)
           h == Fold(asked')
<1> HIDE DEF g, h, n
<1>7. g[1..n] \in Int /\ g[1..n] = h[1..n]
  <2>1. Alike(asked, asked', n)
      BY <1>2, <1>3 DEF Alike
  <2>2. n <= n + 1 /\ n + 1 \in Nat /\ n \in 0..n
      BY <1>1
  <2>3. IsSumOf(g, asked, 1..n) /\ IsSumOf(h, asked', 1..(n + 1))
      BY <1>4, <1>6 DEF g, h
  <2>4. \A k \in 0..n : g[1..k] \in Int /\ g[1..k] = h[1..k]
      BY <1>1, <2>1, <2>2, <2>3, SumsAgree
  <2> QED
      BY <2>2, <2>4
<1>8. h[1..(n + 1)] = IF Fresh(asked', n + 1) THEN h[1..n] + r.count ELSE h[1..n]
  <2> DEFINE J == 1..(n + 1)
  <2>1. Max(J) = n + 1 /\ J # {} /\ J \ {n + 1} = 1..n
      BY <1>1, SegmentTop
  <2>2. IsSumOf(h, asked', J) /\ asked'[n + 1] = r
      BY <1>1, <1>6 DEF h
  <2> HIDE DEF J
  <2>3. h[J] = IF Fresh(asked', n + 1) THEN h[1..n] + r.count ELSE h[1..n]
    <3>1. h[J] = IF J = {} THEN 0
                 ELSE IF Fresh(asked', Max(J)) THEN h[J \ {Max(J)}] + asked'[Max(J)].count
                                               ELSE h[J \ {Max(J)}]
        BY <2>2, SumAt
    <3> QED
        BY <2>1, <2>2, <3>1
  <2> QED
      BY <2>3 DEF J
<1> QED
    BY <1>1, <1>3, <1>4, <1>6, <1>7, <1>8 DEF g, h, n
-----------------------------------------------------------------------------
(* Where an update can be lost.                                            *)

NoLoss == ~overlap /\ reconnects = 0 /\ midnights = 0

\* What the handler is about to add to people_inside.
Pending ==
    IF \/ apc = "write"
       \/ apc = "read" /\ actuation_request_count > 0 /\ actuation_count > -450
    THEN actuation_count ELSE 0

\* The counters know how many requests there have been, and the worker which
\* was the last.
Remembered ==
    /\ asked = <<>> =>
          previous_timestamp = NoStamp /\ apc = "idle" /\ actuation_request_count = 0
    /\ asked # <<>> =>
          /\ \E junk \in Junk : previous_timestamp = <<asked[Len(asked)].stamp, junk>>
          /\ apc # "read" /\ mpc # "killed" => actuation_request_count > 0
          /\ apc = "read" => (actuation_request_count > 0 <=> Len(asked) > 1)
    /\ mpc = "start" => apc = "idle" /\ asked = <<>>

\* Both counters have everything but what is pending, wherever main and the
\* handler are; process_frame has what it read, and so has the handler.
Complete ==
    /\ mpc # "copy" => people_inside = Expected - Pending
    /\ mpc \in {"frame", "test", "send", "last"} /\ apc \notin {"report", "copy"} =>
          oc_people_inside = people_inside
    /\ mpc \in {"add", "copy"} => apc = "idle" /\ oc_people_inside = Expected
    /\ mpc = "add" => mreg = Expected
    /\ apc = "write" => areg = people_inside

\* The inductive invariant of OnlyOverlapLosesUpdates.
LosslessInv ==
    NoLoss => /\ tpc = "sleep"
              /\ Remembered
              /\ mpc # "killed" => Complete

LEMMA LosslessInit ==
    ASSUME Init
    PROVE  LosslessInv
<1>1. Asked = 0
    BY AskedNone DEF Init
<1>2. /\ mpc = "start" /\ apc = "idle" /\ tpc = "sleep" /\ asked = <<>> /\ entered = 0 /\ left = 0
      /\ people_inside = PeopleAtStart /\ previous_timestamp = NoStamp
      /\ actuation_request_count = 0 /\ PeopleAtStart \in Int
    BY Constants DEF Init
<1>3. Complete
    BY <1>1, <1>2 DEF Complete, Expected, Pending
<1>4. Remembered
    BY <1>2 DEF Remembered
<1> QED
    BY <1>2, <1>3, <1>4 DEF LosslessInv

\* The numbers the invariant computes with.
LEMMA ExpectedType ==
    ASSUME TypeInv
    PROVE  /\ Asked \in Int /\ Expected \in Int /\ Pending \in Int
           /\ {people_inside, oc_people_inside, mreg, areg, actuation_count, entered, left} \subseteq Int
           /\ overlap \in BOOLEAN /\ reconnects \in Nat /\ midnights \in Nat
           /\ actuation_request_count \in Nat
           /\ asked \in Seq(Requests)
<1>1. /\ {people_inside, oc_people_inside, mreg, areg, actuation_count, entered, left} \subseteq Int
      /\ overlap \in BOOLEAN /\ reconnects \in Nat /\ midnights \in Nat
      /\ actuation_request_count \in Nat
      /\ asked \in Seq(Requests)
    BY Constants DEF TypeInv, TypeOK, Requests
<1>2. Asked \in Int
    BY <1>1, AskedType
<1> QED
    BY <1>1, <1>2, Constants DEF Expected, Pending

LEMMA LosslessMain ==
    ASSUME TypeInv, TypeInv', LosslessInv, NoLoss', Main, Watch
    PROVE  tpc' = "sleep" /\ Remembered' /\ (mpc' # "killed" => Complete')
<1>1. overlap = FALSE /\ (mpc' \in {"add", "copy"} => apc' = "idle")
    BY ExpectedType DEF NoLoss, Watch
<1>2. asked' = asked /\ apc' = apc /\ areg' = areg /\ tpc' = tpc /\ midnights' = midnights
      /\ actuation_count' = actuation_count
      /\ actuation_request_count' = actuation_request_count
    BY DEF Main, FirstReport, Setup, Frame, Count, Copy, Test, SendChange, Remember, tvars, avars
<1>3. reconnects = 0 /\ previous_timestamp' = previous_timestamp
  <2>1. ASSUME NEW change, Report(change)
        PROVE  reconnects = 0 /\ previous_timestamp' = previous_timestamp
      BY <2>1, ExpectedType DEF Report, worker, NoLoss
  <2>2. CASE FirstReport
      BY <2>1, <2>2 DEF FirstReport
  <2>3. CASE SendChange
      BY <2>1, <2>3 DEF SendChange
  <2>4. CASE Setup \/ Frame \/ Count \/ Copy \/ Test \/ Remember
      BY <2>4 DEF Setup, Frame, Count, Copy, Test, Remember, worker, NoLoss
  <2> QED
      BY <2>2, <2>3, <2>4 DEF Main
<1>4. tpc = "sleep" /\ Remembered /\ (mpc # "killed" => Complete)
    BY <1>1, <1>2, <1>3 DEF LosslessInv, NoLoss
<1>5. mpc # "killed" /\ mpc' # "killed" /\ mpc' # "start"
    BY DEF Main, FirstReport, Setup, Frame, Count, Copy, Test, SendChange, Remember
<1>6. Asked' = Asked /\ Pending' = Pending
    BY <1>2, AskedSame DEF Pending
<1>7. Remembered'
    BY <1>2, <1>3, <1>4, <1>5 DEF Remembered
<1> USE ExpectedType
<1>8. Complete'
  <2>1. CASE FirstReport
      BY <1>2, <1>4, <1>6, <2>1 DEF FirstReport, counts, crossings, Complete, Expected
  <2>2. CASE Setup
      BY <1>2, <1>4, <1>6, <2>2 DEF Setup, crossings, Complete, Expected
  <2>3. CASE Frame
    <3>1. apc = "idle" /\ Pending = 0
        BY <1>1, <1>2, <2>3 DEF Frame, Pending
    <3> QED
        BY <1>2, <1>4, <1>6, <2>3, <3>1 DEF Frame, counts, crossings, Complete, Expected
  <2>4. CASE Count
    <3>1. PICK d \in Changes :
             /\ oc_people_inside' = IF d = 0 THEN oc_people_inside ELSE mreg + d
             /\ entered' = entered + Max({d, 0})
             /\ left' = left + Max({-d, 0})
        BY <2>4 DEF Count
    <3>2. d \in Int
        BY Constants
    <3>3. Expected' = Expected + d
      <4>1. /\ Max({d, 0}) \in Nat /\ Max({-d, 0}) \in Nat
            /\ Max({d, 0}) - Max({-d, 0}) = d
          BY <3>2, MaxWithZeroType
      <4>2. Asked \in Int /\ Asked' = Asked /\ entered \in Int /\ left \in Int
          BY <1>6
      <4> QED
        <5>1. /\ Expected = PeopleAtStart + entered - left + Asked
              /\ Expected' = PeopleAtStart + entered' - left' + Asked'
            BY DEF Expected
        <5> HIDE ExpectedType
        <5> QED
            BY <3>1, <3>2, <4>1, <4>2, <5>1, Constants
    <3>4. oc_people_inside' = Expected'
        BY <1>4, <2>4, <3>1, <3>2, <3>3 DEF Count, Complete
    <3> QED
        BY <1>1, <1>2, <2>4, <3>4 DEF Count, Complete
  <2>5. CASE Copy
    <3>1. apc = "idle" /\ Pending = 0 /\ oc_people_inside = Expected
        BY <1>4, <1>5, <2>5 DEF Copy, Complete, Pending
    <3> QED
        BY <1>2, <1>4, <1>6, <2>5, <3>1 DEF Copy, crossings, Complete, Expected
  <2>6. CASE Test
      BY <1>2, <1>4, <1>6, <2>6 DEF Test, counts, crossings, Complete, Expected
  <2>7. CASE SendChange
      BY <1>2, <1>4, <1>6, <2>7 DEF SendChange, counts, crossings, Complete, Expected
  <2>8. CASE Remember
      BY <1>2, <1>4, <1>6, <2>8 DEF Remember, counts, crossings, Complete, Expected
  <2> QED
      BY <2>1, <2>2, <2>3, <2>4, <2>5, <2>6, <2>7, <2>8 DEF Main
<1> QED
    BY <1>2, <1>4, <1>7, <1>8

\* The byte of the timestamp that is never written is the same each time.
OneJunk == \A x, y \in Junk : x = y

LEMMA LosslessRequest ==
    ASSUME TypeInv, TypeInv', LosslessInv, NoLoss', OneJunk, Watch,
           NEW n \in Offsets, NEW ts \in Stamps, NEW junk \in Junk, Request(n, ts, junk)
    PROVE  tpc' = "sleep" /\ Remembered' /\ (mpc' # "killed" => Complete')
<1> DEFINE r == [stamp |-> ts, count |-> n, acted |-> ~Repeated(ts, junk)]
<1>1. /\ asked' = Append(asked, r) /\ apc = "idle" /\ mpc # "killed"
      /\ UNCHANGED <<people_inside, oc_people_inside, mreg, areg, entered, left, tpc,
                     actuation_request_count, midnights, reconnects>>
    BY DEF Request, counts, crossings, tvars
<1>2. NoLoss /\ tpc = "sleep" /\ Remembered /\ Complete
  <2>1. overlap = FALSE
      BY ExpectedType DEF NoLoss, Watch
  <2> QED
      BY <1>1, <2>1 DEF LosslessInv, NoLoss
<1>3. /\ r \in Requests /\ r.stamp = ts /\ r.count = n /\ asked \in Seq(Requests) /\ n \in Int
      /\ actuation_request_count \in Nat
    BY ExpectedType, Constants DEF Requests
<1> HIDE DEF r
<1>4. /\ Len(asked') = Len(asked) + 1 /\ asked'[Len(asked')] = r /\ asked' # <<>>
      /\ Len(asked) \in Nat /\ (asked # <<>> <=> Len(asked) > 0)
      /\ \A i \in 1..Len(asked) : asked'[i] = asked[i]
    BY <1>1, <1>3
<1>5. Asked \in Int /\ Asked' = Asked + IF Fresh(asked', Len(asked) + 1) THEN n ELSE 0
    BY <1>1, <1>3, AskedMore
<1>6. Pending = 0
    BY <1>1 DEF Pending
<1>7. CASE Repeated(ts, junk)
  <2>1. UNCHANGED <<previous_timestamp, actuation_count, apc, mpc>>
      BY <1>7 DEF Request
  <2>2. asked # <<>> /\ asked[Len(asked)].stamp = ts
    <3>1. <<ts, junk>> # NoStamp
        BY CountAssumption
    <3>2. asked # <<>>
        BY <1>2, <1>7, <3>1 DEF Remembered, Repeated
    <3> QED
        BY <1>2, <1>7, <3>2 DEF Remembered, Repeated
  <2>3. ~Fresh(asked', Len(asked) + 1)
      BY <1>3, <1>4, <2>2 DEF Fresh
  <2>4. Asked' = Asked /\ Pending' = 0
      BY <1>1, <1>5, <2>1, <2>3 DEF Pending
  <2>5. Remembered'
    <3>1. previous_timestamp' = <<asked'[Len(asked')].stamp, junk>>
        BY <1>3, <1>4, <1>7, <2>1 DEF Repeated
    <3>2. (apc' = "idle" /\ actuation_request_count' > 0) \/ mpc' = "killed"
        BY <1>1, <1>2, <2>1, <2>2 DEF Remembered
    <3>3. mpc' # "start"
        BY <1>2, <2>1, <2>2 DEF Remembered
    <3> QED
        BY <1>1, <1>4, <2>1, <3>1, <3>2, <3>3 DEF Remembered
  <2>6. Complete'
      BY <1>1, <1>2, <1>6, <2>1, <2>4 DEF Complete, Expected
  <2> QED
      BY <1>1, <1>2, <2>5, <2>6
<1>8. CASE ~Repeated(ts, junk)
  <2>1. /\ previous_timestamp' = <<ts, junk>> /\ actuation_count' = n
        /\ IF mpc = "start" THEN mpc' = "killed" /\ UNCHANGED apc
           ELSE apc' = "read" /\ UNCHANGED mpc
      BY <1>8 DEF Request
  <2>2. asked # <<>> => asked[Len(asked)].stamp # ts
    <3>1. SUFFICES ASSUME asked # <<>>, asked[Len(asked)].stamp = ts PROVE FALSE
        OBVIOUS
    <3>2. PICK other \in Junk : previous_timestamp = <<asked[Len(asked)].stamp, other>>
        BY <1>2, <3>1 DEF Remembered
    <3>3. other = junk
        BY DEF OneJunk
    <3> QED
        BY <1>8, <3>1, <3>2, <3>3 DEF Repeated
  <2>3. Fresh(asked', Len(asked) + 1) <=> Len(asked) > 0 /\ n > -450
    <3>1. CASE Len(asked) > 0
      <4>1. /\ asked'[Len(asked) + 1] = r /\ (Len(asked) + 1) - 1 = Len(asked)
            /\ asked'[Len(asked)] = asked[Len(asked)] /\ Len(asked) + 1 > 1
          BY <1>4, <3>1
      <4>2. asked'[Len(asked) + 1].stamp # asked'[(Len(asked) + 1) - 1].stamp
          BY <1>3, <1>4, <2>2, <3>1, <4>1
      <4> QED
          BY <1>3, <3>1, <4>1, <4>2 DEF Fresh
    <3>2. CASE Len(asked) = 0
        BY <1>4, <3>2 DEF Fresh
    <3> QED
        BY <1>4, <3>1, <3>2
  <2>4. Remembered'
    <3>1. previous_timestamp' = <<asked'[Len(asked')].stamp, junk>>
        BY <1>3, <1>4, <2>1
    <3>2. mpc' # "start" /\ (mpc' # "killed" => apc' = "read" /\ mpc' = mpc)
        BY <2>1
    <3>3. apc' = "read" => (actuation_request_count' > 0 <=> Len(asked') > 1)
        BY <1>1, <1>2, <1>3, <1>4, <2>1 DEF Remembered
    <3> QED
        BY <1>1, <1>4, <3>1, <3>2, <3>3 DEF Remembered
  <2>5. mpc' # "killed" => Complete'
    <3>1. SUFFICES ASSUME mpc' # "killed" PROVE Complete'
        OBVIOUS
    <3>2. apc' = "read" /\ mpc' = mpc
        BY <2>1, <3>1
    <3>3. mpc \notin {"add", "copy"}
        BY <1>2, <3>2, ExpectedType DEF NoLoss, Watch
    <3>4. Len(asked) > 0 <=> actuation_request_count > 0
        BY <1>1, <1>2, <1>3, <1>4 DEF Remembered
    <3>5. Pending' = IF Len(asked) > 0 /\ n > -450 THEN n ELSE 0
        BY <1>1, <2>1, <3>2, <3>4 DEF Pending
    <3>6. Expected' - Pending' = Expected
        BY <1>1, <1>3, <1>5, <2>3, <3>5, ExpectedType, Constants DEF Expected
    <3> QED
        BY <1>1, <1>2, <1>6, <3>2, <3>3, <3>6, ExpectedType DEF Complete
  <2> QED
      BY <1>1, <1>2, <2>4, <2>5
<1> QED
    BY <1>7, <1>8

LEMMA LosslessHandler ==
    ASSUME TypeInv, TypeInv', LosslessInv, NoLoss', Watch,
           ActuateRead \/ ActuateWrite \/ ActuateReport \/ ActuateCopy
    PROVE  tpc' = "sleep" /\ Remembered' /\ (mpc' # "killed" => Complete')
<1>1. /\ UNCHANGED <<asked, mpc, mreg, entered, left, tpc, midnights, actuation_count>>
      /\ apc # "idle"
    BY DEF ActuateRead, ActuateWrite, ActuateReport, ActuateCopy, mvars, tvars, crossings
<1>2. reconnects = 0 /\ previous_timestamp' = previous_timestamp
    BY <1>1, ExpectedType DEF ActuateRead, ActuateWrite, ActuateReport, ActuateCopy, Report, worker, NoLoss
<1>3. NoLoss /\ tpc = "sleep" /\ Remembered /\ (mpc # "killed" => Complete)
  <2>1. overlap = FALSE
      BY ExpectedType DEF NoLoss, Watch
  <2> QED
      BY <1>1, <1>2, <2>1 DEF LosslessInv, NoLoss
<1>4. Asked' = Asked /\ Asked \in Int
    BY <1>1, AskedSame, ExpectedType
<1>5. asked # <<>> /\ actuation_request_count \in Nat
    BY <1>1, <1>3, ExpectedType DEF Remembered
<1>6. Remembered'
  <2>1. (apc' # "read" /\ actuation_request_count' > 0) \/ mpc = "killed"
      BY <1>1, <1>3, <1>5 DEF Remembered, ActuateRead, ActuateWrite, ActuateReport, ActuateCopy
  <2>2. apc' # "read"
      BY DEF ActuateRead, ActuateWrite, ActuateReport, ActuateCopy
  <2>3. mpc # "start"
      BY <1>3, <1>5 DEF Remembered
  <2> QED
      BY <1>1, <1>2, <1>3, <1>5, <2>1, <2>2, <2>3 DEF Remembered
<1> USE ExpectedType
<1>7. ASSUME mpc # "killed" PROVE Complete'
  <2>0. mpc \notin {"add", "copy"} /\ Complete
      BY <1>1, <1>3, <1>7 DEF Complete
  <2>1. CASE ActuateRead
    <3>1. Pending' = Pending
        BY <1>1, <1>5, <2>1 DEF ActuateRead, Pending, ignore_actuation_request_count
    <3> QED
        BY <1>1, <1>4, <2>0, <2>1, <3>1 DEF ActuateRead, counts, Complete, Expected
  <2>2. CASE ActuateWrite
    <3>1. Pending = actuation_count /\ Pending' = 0 /\ people_inside' = people_inside + actuation_count
        BY <2>0, <2>2 DEF ActuateWrite, Pending, Complete
    <3> QED
        BY <1>1, <1>4, <2>0, <2>2, <3>1 DEF ActuateWrite, Complete, Expected
  <2>3. CASE ActuateReport
    <3>1. Pending = 0 /\ Pending' = 0
        BY <2>3 DEF ActuateReport, Pending
    <3> QED
        BY <1>1, <1>4, <2>0, <2>3, <3>1 DEF ActuateReport, counts, Complete, Expected
  <2>4. CASE ActuateCopy
    <3>1. Pending = 0 /\ Pending' = 0
        BY <2>4 DEF ActuateCopy, Pending
    <3> QED
        BY <1>1, <1>4, <2>0, <2>4, <3>1 DEF ActuateCopy, Complete, Expected
  <2> QED
      BY <2>1, <2>2, <2>3, <2>4
<1> QED
    BY <1>1, <1>3, <1>6, <1>7

LEMMA LosslessStep ==
    ASSUME TypeInv, TypeInv', LosslessInv, [Next]_vars, OneJunk
    PROVE  LosslessInv'
<1>1. SUFFICES ASSUME NoLoss' PROVE tpc' = "sleep" /\ Remembered' /\ (mpc' # "killed" => Complete')
    BY DEF LosslessInv
<1>2. CASE UNCHANGED vars
  <2>1. /\ UNCHANGED <<people_inside, oc_people_inside, mpc, mreg, entered, left, tpc, midnights,
                       apc, areg, actuation_count, actuation_request_count, asked,
                       previous_timestamp, reconnects, overlap>>
      BY <1>2 DEF vars, counts, mvars, tvars, avars, worker, crossings
  <2>2. Asked' = Asked
      BY <2>1, AskedSame
  <2> QED
      BY <1>1, <2>1, <2>2 DEF LosslessInv, NoLoss, Remembered, Complete, Expected, Pending
<1>3. ASSUME Main, Watch PROVE tpc' = "sleep" /\ Remembered' /\ (mpc' # "killed" => Complete')
    BY <1>1, <1>3, LosslessMain
<1>4. ASSUME Timer, Watch PROVE FALSE
  <2>1. overlap = FALSE
      BY <1>1, <1>4, ExpectedType DEF NoLoss, Watch
  <2>2. CASE Midnight
      BY <1>1, <2>2, ExpectedType DEF Midnight, NoLoss
  <2>3. ASSUME tpc # "sleep", midnights' = midnights, reconnects = 0 PROVE FALSE
      BY <1>1, <2>1, <2>3 DEF LosslessInv, NoLoss
  <2>4. CASE Zero
      BY <1>1, <2>3, <2>4 DEF Zero, worker, NoLoss
  <2>5. CASE SendReset
      BY <1>1, <2>3, <2>5, ExpectedType DEF SendReset, Report, worker, NoLoss
  <2> QED
      BY <1>4, <2>2, <2>4, <2>5 DEF Timer
<1>5. ASSUME Actuation, Watch PROVE tpc' = "sleep" /\ Remembered' /\ (mpc' # "killed" => Complete')
    BY <1>1, <1>5, LosslessRequest, LosslessHandler DEF Actuation
<1> QED
    BY <1>2, <1>3, <1>4, <1>5 DEF Next

\* As long as the handler stays out of the steps between process_frame reading
\* its counter and main copying it, no interleaving of main and the handler
\* loses a crossing or a request, and a repeated request counts once
\* (HotSpotter.cpp:91-98, 159-173, XMPPWorker.cc:280-296).  The byte of the
\* timestamp that is never written is taken to be the same each time.
THEOREM OnlyOverlapLoses ==
    ASSUME OneJunk
    PROVE  Spec => []OnlyOverlapLosesUpdates
<1>1. TypeInv /\ LosslessInv => OnlyOverlapLosesUpdates
  <2>1. SUFFICES ASSUME TypeInv, LosslessInv, Rest, NoLoss
                 PROVE  people_inside = Expected /\ oc_people_inside = Expected
      BY DEF OnlyOverlapLosesUpdates, NoLoss
  <2>2. Pending = 0 /\ Expected \in Int
      BY <2>1, ExpectedType DEF Rest, Pending
  <2> QED
      BY <2>1, <2>2 DEF LosslessInv, Complete, Rest
<1>2. TypeInv /\ LosslessInv /\ [Next]_vars => TypeInv' /\ LosslessInv'
    BY TypeStep, LosslessStep
<1> QED
    BY TypeInit, LosslessInit, <1>1, <1>2, PTL DEF Spec
=============================================================================
