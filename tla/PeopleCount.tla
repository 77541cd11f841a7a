----------------------------- MODULE PeopleCount -----------------------------
(***************************************************************************)
(* The occupancy count and the three threads that change it.  The program  *)
(* keeps it twice: the global people_inside of src/src/HotSpotter.cpp, and *)
(* OccupancyCounter_.people_inside, which process_frame changes.  There is *)
(* no lock.                                                                *)
(*                                                                         *)
(* Main thread (init_processing_frame, HotSpotter.cpp:71-102), mpc:        *)
(*     start, setup   the first report, the counters set                   *)
(*     killed         SIGUSR1 came before its handler was installed        *)
(*     frame, add     process_frame reads and writes its counter           *)
(*     copy           people_inside = OccupancyCounter_.people_inside      *)
(*     test, send     report when it differs from person_count_last        *)
(*     last           person_count_last = people_inside                    *)
(* Timer thread (XMPPWrapper.cpp:55-72), tpc: sleep, zero, report          *)
(* Actuation, the SIGUSR1 handler that parse_stanza raises on the worker   *)
(* thread (XMPPWorker.cc:235-312, HotSpotter.cpp:167-173), apc:            *)
(*     idle, read, write, report, copy                                     *)
(*                                                                         *)
(* XMPP reporting is enabled.  What a report does is XMPPInterface.tla;    *)
(* here it is one step, which replaces the XMPPWorker when its connection  *)
(* is dead: the timestamp of the last request is kept in the worker.       *)
(***************************************************************************)
EXTENDS Integers, Sequences, SequencesExt, FiniteSetsExt

CONSTANTS
    PeopleAtStart,      \* the count given with -p
    Changes,            \* what process_frame may add to its counter
    Offsets,            \* what an actuation request may ask to add
    Stamps,             \* the timestamps of actuation requests
    Junk,               \* the byte timestamp[19], never written (280-291)
    NoStamp,            \* previous_timestamp before the first request
    MaxFrames,          \* bound: frames processed
    MaxRequests,        \* bound: actuation requests; 0 without actuation
    MaxMidnights,       \* bound: midnights; 0 without the timer
    MaxReconnects       \* bound: replacements of the XMPPWorker

ASSUME CountAssumption ==
    /\ PeopleAtStart \in Int /\ Changes \subseteq Int /\ Offsets \subseteq Int
    /\ NoStamp \notin Stamps \X Junk
    /\ {MaxFrames, MaxRequests, MaxMidnights, MaxReconnects} \subseteq Nat

\* ignore_actuation_request_count, XMPPWrapper.cpp:79
ignore_actuation_request_count == 1

VARIABLES
    people_inside,      \* HotSpotter.cpp:33
    oc_people_inside,   \* OccupancyCounter_.people_inside
    person_count_last,
    reported,           \* the sum of the changes reported with occupancyChange
    mpc, mreg,          \* main thread, and the count process_frame has read
    tpc, offset,        \* timer thread, and its variable offset
    apc, areg,          \* actuation, and the count it has read
    previous_timestamp, actuation_count, actuation_request_count,
    frames, requests, midnights, reconnects,    \* bounded counters
    entered, left,      \* history: what process_frame counted
    actuated,           \* history: what accepted requests added
    asked,              \* history: the requests delivered, and those acted upon
    overlap             \* history: the handler ran while main was counting

counts == <<people_inside, oc_people_inside>>
crossings == <<entered, left>>
mvars == <<mpc, mreg, person_count_last, frames, crossings>>
tvars == <<tpc, offset, midnights>>
avars == <<apc, areg, actuation_count, actuation_request_count, requests, actuated, asked>>
worker == <<previous_timestamp, reconnects>>
vars == <<counts, reported, mvars, tvars, avars, worker, overlap>>

Init ==
    /\ people_inside = PeopleAtStart
    /\ oc_people_inside = 0
    /\ person_count_last = 0
    /\ reported = 0
    /\ mpc = "start" /\ mreg = 0
    /\ tpc = "sleep" /\ offset = 0
    /\ apc = "idle" /\ areg = 0
    /\ previous_timestamp = NoStamp
    /\ actuation_count = 0 /\ actuation_request_count = 0
    /\ frames = 0 /\ requests = 0 /\ midnights = 0 /\ reconnects = 0
    /\ entered = 0 /\ left = 0 /\ actuated = 0 /\ asked = <<>>
    /\ overlap = FALSE

\* occupancyChange.  It may find the connection dead and make a new worker,
\* which has seen no request (XMPPWorker.cc:69); a worker whose thread runs the
\* handler is alive.
Report(change) ==
    /\ reported' = reported + change
    /\ \/ UNCHANGED worker
       \/ /\ apc = "idle" /\ reconnects < MaxReconnects
          /\ reconnects' = reconnects + 1
          /\ previous_timestamp' = NoStamp

\* The history variable overlap after a step.
Watch == overlap' = (overlap \/ (mpc' \in {"add", "copy"} /\ apc' # "idle"))
-----------------------------------------------------------------------------
(* The main thread.                                                        *)

\* main reports the initial count and installs the handler of SIGUSR1 (249-254).
FirstReport ==
    /\ mpc = "start"
    /\ Report(people_inside - person_count_last)
    /\ mpc' = "setup"
    /\ UNCHANGED <<counts, mreg, person_count_last, frames, crossings, tvars, avars>>

\* read_from_file (158-159), or main in live mode (268-269).
Setup ==
    /\ mpc = "setup"
    /\ oc_people_inside' = people_inside
    /\ person_count_last' = 0
    /\ mpc' = "frame"
    /\ UNCHANGED <<people_inside, reported, mreg, frames, crossings, tvars, avars, worker>>

\* process_frame: people_inside++ reads the counter ...
Frame ==
    /\ mpc = "frame"
    /\ frames < MaxFrames
    /\ frames' = frames + 1
    /\ mreg' = oc_people_inside
    /\ mpc' = "add"
    /\ UNCHANGED <<counts, reported, person_count_last, crossings, tvars, avars, worker>>

\* ... and writes it, unless the frame changes nothing.
Count ==
    /\ mpc = "add"
    /\ \E d \in Changes :
          /\ oc_people_inside' = IF d = 0 THEN oc_people_inside ELSE mreg + d
          /\ entered' = entered + Max({d, 0})
          /\ left' = left + Max({-d, 0})
    /\ mpc' = "copy"
    /\ UNCHANGED <<people_inside, reported, mreg, person_count_last, frames, tvars, avars, worker>>

\* people_inside = OccupancyCounter_.people_inside
Copy ==
    /\ mpc = "copy"
    /\ people_inside' = oc_people_inside
    /\ mpc' = "test"
    /\ UNCHANGED <<oc_people_inside, reported, mreg, person_count_last, frames, crossings, tvars, avars, worker>>

\* if (people_inside != person_count_last)
Test ==
    /\ mpc = "test"
    /\ mpc' = IF people_inside # person_count_last THEN "send" ELSE "last"
    /\ UNCHANGED <<counts, reported, mreg, person_count_last, frames, crossings, tvars, avars, worker>>

\* XMPPWrapper_.occupancyChange(people_inside, people_inside - person_count_last)
SendChange ==
    /\ mpc = "send"
    /\ Report(people_inside - person_count_last)
    /\ mpc' = "last"
    /\ UNCHANGED <<counts, mreg, person_count_last, frames, crossings, tvars, avars>>

\* Mutant of Remember: person_count_last is never updated.
M_RememberNever ==
    /\ mpc = "last"
    /\ mpc' = "frame"
    /\ UNCHANGED <<counts, reported, mreg, person_count_last, frames, crossings, tvars, avars, worker>>

\* person_count_last = people_inside
Remember ==
    /\ mpc = "last"
    /\ person_count_last' = people_inside
    /\ mpc' = "frame"
    /\ UNCHANGED <<counts, reported, mreg, frames, crossings, tvars, avars, worker>>

Main == FirstReport \/ Setup \/ Frame \/ Count \/ Copy \/ Test \/ SendChange \/ Remember
-----------------------------------------------------------------------------
(* The timer thread.                                                       *)

\* Midnight: int offset = -people_inside
Midnight ==
    /\ tpc = "sleep" /\ mpc # "killed"
    /\ midnights < MaxMidnights
    /\ midnights' = midnights + 1
    /\ offset' = -people_inside
    /\ tpc' = "zero"
    /\ UNCHANGED <<counts, reported, mvars, avars, worker>>

\* people_inside = 0
Zero ==
    /\ tpc = "zero" /\ mpc # "killed"
    /\ people_inside' = 0
    /\ tpc' = "report"
    /\ UNCHANGED <<oc_people_inside, reported, mvars, offset, midnights, avars, worker>>

\* report_updated_people_count(-200, people_inside, offset)
SendReset ==
    /\ tpc = "report" /\ mpc # "killed"
    /\ Report(offset)
    /\ tpc' = "sleep"
    /\ UNCHANGED <<counts, mvars, offset, midnights, avars>>

Timer == Midnight \/ Zero \/ SendReset
-----------------------------------------------------------------------------
(* Actuation.                                                              *)

\* Mutant of Repeated: every request is taken for a new one.
M_Repeated(ts, junk) == FALSE

\* The request is taken for the previous one.
Repeated(ts, junk) == <<ts, junk>> = previous_timestamp

\* parse_stanza: a repeated request is ignored, for any other one SIGUSR1 is
\* raised; the worker runs before main has installed the handler.
Request(n, ts, junk) ==
    /\ apc = "idle" /\ mpc # "killed"
    /\ requests < MaxRequests
    /\ requests' = requests + 1
    /\ asked' = Append(asked, [stamp |-> ts, count |-> n, acted |-> ~Repeated(ts, junk)])
    /\ IF Repeated(ts, junk)
       THEN UNCHANGED <<previous_timestamp, actuation_count, apc, mpc>>
       ELSE /\ previous_timestamp' = <<ts, junk>>
            /\ actuation_count' = n
            /\ IF mpc = "start" THEN mpc' = "killed" /\ UNCHANGED apc
               ELSE apc' = "read" /\ UNCHANGED mpc
    /\ UNCHANGED <<counts, reported, mreg, person_count_last, frames, crossings, tvars, areg,
                    actuation_request_count, actuated, reconnects>>

\* update_people_count: the first request is ignored, others read the count
\* they add to.
ActuateRead ==
    /\ apc = "read"
    /\ actuation_request_count' = actuation_request_count + 1
    /\ IF actuation_request_count' > ignore_actuation_request_count /\ actuation_count > -450
       THEN areg' = people_inside /\ apc' = "write"
       ELSE apc' = "copy" /\ UNCHANGED areg
    /\ UNCHANGED <<counts, reported, mvars, tvars, worker, actuation_count, requests, actuated, asked>>

\* people_inside += new_count
ActuateWrite ==
    /\ apc = "write"
    /\ people_inside' = areg + actuation_count
    /\ actuated' = actuated + actuation_count
    /\ apc' = "report"
    /\ UNCHANGED <<oc_people_inside, reported, mvars, tvars, areg, worker,
                   actuation_count, actuation_request_count, requests, asked>>

\* report_updated_people_count(-300, people_inside, offset)
ActuateReport ==
    /\ apc = "report"
    /\ Report(actuation_count)
    /\ apc' = "copy"
    /\ UNCHANGED <<counts, mvars, tvars, areg, actuation_count,
                   actuation_request_count, requests, actuated, asked>>

\* Mutant of ActuateCopy: the change is applied to the counter of
\* OccupancyCounter_ once more.
M_ActuateCopyTwice ==
    /\ apc = "copy"
    /\ oc_people_inside' = people_inside + actuation_count
    /\ apc' = "idle"
    /\ UNCHANGED <<people_inside, reported, mvars, tvars, areg, worker,
                   actuation_count, actuation_request_count, requests, actuated, asked>>

\* OccupancyCounter_.people_inside = people_inside, also after an ignored request.
ActuateCopy ==
    /\ apc = "copy"
    /\ oc_people_inside' = people_inside
    /\ apc' = "idle"
    /\ UNCHANGED <<people_inside, reported, mvars, tvars, areg, worker,
                   actuation_count, actuation_request_count, requests, actuated, asked>>

Actuation ==
    \/ \E n \in Offsets, ts \in Stamps, junk \in Junk : Request(n, ts, junk)
    \/ ActuateRead \/ ActuateWrite \/ ActuateReport \/ ActuateCopy

Next == (Main \/ Timer \/ Actuation) /\ Watch

Spec == Init /\ [][Next]_vars
-----------------------------------------------------------------------------
TypeOK ==
    /\ {people_inside, oc_people_inside, person_count_last, mreg, offset, areg,
        actuation_count, actuated, reported} \subseteq Int
    /\ {entered, left} \subseteq Nat
    /\ mpc \in {"start", "setup", "frame", "add", "copy", "test", "send", "last", "killed"}
    /\ tpc \in {"sleep", "zero", "report"}
    /\ apc \in {"idle", "read", "write", "report", "copy"}
    /\ previous_timestamp \in (Stamps \X Junk) \cup {NoStamp}
    /\ actuation_request_count \in 0..MaxRequests
    /\ frames \in 0..MaxFrames /\ requests \in 0..MaxRequests /\ midnights \in 0..MaxMidnights
    /\ reconnects \in 0..MaxReconnects
    /\ asked \in Seq([stamp : Stamps, count : Offsets, acted : BOOLEAN])
    /\ overlap \in BOOLEAN

\* Nothing is going on: main is between two frames, no handler runs.
Rest == mpc = "frame" /\ apc = "idle" /\ tpc = "sleep"

\* Only the main thread has changed the count so far.
MainAlone == requests = 0 /\ midnights = 0

\* The changes reported add up to the count, so that a receiver that adds
\* occChange up and one that reads personCount agree (95, 250), while
\* neither actuation nor the timer has run.
OffsetsAddUp == Rest /\ MainAlone => reported = people_inside

\* Whatever the interleaving of the three threads, an update may be lost but
\* none is applied twice: the count never exceeds what entered and was asked
\* for, nor falls below what left (92, 159-171, XMPPWrapper.cpp:50); requests
\* here only add.
NobodyIsCountedTwice ==
    {people_inside, oc_people_inside} \subseteq -left..PeopleAtStart + entered + actuated

\* What the requests ask for: one that is delivered again counts once, the
\* first one is the last request before the program started (XMPPWrapper.cpp:79),
\* and a count of -450 or less is no request.
Asked ==
    LET New(i) == i > 1 /\ asked[i].stamp # asked[i - 1].stamp /\ asked[i].count > -450
    IN  FoldLeft(LAMBDA sum, i : IF New(i) THEN sum + asked[i].count ELSE sum,
                 0, [i \in DOMAIN asked |-> i])

\* The count when no update is lost.
Expected == PeopleAtStart + entered - left + Asked

\* Every crossing and every request is in both counters, those delivered more
\* than once just once.  Updates are lost only when the handler runs between
\* process_frame reading its counter and main copying it (91-92, 167-173); a
\* repetition is recognised until the worker is replaced (XMPPWorker.cc:296).
\* Before the first midnight.
OnlyOverlapLosesUpdates ==
    Rest /\ ~overlap /\ reconnects = 0 /\ midnights = 0 =>
        people_inside = Expected /\ oc_people_inside = Expected

\* A request delivered twice in a row is acted upon once: "we have received
\* this message before" (XMPPWorker.cc:296).
RepeatedRequestIsIgnored ==
    \A i \in 2..Len(asked) : asked[i].stamp = asked[i - 1].stamp => ~asked[i].acted

\* "it will update the count" (XMPPWorker.cc:307): a request that was accepted
\* is in the count, and so is every crossing.
RequestsUpdateTheCount ==
    Rest /\ midnights = 0 => people_inside = Expected

\* No signal ends the program.
NeverKilled == mpc # "killed"

\* "at midnight, reset count" (XMPPWrapper.cpp:61): when nobody crosses, the
\* count stays 0 after a midnight.
MidnightResets == Rest /\ midnights > 0 => people_inside = 0
=============================================================================
