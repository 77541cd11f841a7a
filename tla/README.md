# OCIR / HotSpotter: specifications, model checking, proofs

HotSpotter counts the people in a room. An infrared sensor of 8x8 pixels (a
Grid-EYE, or a Melexis MLX90620 with 16x4) looks at a doorway; the program finds
the bodies in every frame, follows them from frame to frame, counts those who
cross, and reports the count to an XMPP node. This directory holds TLA+ modules
for the program's logic, TLC configurations that check them on small instances,
and proofs for the parts where every instance matters.

Line numbers below are of `src/src/OccupancyCounter.cpp` unless another file is
named.

## The system

| component | source | state | operations | hard part |
|---|---|---|---|---|
| Frame buffer | `src/src/buffer.cpp` | a deque per sensor; one global `mu` and `cond` | `add`, `remove` | threads sleep and are woken; two buffers share the condition variable |
| Threads and program control | `src/src/HotSpotter.cpp`, `GridEyeReader.cpp`, `mlxd.cpp` | `exitRequested`, frame counters, the libftdi context, the disposition of SIGINT | `main`, reading a file, the reader thread, the processing loop, Ctrl-C | blocking calls on one thread; a signal at any moment |
| Grid-EYE reader | `src/src/GridEyeReader.cpp` | the bytes read, the frames decoded | find packet heads, decode | reads begin and end anywhere in a packet |
| MLX90620 reader | `src/src/mlxd.cpp` | trim, configuration and flag of the chip; the ambient temperature | `init`, `readFrameLive`, an I2C transfer each | transfers fail, and the chip may lose its supply between any two |
| Image processing | `OccupancyCounter.cpp` | the histogram of the empty doorway, the mask, the contours, the cut | histogram test, threshold, connected components, choice of bodies, side of the frame | a walk that remembers the pulse before; a loop that raises the cut until it fits |
| Occupancy tracker | `OccupancyCounter.cpp` | ring of past frames, tracked people, count | `process_frame`: correct a frame, match, decide directions, count, drop | long histories; two frame numberings; references into a growing vector |
| Occupancy count | `HotSpotter.cpp`, `XMPPWrapper.cpp`, `parse_stanza` | two counters, the last count reported | a frame, an actuation request, midnight | three threads and no lock; requests are delivered twice; the worker that remembers them is replaced |
| XMPP interface | `src/src/XMPPInterface.cpp` | the current worker | report, reconnect, set the node up | called by several threads, one of them the worker's own; connections are lost |
| XMPP worker | `src/libextendxmpp/XMPPWorker.cc` | flags, the queue, the connection | `start`, `stop`, `send`, the worker thread, connection events | a thread handshake; failing connections; restart |
| Transactions and queue | `Transaction.cc`, `TransactionQueue.cc` | the queue | push, pop, answer handlers | see the worker |

How they interact. A reader (a thread in live mode, `main` itself in file mode)
decodes frames and calls `add`. `init_processing_frame` runs on `main`: it calls
`remove`, then `process_frame` (image processing, then the tracker), copies the
tracker's count to the global `people_inside`, and reports a change through
`XMPPWrapper` and `XMPPInterface::occupancyChange`, which queues transactions in
the `XMPPWorker`; the worker's thread sends them and runs the handlers of the
answers. The midnight timer thread also sets `people_inside` and reports. An
actuation request arrives on the worker's thread, which raises SIGUSR1; its
handler changes both counters and reports, from the worker's thread.

What makes each component correct is stated by the properties in the section on
the runs; what is hard to test in each is listed in `PROJECT.json`, "hazards".

## The modules

    BoundedQueue     <- FrameBuffer <- FrameBufferProofs            buffer.cpp
                        FrameBuffer <- MCFrameBuffer
    Melexis          <- HotSpotter  <- HotSpotterProofs             main and readers
                        HotSpotter  <- MCHotSpotter
    GridEyePackets   <- GridEyePacketsProofs, MCGridEyePackets      serial data
    SomeoneThere     <- BodyExtraction <- BodyExtractionProofs      frame -> bodies
                        BodyExtraction <- MCBodyExtraction
    OccupancyCounter <- DoorwayWalk <- OccupancyCounterProofs       people -> count
                        DoorwayWalk <- MCDoorwayWalk
    OccupancyCounter <- MCOccupancyCounter                          bodies -> count
    PeopleCount      <- PeopleCountProofs, MCPeopleCount            the two counters
    Outbox           <- XMPPWorker <- XMPPWorkerProofs              the worker
    XMPPInterface    <- XMPPInterfaceProofs                         reconnecting

`A <- B` reads "B extends, composes, or is shown to implement, A". The border between two
modules is always a narrow interface of the code: `HotSpotter` uses the buffer as
the atomic queue that `FrameBuffer` is shown to implement; `OccupancyCounter`
gets from `BodyExtraction` the side of a frame and the `cx` of at most two bodies;
`PeopleCount` sees of `process_frame` how it changes the count, and of a report
one step; `XMPPInterface` sees of a worker the `Outbox` that `XMPPWorker` implements.

**FrameBuffer** has a step for every point at which another thread may run: taking
`mu`, evaluating the predicate of `cond.wait` (`Proceed`, or `Sleep`, which releases
the mutex and sleeps in one step as the condition variable guarantees), changing
the deque, `unlock`, `notify_all`. A spurious wakeup is a step too. `Buffer::size`
is never called. `BoundedQueue` is what the caller may rely on: a call is pending,
takes effect in one step, and returns.

**HotSpotter** is `main`, the processing loop, the live reader thread and Ctrl-C.
`LIVE` and `SENSOR` are macros of `params.h`; here they are chosen in the initial state and never
change. In file mode `main` first reads the whole file, then processes, all on one
thread; a line is blank or a row, whole or damaged, and a damaged row is passed over. In live
mode the reader thread adds batches. With a Grid-EYE, `sigintHandler` is installed
first and the default disposition restored once the reader thread runs; the handler
destroys the reader, so that the model has the life of the libftdi context (null,
new, open, freed). With an MLX90620, `init` installs `got_sigint`, which exits. Returning
from `main` in live mode destroys a thread object that was never joined: `std::terminate`.

**Melexis** is the MLX90620 and its driver, one action per I2C transfer, each of which may
fail; `HotSpotter` instantiates it, calls `Begin` from `main` and `Poll` from the
reader thread, and adds the brown-outs. A brown-out forgets trim and configuration.
The driver sees it by bit 2 of the configuration, which a write of the
configuration sets: so the flag is set again, and the loss `masked`, when the chip browns
out just before `mlx90620_init` writes the configuration, or between the read and the
write of `mlx90620_set_refresh_hz`. A failed read of the flag leaves its bytes
uninitialized and the flag may be seen set or not (`misreads`). `unfit` counts frames read
from a chip without trim or configuration; it and the other three are history.

**GridEyePackets** scales a packet (head, 2 thermistor bytes, data) from 64 to 3
temperatures and the buffer of 1024 bytes to 28; the guard that accepts a packet
although two of its bytes may be missing (131 of 133, line 135) is scaled with it.
Bytes after those read hold what the previous read left, those after the buffer are arbitrary.

**SomeoneThere** is `check_by_histogram`: the walk over the bins (`Walk`) with the pulses it
finds, what a frame of the empty doorway teaches (`Learnt`), and the test (`hist_passed`).
**BodyExtraction** is `process_frame` up to the point where the bodies are stored.
The first frames go to `Learn`, a later one to `Look`, which asks `hist_passed`.
`extract_body` runs one step per pixel visited, contour found and cut tried; then
`find_body_center`, `filter_by_body_temperature` and `assign_side_to_bodies` (with
`find_frame_side`) are a step each. The two lists of turning points of the column
histogram are sets of columns (`Turns`), and `status` is the direction of the last change
(`Trend`). Reading the first element of an empty vector is a step to `crashed`.
Frames have five columns and two rows; `MIN_BODY_AREA` and `MAX_BODY_AREA` are the code's
percentages. `SENSOR` is 0. Columns are numbered from 1.

**OccupancyCounter** has one action, `ProcessFrame`, the whole of `process_frame`
after the background phase: store the frame in the ring (`FrameOf`), correct the
frame `MatchDelay` back (`Corrected`), match its bodies (`Matched`, with the cases of
`match_people` as operators from tracker to tracker), update directions, then count,
cut and drop (`ErasedBy`, `Tally`, `Kept`). The inputs are a scene (side of the frame
and the `cx` of each body) and `stale`: whether a reference into the vector
`people`, read after `create_new_person` pushed onto it, saw the old memory (lines
824 and following). It is undefined behaviour, so either may be read if the vector was moved.
`capacity` is there to know when it was. `wentLR`, `wentRL` and `start` are history.

**DoorwayWalk** puts people before the sensor: one visitor after another walks over
positions of the doorway (the near side, perhaps the middle, where the side is unknown,
the far side), may stand still or turn back. A glitch is a frame inside a visit that shows
nobody, or two bodies. `truth` is the number of people really inside. `DelaysFit` says how
the delays of the tracker and the pace of the visitors go together; the values of `params.h` do.

**PeopleCount** splits every unlocked access to the two counters into a read and a
write step, for `main`, the timer thread and the SIGUSR1 handler. `Request` is the part of
`parse_stanza` that recognises a repeated request by its timestamp, whose last byte is
never written (`Junk`); a report may replace the worker and with it the last timestamp.
`entered`, `left`, `actuated`, `asked` and `overlap` are history.

**XMPPWorker** has the calling thread (`upc`) inside `start`, `stop`, `send` and
the drain loop of `~XMPPInterface`, and the worker thread (`wpc`) with the events of
libstrophe. `Outbox` is the promise: transactions leave in the order they were
queued, each at most once, only while a connection is up, and survive a restart.

**XMPPInterface** has `occupancyChange` step by step per caller, up to
`MaxWorkers` worker objects, and an external server that answers. The caller `Actuation`
runs on the thread of a worker (`actuating`), which does nothing else meanwhile; `stop`
called from another thread waits for it. `together` records the calls that overlapped. The
worker's fields outside the reconnect protocol are not repeated.

The `M_...` operators beside some definitions are plausible faults, one for each
property that a run checks: with the definition replaced by the fault, the property
fails. No specification uses them.

## What is checked

All sizes are distinct states. Deadlock is checked for the buffer; the other
configurations say `CHECK_DEADLOCK FALSE` because the system stops there: the program
ends (`END_FRAME`, Ctrl-C), or the bounded number of frames, calls, visits or starts
is used up.

### Runs that hold

The module of each component has its `TypeOK`, which says too little to be checked every time. It is a theorem
(`TypeCorrect`) of the buffer, the tracker, the counters, the worker, the interface, the serial decoder and, sensor and driver
included, of `HotSpotter`. That of `BodyExtraction` holds in the configuration of its run; all that `connectedC` changes is typed in
a proved invariant (`TypeInv`), but not the bodies left by `filter_by_body_temperature`: it is written with `SelectSeq`,
of which the provers know nothing.

**framebuffer** (62 567). Two readers and the processor of a buffer of
capacity 2; the processor of a second buffer sleeps on the same condition variable;
two spurious wakeups. `MoveIsSafe`: what the predicate said still holds when
the deque is changed. `NoLostWakeup`: a thread asleep on a buffer that is ready is
owed a `notify_all`; with `notify_one` it could go to the processor of the silent buffer.
`ImplementsQueue`: refinement of `BoundedQueue`. `CallsReturn`: nobody
is blocked for ever in `add` or `remove`. Capacity 2 is the least at which the order of frames shows, and
three threads on one buffer the least at which two compete for one place. For two
readers `CallsReturn` says only that one of them gets through, as a mutex need not be fair.

**tracker** (240 953). Every sequence of six frames over eight scenes: nobody, one
body on either side or undecided, two bodies in either order of size and on the same side.
`CountIsNetOfCrossings`, `NobodyCountedBothWays`: a person counts once, although
`check_trajectory` runs again when a trajectory is cut. `AtMostTwoUncounted`: never
three people with an open direction, for whom the matcher has no case (698-699).
`DirectedTrackIsCounted`: whoever is
dropped with a direction was counted in it. `UncountedDropsAreStale`: nobody is
dropped before the delay with an open direction. `NewcomersCancelOut`: two people created
from an empty scene are matched with their own bodies once more, and may turn round at
once; they do so in opposite directions. `BodyIsGivenOnce`: a body gives at most one
person an entry, a glitch none. The ring has 5
frames (`HISTORY_LENGTH`, 10000 in the code), bodies are matched 2 frames late (the literal 5),
people dropped after 1 more (`DETECTION_DELAY`, 3), `WINDOW_SIZE` is 1 (10) and `LookBack` 1 (11);
trajectories are cut at 3 entries (`TRAJECTORY_LENGTH`, 100000) so that cutting happens
within six frames. The order between the constants is that of the code and
`TrackerAssumption` states what is needed of it. With trajectories cut, more than two
people may be tracked at once, all but two of them counted already; with the code's
100000 entries this takes somebody who stays in the doorway for hours.

**doorway** (256 035). Two visitors and one glitch within fourteen frames, the fewest after which the second
visit can be over and settled, as the first three teach the background. `CountFollowsTruth`: when the
doorway has been empty for `MatchDelay + DETECTION_DELAY` frames the count is the number of people
inside and nobody is tracked. It holds under `DelaysFit`: visitors are separated by `DETECTION_DELAY`
empty frames, and the delay is at least 2: with a delay of 1 a single missing frame
drops a visitor half way, so `DETECTION_DELAY` has to exceed the longest gap.

**worker** (18 554). Three transactions, two starts and stops, failing thread
creation, failing and breaking connections, a spurious wakeup. `StoppedIsQuiet`: after
`stop` nothing runs and nothing is connected. `DrainedIsSent`: what `~XMPPInterface`
saw drained is sent, the transaction just dequeued included. `ImplementsOutbox`. `CallsReturn`:
the handshakes of `start`, `stop` and the destructor end. `QueuedIsSentOrWorkerExits`: nothing
stays queued while the worker lasts.

**interface** (21 259). The main thread and actuation, two reports, two lost connections.
`NoDanglingWorker`: no worker is used after it was deleted, neither by a caller nor by a
handler. `CountsArriveInOrder`: the server sees no older count after a newer one unless the two
calls overlapped. `SetupInOrder`: meta data only for a node this program created, the invitation
after it. `ReportArrives`: a count reaches the node or its worker is gone. Three workers
are the least that shows a second reconnect, two reports the least that can be swapped.

**count** (2 201 925). Two frames (each -1, 0 or +1), three requests with two timestamps, one
midnight, one replaced worker, all interleavings. `NobodyIsCountedTwice`: updates may be lost,
never applied twice. `OnlyOverlapLosesUpdates`: and before the first midnight lost only when the handler
runs between `process_frame` reading its counter and `main` copying it; a request delivered twice
counts once until the worker is replaced. `OffsetsAddUp`: while `main` is alone the changes reported
add up to the count. The first request is ignored by the code
(`ignore_actuation_request_count`), so that three are needed for one to act and be repeated.

**program** (60 998). File mode, and live mode with either sensor; two Ctrl-C at any moment.
`FramesAreThoseOfTheFile`, `FileModeEnds`: files of 2 and 3 frames of two rows with blank lines at every
kind of place, with half a frame at the end, and with every one or two rows damaged; the
buffer holds 3. A damaged row costs itself only, but shifts all rows behind it. `NoFrameIsLost`,
`ReadIsProcessed`: live, with batches of up to 4 frames. `OnlyHastyInterruptMisuses`: the
libftdi context is used after it was freed only if Ctrl-C came during set-up. With the
MLX90620, two brown-outs and one misread flag among any failing transfers: `UnfitFramesAreFew`,
each costs one frame at most; `BrownOutIsRepaired`, the chip gets trim and configuration
back, both unless the loss was masked. Two brown-outs are the least of which one can hit the
repair of the other.

**packets** (500 796). Three packets cut into reads at every byte. `HeldPacketsAreDecoded`:
a packet that lies whole in a read is decoded, in its place, unless the read begins behind the first
star of a packet whose thermistor byte makes it three stars again.
`FramesAreSent`: a frame decoded is one the sensor sent, up to the last temperature of a cut packet.
`OverrunNeedsLongRead`: memory after the buffer is touched only by reads that fill it.

**bodies** (431 950). Two frames of the empty doorway, then one of 16 927 frames: every sequence of
five columns out of seven patterns of heat, and five columns of different heat, over a
background that is warmer at one end. `SearchedIfSomeoneStandsOut`: the histogram test finds
somebody exactly when two pixels make a warmer mode of their own, or temperatures spread:
the walk with its pulses is compared with a definition of modes that has no memory. Five columns leave room for three bodies
and for two peaks. `ContoursAreComponents`: the
breadth-first search finds the 8-connected components. `BodiesAreTheBiggest`,
`LowestCutIsUsed`: the loop that raises the cut takes the first that fits. A single body
that is too big may vanish when the cut is raised; then nobody is found. `CentreIsAtThePeak`: under a
single peak of heat a lone body is placed in the warmest column or right behind it,
plateaus and monotone histograms included. `SidesAreSymmetric`: the mirrored frame has the other side.

### Runs that show a disagreement

| run | property | what it shows |
|---|---|---|
| worker_assert | `StartFindsWorkerRunning` | `start` waits once, without a loop around the condition: a worker that fails to connect at once has ended when `start` gets the lock back, and `assert(isWorkerRunning)` (`XMPPWorker.cc:198`) fails |
| interface_midnight | `NoDanglingWorker` | with the midnight timer as a second caller of `occupancyChange` one thread uses the worker the other deleted; `XMPPWorker.h:16-17` says these calls are not thread-safe |
| count_midnight | `MidnightResets` | the reset reaches `people_inside` only; the assignment to the tracker's counter stands after an endless loop, so that the next frame brings the old count back |

### Further configurations

These are not part of the regular runs. Each checks one property and TLC
finds it violated.

| configuration | property | what it shows |
|---|---|---|
| MCHotSpotter_damage | `DamageIsLocal` | after a damaged row every later frame mixes rows of two frames (`GridEyeReader.cpp:160`) |
| MCHotSpotter_calibrated | `CalibratedBeforeReading` | a failed read gives an ambient temperature far too low, which passes the check for one too high (`mlxd.cpp:64-70`) |
| MCHotSpotter_masked | `FlagIsTrue` | a brown-out while the flag is written back is never repaired (`mlxd.cpp:400`) |
| MCBodyExtraction_hot | `SearchedIfSomeoneStandsOut` | a body too warm for the histogram falls out of its range and is not seen |
| MCOccupancyCounter_newcomer | `NewcomersAreMatchedLater` | two people created from an empty scene are matched with the same frame's bodies, because case 4 falls through (702) |
| MCOccupancyCounter_first | `DirectionStartsAtFirstSide` | trajectories mix the numbers of two frames, so that their first entry need not be the first side seen (632, 658) |
| MCOccupancyCounter_known | `KnownDirectionIsMatched` | of two people a lone body goes to the one without a direction, whatever its side (688) |
| MCPeopleCount_lost | `RequestsUpdateTheCount` | a request and a crossing in the same frame: one is lost (`HotSpotter.cpp:92`) |
| MCPeopleCount_initial | `OffsetsAddUp` | an initial count above 0 is reported twice as a change (`HotSpotter.cpp:158, 250`) |
| MCPeopleCount_repeated | `RepeatedRequestIsIgnored` | `timestamp[19]` is never written, so that a repeated request may look new (`XMPPWorker.cc:284`) |
| MCPeopleCount_reconnect | `RepeatedRequestIsIgnored` | the timestamp of the last request goes with the worker: repeated after a reconnection it is added again (`XMPPWorker.cc:69`) |
| MCPeopleCount_early | `NeverKilled` | a request before `main` has installed the handler of SIGUSR1 ends the program (`HotSpotter.cpp:253`) |
| XMPPInterface_order | `CountsNeverGoBack` | actuation reports while `main` does: the older count may come last |
| XMPPInterface_setup | `CreatedNodeHasMeta` | a connection lost before the answer to `create` leaves the node without meta data |
| MCBodyExtraction_flat | `CentreIsDefined` | a lone body before columns of equal heat: `inc_decs[0]` of an empty vector is read (1290) |
| MCHotSpotter_short | `CtrlCExits` | file mode with too short a file, or none: the program hangs and Ctrl-C does not end it |
| MCHotSpotter_long | `FullBufferIsDrained` | file mode with more frames than the buffer holds: `add` blocks for ever |

### Fairness

Safety properties are checked without it. For liveness:

- `FrameBuffer`: weak fairness of each thread's steps, and a processor calls
  `remove` again (the loop of `init_processing_frame`). No reader is obliged to call `add`.
- `HotSpotter`: weak fairness of the two threads; Ctrl-C and frames from the sensor may never come.
  Strong fairness of four I2C transfers succeeding on the reader thread: `readFrameLive` repeats them until they do,
  and a bus that fails for ever leaves it nothing to promise.
- `XMPPWorker`: weak fairness of the worker thread and of a call in progress; strong
  fairness of a connection attempt being decided, because libstrophe gives up after its
  connect timeout (external). No call and no lost connection is obliged to happen.
- `XMPPInterface`: weak fairness of a call in progress, of a worker while its connection lasts, and of the server (external).

## What is proved

**FrameBufferProofs**, for any threads, buffers, frames and capacity, under
`BufferAssumption` (readers and processors are different threads, the capacity is not 0).
`IInv` is `TypeOK`, that a reader in `add` holds a frame (`ArgumentOK`), `MutualExclusion`,
`MoveIsSafe` and `WithinCapacity`. None of the last three is inductive alone: that a deque does not
change between `Proceed` and the update needs mutual exclusion, and
`WithinCapacity` needs `MoveIsSafe`. From `IInv`: `TypeCorrect`, `DequesAreGuarded`,
`DequesAreBounded`. `WakeupsAreNotLost` proves `NoLostWakeup` inductive relative to
`IInv`: the step that makes a sleeper ready leaves its thread before its
`notify_all`. `Refinement` maps every step to a step of `BoundedQueue` or to a stutter.

**OccupancyCounterProofs**, for any scenes, ring, delays and trajectory length under
`TrackerAssumption`, proves every property of the run tracker. `IInv` is `TypeOK`, `CountedIsMarked`, `MarkedIsCounted`,
`NobodyCountedBothWays` and `CountIsNetOfCrossings`. `CountedIsMarked` is the strengthening:
whoever was counted and is still tracked carries the mark of the direction, without which
`check_trajectory` would count again at the next cut; `MarkedIsCounted` is the converse, by which
whoever is dropped with a mark was counted. Lemmas follow the
code: a helper keeps the tracker well formed and leaves directions, once known, and marks alone (`Grows`); lemmas
on the case functions of `match_people` compose to one on `Matched`, and the count is an equation of
cardinalities of disjoint sets. Results: `TypeCorrect`, `EachPersonCountsOnce`,
`NobodyCountsBothWays`, and the action properties `DroppedAreCounted` and `OnlyStaleAreDropped`.
Three more rest on `IInv`:

- `AtMostTwo`. More people than two may be tracked, so
  the bound is on those whose direction is open. The matcher adds people only beside at most
  one who is open, or when nobody it knows is (`Open`, `Few`); then `update_people_status`
  counts everybody else, or keeps somebody only when at most two remain (`KeptFew`).
- `EachBodyIsGivenOnce`. `Touched` is who gained an entry between two states of the tracker. Every
  helper of the matcher touches only those it names, and the touched of a sequence of helpers
  add up, so that each case of `match_people` touches one person per body at most.
- `PhantomsCancelOut`. Who is new is `Fresh`, with one entry and no direction, unless two people were made
  from two bodies and then matched with them (`Mirrored`): straight, which turns
  nobody, or crosswise, which turns both, one each way (`Cancels`). It needs an invariant of the ring:
  two bodies in a frame are each on one side (`SidedRing`).

The module goes on to `DoorwayWalk`. `WalkIsTracker`: a walk is a behaviour of the tracker, so that all of the
above holds of it. `CountIsTrue` is `CountFollowsTruth` for any number of visitors and glitches and any
delays that satisfy `DelaysFit` (assumed as `WalkFits`, which TLC evaluates in the run doorway). The tracker works
`MatchDelay` frames behind the doorway, so the invariant `WInv` speaks of the past: it says that there is a function
`h` from frame numbers to what went on in the doorway (`IsPast`, the actions of the doorway as a
relation of neighbours), that the ring shows what `h` says (`RingShows`), and what the tracker knows of frame k, the last
one matched (`Knows`). That has two parts. `Seen`: which frames `correct_frame` leaves valid, and that the number of bodies in the nearest
valid frame goes from 0 to 1 once in a visit and back after it, so that a glitch is looked past wherever
it falls; only a first sighting followed by a glitch is missed. `Followed`: nobody is tracked and the count is true; or one person
is, who was first seen on the visitor's side, is late by as many frames as were missed, and has a direction just when the far side was
seen, with the crossing counted or still to be counted. `SeenNext` and `FollowedNext` are the steps; they use what `Matched` does with one
body and one person (`MatchedAlone`) and what dropping does (`StatusAlone`). That a frame of the past is still in the ring is
arithmetic of remainders (`SameRemainder`, `SlotsDiffer`).

**PeopleCountProofs**, for any frames, requests, midnights and replaced workers: `TypeCorrect` and three
more. `NoUpdateTwice` needs
that requests add and the start count is not negative (`PeopleAtStart \in Nat`, `Offsets
\subseteq Nat`). Its invariant `BoundedInv` bounds, beside the two counters, the values a thread has
read and not written back: a stale value was within the bounds when it was read, and
the bounds only widen. `ReportsAddUp` needs `PeopleAtStart = 0` (MCPeopleCount_initial shows why);
`ReportedInv` says what has been reported at every step of the loop. `OnlyOverlapLoses` compares the counters
with `Asked`, a fold over the requests so far: the equation of the fold is proved by an induction over the naturals
instantiated for it (`NatInduct`), from it what one more request adds (`AskedMore`). `LosslessInv` then says which counter is
`Complete` at every step of `main` and of the handler, and what the handler has yet to add
(`Pending`). It needs `OneJunk`: the byte of the timestamp that is never written is the same
each time (MCPeopleCount_repeated shows why).

**XMPPWorkerProofs**, for any transactions, starts and spurious wakeups. `ThreadInv` ties the threads
together: at which steps of the caller a worker thread exists, and at which steps of the worker a
connection. From it `TypeCorrect` and `StoppedStaysQuiet`; with `DrainInv` (what is not in the queue is in `trans`
or sent) `DrainedGetsSent`; and `WorkerIsAnOutbox`, the refinement of `Outbox`.

**XMPPInterfaceProofs**, for any number of calls, workers and lost connections. `PointerIsSafe` assumes one
caller beside actuation (`OneOutside`), as `interface_midnight` refutes it with two. `PointerInv`
says who may find the current worker in which state: while it is deleted, the one caller that
deleted it is making a new one, and no other worker runs. `SetupIsInOrder` holds for any
callers; `SetupInv` bounds what may be queued and sent (`Sendable`) and answered
(`Answers`), sets that only grow. `CountsAreInOrder` assumes
`OneOutside` again: what is published, in flight and queued is one pipe (`PipeOK`) along which
messages move, in which only the current worker has a share, and a count enters it behind a newer
one only when the two calls overlapped (`CallsOverlap`, `NotYet`). `TypeCorrect` needs `PointerInv`, as it says that only a
running worker has a connection: a worker is stopped before it is deleted, and the new one was never used.

**HotSpotterProofs**, for any files, buffer, batches, Ctrl-C, brown-outs and failing
transfers. `LiveFramesAreKept` (`LiveInv`: one reader thread, a batch waits exactly while it is
being added), `ContextIsSafe` (`ContextInv`: unless Ctrl-C was hasty, a freed context means that `main` is on its way
out), `FewFramesAreUnfit` (`ChipInv`: unless masked, a chip whose flag is set or about to be
set is trimmed, and an unfit frame about to be read has a brown-out or a misread of its own).
That one is proved of `Melexis` and carried over: every step of `HotSpotter` is one of `Melexis` or none.
`FileFramesAreKept` is about file mode: `FileInv` says that the rows passed so far (`RowsBefore`, a cardinality) are
those of the frames processed, then of the frames in the buffer, then of the frame being read, so that
frame i of them holds rows from `Rows * (i - 1)` on; and that the number of a frame is its place counted from
`START_FRAME`. `TypeCorrect` rests on both: that the buffer and a frame stay within their sizes depends on which thread
adds frames in which mode.

**BodyExtractionProofs**, for frames of any size, any temperatures and any limits that
`BodyAssumption` allows. `ComponentsFoundByBfs`: while `bfs` runs, what it has reached is connected, as each pixel that is
put in the queue touches the one taken out, and whatever touches a pixel taken out has been
reached; when the queue is empty nothing else touches the piece (`ComponentsInv`). `BiggestAreTaken`: the fold
of `convert_contour_to_body` has, after k contours, the two biggest of them
(`Biggest`), by induction on k. `LowestCut` (`CutInv`): every cut passed leaves one component that is too big.
`SymmetricSides` and `CentreAtPeak` are about sums of temperatures: a sum over a set of pixels, a
fold in no particular order, does not depend on the order (`SumRemove`), hence what a mirror does to it; `status` turns
from rising to falling where all before and behind is colder, if the histogram has no valley.
`SearchedIfSeen` shows that the pulses of the histogram are its peaks, in order (`PulsesArePeaks`), by an invariant of the walk from bin
to bin (`WalkOK`): every pulse that ended is a hill with one peak, the present one is level, rising or falling, and the maximum carried
along is that of its own hill; the modes of the frame are these peaks (`ModesArePeaks`). It needs `NobodyIsTooWarm`: no
pixel is in the last bin or beyond (MCBodyExtraction_hot shows why).
The orders of the module (`InOrder`) and the places of pixels in them are written with cardinalities, because
the library's sorting and selecting operators are recursive in a way the provers cannot expand.

**GridEyePacketsProofs**, for packets and buffers of any size and any number of packets cut in any way:
`TypeCorrect`, `FramesWereSent`, `HeldAreDecoded`, `OverrunIsAtTheEnd`. Every byte of a read is
a byte of some packet (`ByteAt`), so that three stars are found only where a packet begins or, with the
thermistor byte as the third, right behind (`HeadIsPacket`); from one head the search goes on at the begin of the next packet
(`Aligned`), and what has been decoded are the packets passed (`Decoded`). All but the first
need `HighBytesAreNoStars`: the high byte of a temperature is not 42; the sensor has 12 bits, so
that it is at most 15. `FramesWereSent` needs `FramesAreVaried` as well, as it speaks of false heads too: a frame
read one byte late is refused because its temperatures are 64 degrees or more, for which at least two of those sent, other
than the first, must not be multiples of 64 degrees. A body and its surroundings are colder than that.

Only model-checked is liveness, which needs fairness and is out of the prover's reach: `CallsReturn` of the buffer and of the worker,
`QueuedIsSentOrWorkerExits`, `ReportArrives`, `FileModeEnds`, `ReadIsProcessed`, `BrownOutIsRepaired`. Every safety
property of a run that holds is a theorem.

## What is not modelled

- Of the image processing: the averaging of the background over the first frames (an input: `Background`,
  `EmptyFrames`), so also that the last averaged frame is examined as well; the windows
  (display); `fft_`, which is never called.
- Of the MLX90620 reader: the compensation pixel and the floating point arithmetic of the
  temperatures, `alphacp` included, which is out of TLC's reach; `read_trim`, which is never called.
- The building and printing of XML (`Stanza.cc`, `XMPPUtils.cc`), which keeps no state; `PubSub.cc` (commented out of
  the build); queue operations the program never calls (`remove`, `findByID`, `peek`, `StanzaQueue`).
- `~XMPPInterface`, which the program never runs, beyond its drain loop in `XMPPWorker`.
- Memory that leaks.
- `html_generator.py`, `otsu/`, `ocir-data/`: scripts and experiments that are not part of the program.
- Vendored, generated and recorded files (`Resources/`, build output, `data/`), which are most of
  the repository's lines.

## Plan

What is left, most useful first:

1. A composition of `PeopleCount` with `XMPPInterface`: which count the server holds when everything has settled, with actuation.
2. The averaging of the background, with the frame that is averaged and examined.
