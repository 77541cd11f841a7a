----------------------------- MODULE HotSpotter -----------------------------
(***************************************************************************)
(* The threads, the frame buffer and Ctrl-C: main(), init_processing_frame *)
(* and the readers of src/src/HotSpotter.cpp with the GridEyeReader calls  *)
(* they make (src/src/GridEyeReader.cpp), composed with Melexis.tla, the   *)
(* other sensor and its driver.  What process_frame makes of a frame is    *)
(* OccupancyCounter.tla, what main does with the count is PeopleCount.tla; *)
(* the buffer is the atomic queue of BoundedQueue.tla, which               *)
(* FrameBuffer.tla shows class Buffer to be.                               *)
(*                                                                         *)
(* File mode (LIVE is FALSE): main() reads the whole file, then processes. *)
(* Live mode: a thread of its own reads the sensor, a Grid-EYE or an       *)
(* MLX90620.  LIVE and SENSOR are chosen when the program is built.        *)
(*     mpc: start; new, open (Grid-EYE), init, i2c (MLX90620), spawn,      *)
(*          restore (live); line, add (file); check, remove, leave; then   *)
(*          how the process ended: exited, returned, terminated, killed    *)
(*     rpc: none, loop, i2c, add, ended                                    *)
(***************************************************************************)
EXTENDS Integers, Sequences, SequencesExt

CONSTANTS
    Modes,              \* the values of LIVE it may be built with
    Sensors,            \* the values of SENSOR: 0 Grid-EYE, 1 MLX90620
    size_,              \* capacity of the buffer
    START_FRAME, END_FRAME,
    Rows,               \* lines of a frame in a file; 8, or 4 of the MLX90620
    Files,              \* the files: sequences of lines, see Line
    Blank,              \* a line without numbers
    Missing,            \* a file that cannot be opened
    MaxFrames,          \* bound: frames the sensor delivers
    MaxBatch,           \* bound: frames in one read of the sensor
    MaxInterrupts,      \* bound: Ctrl-C
    MaxBrownOuts,       \* bound: losses of the MLX90620's supply
    MaxMisreads         \* bound: failed reads of its flag taken for a set one

\* A line is Blank or row r of frame f, damaged when it lacks numbers.
Line == {Blank} \cup [frame : Nat, row : 1..Rows, whole : BOOLEAN]

ASSUME HotSpotterAssumption ==
    /\ Modes \subseteq BOOLEAN /\ Sensors \subseteq {0, 1}
    /\ size_ \in Nat \ {0} /\ Rows \in Nat \ {0}
    /\ {START_FRAME, END_FRAME, MaxFrames, MaxBatch, MaxInterrupts, MaxBrownOuts,
        MaxMisreads} \subseteq Nat
    /\ Files \subseteq Seq(Line) \cup {Missing}

VARIABLES
    LIVE, SENSOR,       \* params.h:27, 18
    mpc, rpc,           \* main thread, producer_thread
    file, lineN,        \* the lines of the file, and the next one to be read
    partial,            \* the rows of the frame being read
    batch,              \* frames read from the sensor, not yet added
    buffer,             \* grideyeReader.buffer_
    frameN_read, frameN_processed,
    processed,          \* the calls of process_frame, in order
    exitRequested,
    disposition,        \* of SIGINT: SIG_DFL, sigintHandler or got_sigint
    ftdi,               \* the context: null, new, open, freed
    misused,            \* history: a freed context was used
    hasty,              \* history: SIGINT came between ftdi_new and SIG_DFL
    interrupts,         \* bounded counter
    trimmed, configured, mlx, caller, msb, ta,      \* Melexis.tla
    masked, brownOuts, misreads, unfit

Melexis == INSTANCE Melexis

device == <<ftdi, misused>>
input == <<file, lineN, partial, batch>>
signals == <<exitRequested, disposition, hasty, interrupts>>
build == <<LIVE, SENSOR>>
melexis == <<trimmed, configured, mlx, caller, msb, ta, masked, brownOuts, misreads, unfit>>
vars == <<build, mpc, rpc, input, buffer, frameN_read, frameN_processed, processed, device, signals,
          melexis>>

Ended == mpc \in {"exited", "returned", "terminated", "killed"}

Init ==
    /\ LIVE \in Modes /\ SENSOR \in Sensors
    /\ mpc = "start" /\ rpc = "none"
    /\ file \in (IF LIVE THEN {<<>>} ELSE Files) /\ lineN = 1
    /\ partial = <<>> /\ batch = <<>> /\ buffer = <<>>
    /\ frameN_read = 0 /\ frameN_processed = 0
    /\ processed = <<>>
    /\ exitRequested = FALSE /\ disposition = "SIG_DFL"
    /\ ftdi = "null" /\ misused = FALSE
    /\ hasty = FALSE /\ interrupts = 0
    /\ Melexis!Init

\* ~GridEyeReader(): ask the sensor to stop, close and free the context.
\* Called with a context that was never allocated it does nothing.
DestroyReader ==
    IF LIVE /\ ftdi # "null"
    THEN ftdi' = "freed" /\ misused' = (misused \/ ftdi = "freed")
    ELSE UNCHANGED device

\* A call of libftdi with the context.
Use == misused' = (misused \/ ftdi = "freed")
-----------------------------------------------------------------------------
(* main(), live mode until producer_thread runs.                           *)

Install ==
    /\ mpc = "start"
    /\ disposition' = "sigintHandler"
    /\ mpc' = IF ~LIVE THEN "line" ELSE IF SENSOR = 0 THEN "new" ELSE "init"
    /\ UNCHANGED <<rpc, input, buffer, frameN_read, frameN_processed, processed, device,
                   exitRequested, hasty, interrupts>>

\* GridEyeReader::Init: ftdi_new ...
NewContext ==
    /\ mpc = "new"
    /\ ftdi' = "new"
    /\ mpc' = "open"
    /\ UNCHANGED <<rpc, input, buffer, frameN_read, frameN_processed, processed, misused, signals>>

\* ... then open the device, or exit.
OpenDevice ==
    /\ mpc = "open"
    /\ Use
    /\ \/ ftdi' = (IF ftdi = "freed" THEN ftdi ELSE "open") /\ mpc' = "spawn"
       \/ UNCHANGED ftdi /\ mpc' = "exited"
    /\ UNCHANGED <<rpc, input, buffer, frameN_read, frameN_processed, processed, signals>>

\* MLXD::init: signal(SIGINT, got_sigint), then the transfers of Melexis.tla; a
\* first mlx90620_init that fails exits.
InitMelexis ==
    /\ mpc = "init"
    /\ disposition' = "got_sigint"
    /\ Melexis!Begin
    /\ mpc' = "i2c"
    /\ UNCHANGED <<rpc, input, buffer, frameN_read, frameN_processed, processed, device,
                   exitRequested, hasty, interrupts>>

PrepareMelexis(ok) ==
    /\ mpc = "i2c"
    /\ Melexis!Prepare(ok)
    /\ mpc' = CASE mlx' = "ready" -> "spawn" [] mlx' = "failed" -> "exited" [] OTHER -> "i2c"
    /\ UNCHANGED <<rpc, input, buffer, frameN_read, frameN_processed, processed, device, signals>>

Spawn ==
    /\ mpc = "spawn"
    /\ rpc' = "loop"
    /\ mpc' = "restore"
    /\ UNCHANGED <<input, buffer, frameN_read, frameN_processed, processed, device, signals>>

\* Mutant of Restore: sigintHandler stays installed.
M_RestoreNot ==
    /\ mpc = "restore"
    /\ mpc' = "check"
    /\ UNCHANGED <<rpc, input, buffer, frameN_read, frameN_processed, processed, device, signals>>

\* signal(SIGINT, SIG_DFL)
Restore ==
    /\ mpc = "restore"
    /\ disposition' = "SIG_DFL"
    /\ mpc' = "check"
    /\ UNCHANGED <<rpc, input, buffer, frameN_read, frameN_processed, processed, device,
                   exitRequested, hasty, interrupts>>
-----------------------------------------------------------------------------
(* Reading the file.                                                       *)

IsRow(line) == line # Blank /\ line.whole

\* Mutant of ReadLine: the frame begun is thrown away at a damaged row.
M_ReadLineAfresh ==
    /\ mpc = "line"
    /\ file # Missing /\ lineN <= Len(file)
    /\ lineN' = lineN + 1
    /\ partial' = IF IsRow(file[lineN]) THEN Append(partial, file[lineN])
                  ELSE IF file[lineN] = Blank THEN partial ELSE <<>>
    /\ mpc' = IF Len(partial') = Rows THEN "add" ELSE "line"
    /\ UNCHANGED <<rpc, file, batch, buffer, frameN_read, frameN_processed, processed, device, signals>>

\* read_frame_from_file and read_frameMLX_from_file: a line with enough numbers
\* is the next row of the frame, any other is passed over.  A file that cannot
\* be opened has no line and no end: the loop spins.
ReadLine ==
    /\ mpc = "line"
    /\ file # Missing /\ lineN <= Len(file)
    /\ lineN' = lineN + 1
    /\ partial' = IF IsRow(file[lineN]) THEN Append(partial, file[lineN]) ELSE partial
    /\ mpc' = IF Len(partial') = Rows THEN "add" ELSE "line"
    /\ UNCHANGED <<rpc, file, batch, buffer, frameN_read, frameN_processed, processed, device, signals>>

\* buffer_.add(frame); blocks while the buffer is full.
AddFrame ==
    /\ mpc = "add"
    /\ Len(buffer) < size_
    /\ buffer' = Append(buffer, partial)
    /\ partial' = <<>>
    /\ mpc' = "line"
    /\ UNCHANGED <<rpc, file, lineN, batch, frameN_read, frameN_processed, processed, device, signals>>

\* At the end of the file read_frame_from_file returns, an incomplete frame is
\* dropped, and retrive_frame_from_file calls it again until frameN_read, which
\* counts these calls, is END_FRAME.
EndOfFile ==
    /\ mpc = "line"
    /\ file # Missing /\ lineN > Len(file)
    /\ partial' = <<>>
    /\ frameN_read' = frameN_read + 1
    /\ mpc' = IF frameN_read' >= END_FRAME THEN "check" ELSE "line"
    /\ UNCHANGED <<rpc, file, lineN, batch, buffer, frameN_processed, processed, device, signals>>
-----------------------------------------------------------------------------
(* init_processing_frame.                                                  *)

\* The loop's test: leave, skip a frame number, or go for the next frame.
Check ==
    /\ mpc = "check"
    /\ \/ /\ exitRequested \/ (~LIVE /\ frameN_processed > END_FRAME)
          /\ mpc' = "leave"
          /\ UNCHANGED frameN_processed
       \/ /\ ~exitRequested /\ ~LIVE
          /\ frameN_processed <= END_FRAME /\ frameN_processed < START_FRAME
          /\ frameN_processed' = frameN_processed + 1
          /\ UNCHANGED mpc
       \/ /\ ~exitRequested
          /\ LIVE \/ (frameN_processed <= END_FRAME /\ frameN_processed >= START_FRAME)
          /\ mpc' = "remove"
          /\ UNCHANGED frameN_processed
    /\ UNCHANGED <<rpc, input, buffer, frameN_read, processed, device, signals>>

\* Mutants of ProcessFrame: frameN_processed is not counted; the last frame is
\* left in the buffer.
M_ProcessUncounted ==
    /\ mpc = "remove"
    /\ buffer # <<>>
    /\ processed' = Append(processed, [number |-> frameN_processed, frame |-> Head(buffer)])
    /\ buffer' = Tail(buffer)
    /\ mpc' = "check"
    /\ UNCHANGED <<rpc, input, frameN_read, frameN_processed, device, signals>>

M_ProcessLeavesOne ==
    /\ mpc = "remove"
    /\ Len(buffer) > 1
    /\ processed' = Append(processed, [number |-> frameN_processed, frame |-> Head(buffer)])
    /\ buffer' = Tail(buffer)
    /\ frameN_processed' = frameN_processed + 1
    /\ mpc' = "check"
    /\ UNCHANGED <<rpc, input, frameN_read, device, signals>>

\* next_frame() blocks while the buffer is empty; then process_frame.
ProcessFrame ==
    /\ mpc = "remove"
    /\ buffer # <<>>
    /\ processed' = Append(processed, [number |-> frameN_processed, frame |-> Head(buffer)])
    /\ buffer' = Tail(buffer)
    /\ frameN_processed' = frameN_processed + 1
    /\ mpc' = "check"
    /\ UNCHANGED <<rpc, input, frameN_read, device, signals>>

\* Back in main().  File mode returns.  Live mode destroys the reader, and the
\* destructor of producer_thread, which nobody joined, calls std::terminate.
Leave ==
    /\ mpc = "leave"
    /\ DestroyReader
    /\ mpc' = IF LIVE THEN "terminated" ELSE "returned"
    /\ UNCHANGED <<rpc, input, buffer, frameN_read, frameN_processed, processed, signals>>

Main ==
    /\ \/ /\ \/ Install \/ NewContext \/ OpenDevice \/ Spawn \/ Restore \/ ReadLine \/ AddFrame
             \/ EndOfFile \/ Check \/ ProcessFrame \/ Leave
          /\ UNCHANGED melexis
       \/ InitMelexis
       \/ \E ok \in BOOLEAN : PrepareMelexis(ok)
    /\ UNCHANGED build
-----------------------------------------------------------------------------
(* producer_thread: retrive_frame_live.                                    *)

\* ReadFrameLive asks for data and decodes what it gets (GridEyePackets.tla):
\* any number of frames, none after a failed read.
ReadSensor ==
    /\ rpc = "loop" /\ ~Ended
    /\ ~exitRequested /\ SENSOR = 0
    /\ Use /\ UNCHANGED ftdi
    /\ \E n \in 0..MaxBatch :
          /\ frameN_read + n <= MaxFrames
          /\ batch' = [k \in 1..n |-> frameN_read + k]
          /\ rpc' = IF n = 0 THEN "loop" ELSE "add"
    /\ UNCHANGED <<mpc, file, lineN, partial, buffer, frameN_read, frameN_processed, processed, signals>>

\* MLXD::readFrameLive: look at the flag, repair the chip while it is not set ...
PollMelexis ==
    /\ rpc = "loop" /\ ~Ended
    /\ ~exitRequested /\ SENSOR = 1 /\ frameN_read < MaxFrames
    /\ Melexis!Poll
    /\ rpc' = "i2c"
    /\ UNCHANGED <<mpc, input, buffer, frameN_read, frameN_processed, processed, device, signals>>

WatchMelexis(ok) ==
    /\ rpc = "i2c" /\ ~Ended
    /\ Melexis!Watch(ok) /\ misreads' <= MaxMisreads
    /\ UNCHANGED <<mpc, rpc, input, buffer, frameN_read, frameN_processed, processed, device, signals>>

\* ... and read one frame, or none.
ReadMelexis(ok) ==
    /\ rpc = "i2c" /\ ~Ended
    /\ Melexis!ReadIR(ok)
    /\ IF ok THEN batch' = <<frameN_read + 1>> /\ rpc' = "add" ELSE rpc' = "loop" /\ UNCHANGED batch
    /\ UNCHANGED <<mpc, file, lineN, partial, buffer, frameN_read, frameN_processed, processed,
                   device, signals>>

\* Mutant of AddSensorFrame: a frame that finds the buffer full is dropped.
M_AddSensorFrameOrDrop ==
    /\ rpc = "add" /\ ~Ended
    /\ frameN_read' = frameN_read + 1
    /\ buffer' = IF Len(buffer) < size_ THEN Append(buffer, Head(batch)) ELSE buffer
    /\ batch' = Tail(batch)
    /\ rpc' = IF batch' = <<>> THEN "loop" ELSE "add"
    /\ UNCHANGED <<mpc, file, lineN, partial, frameN_processed, processed, device, signals>>

\* frameN_read++; buffer_.add(frames[i]), or the other way round, which blocks while the buffer is full.
AddSensorFrame ==
    /\ rpc = "add" /\ ~Ended
    /\ Len(buffer) < size_
    /\ frameN_read' = frameN_read + 1
    /\ buffer' = Append(buffer, Head(batch))
    /\ batch' = Tail(batch)
    /\ rpc' = IF batch' = <<>> THEN "loop" ELSE "add"
    /\ UNCHANGED <<mpc, file, lineN, partial, frameN_processed, processed, device, signals>>

EndReader ==
    /\ rpc = "loop" /\ ~Ended
    /\ exitRequested
    /\ rpc' = "ended"
    /\ UNCHANGED <<mpc, input, buffer, frameN_read, frameN_processed, processed, device, signals>>

Reader ==
    /\ \/ (ReadSensor \/ AddSensorFrame \/ EndReader) /\ UNCHANGED melexis
       \/ PollMelexis
       \/ \E ok \in BOOLEAN : WatchMelexis(ok) \/ ReadMelexis(ok)
    /\ UNCHANGED build
-----------------------------------------------------------------------------
\* Ctrl-C: the default action kills the process; got_sigint exits; sigintHandler
\* destroys the reader and sets exitRequested, and whoever was blocked stays
\* blocked.
Interrupt ==
    /\ ~Ended
    /\ interrupts < MaxInterrupts
    /\ interrupts' = interrupts + 1
    /\ hasty' = (hasty \/ mpc \in {"open", "spawn", "restore"})
    /\ \/ /\ disposition = "SIG_DFL"
          /\ mpc' = "killed"
          /\ UNCHANGED <<exitRequested, device>>
       \/ /\ disposition = "got_sigint"
          /\ mpc' = "exited"
          /\ UNCHANGED <<exitRequested, device>>
       \/ /\ disposition = "sigintHandler"
          /\ DestroyReader
          /\ exitRequested' = TRUE
          /\ UNCHANGED mpc
    /\ UNCHANGED <<rpc, input, buffer, frameN_read, frameN_processed, processed, disposition>>

BrownOut ==
    /\ ~Ended /\ SENSOR = 1
    /\ brownOuts < MaxBrownOuts
    /\ Melexis!BrownOut
    /\ UNCHANGED <<mpc, rpc, input, buffer, frameN_read, frameN_processed, processed, device, signals>>

Environment == ((Interrupt /\ UNCHANGED melexis) \/ BrownOut) /\ UNCHANGED build

Next == Main \/ Reader \/ Environment

Spec == Init /\ [][Next]_vars

\* The two threads keep running, and a transfer tried again and again succeeds.
FairSpec ==
    /\ Spec /\ WF_vars(Main) /\ WF_vars(Reader)
    /\ SF_vars(Reader /\ Melexis!ReadEEPROM(TRUE))
    /\ SF_vars(Reader /\ Melexis!WriteTrim(TRUE))
    /\ SF_vars(Reader /\ Melexis!WriteConfig(TRUE))
    /\ SF_vars(Reader /\ Melexis!ReadFlag(TRUE))
-----------------------------------------------------------------------------
TypeOK ==
    /\ mpc \in {"start", "new", "open", "init", "i2c", "spawn", "restore", "line", "add", "check",
                "remove", "leave", "exited", "returned", "terminated", "killed"}
    /\ rpc \in {"none", "loop", "i2c", "add", "ended"}
    /\ file \in Seq(Line) \cup {Missing} /\ lineN \in Nat \ {0}
    /\ partial \in Seq(Line) /\ Len(partial) <= Rows
    /\ batch \in Seq(1..MaxFrames)
    /\ Len(buffer) <= size_
    /\ {frameN_read, frameN_processed} \subseteq Nat
    /\ exitRequested \in BOOLEAN /\ disposition \in {"SIG_DFL", "sigintHandler", "got_sigint"}
    /\ ftdi \in {"null", "new", "open", "freed"}
    /\ misused \in BOOLEAN /\ hasty \in BOOLEAN
    /\ interrupts \in 0..MaxInterrupts
    /\ Melexis!TypeOK

\* Live: between the sensor and process_frame no frame is lost, repeated or
\* overtaken, also while a batch waits for room (GridEyeReader.cpp:241-245).
NoFrameIsLost ==
    LIVE => [i \in DOMAIN processed |-> processed[i].frame] \o buffer \o batch
            = [k \in 1..frameN_read + Len(batch) |-> k]

\* The lines of s with a row, and how many of them stand before line k.
RowsOf(s) == {k \in DOMAIN s : IsRow(s[k])}
RowsBefore(s, k) == Cardinality({j \in RowsOf(s) : j < k})

\* f holds rows of s one after the other, and n rows of s stand before them.
HoldsRows(f, s, n) ==
    \A r \in 1..Len(f) : \E k \in RowsOf(s) : f[r] = s[k] /\ RowsBefore(s, k) = n + r - 1

\* File: what process_frame gets are the rows of the file, Rows at a time, none
\* lost, repeated or out of order wherever blank lines and damaged rows stand
\* (GridEyeReader.cpp:146-178, mlxd.cpp:499-527): a damaged row costs nothing but
\* itself, and shifts the frames behind it by one row.  The number printed with
\* a frame, and stored in trajectories, is its place counted from START_FRAME
\* (78-81, 91, 99).
FramesAreThoseOfTheFile ==
    ~LIVE => \A i \in DOMAIN processed :
                /\ processed[i].number = START_FRAME + i - 1
                /\ Len(processed[i].frame) = Rows
                /\ HoldsRows(processed[i].frame, file, Rows * (i - 1))

\* A freed libftdi context is used only if Ctrl-C came while main() was setting
\* up the device and the handler was installed: afterwards the default action
\* ends the process before anybody can use the context (61-65, 255-277).
OnlyHastyInterruptMisuses == misused => hasty

\* File: a file with at least END_FRAME and at most size_ frames is processed
\* and the program ends.
FileModeEnds == ~LIVE => <>Ended

\* Live: a frame that was read is processed, if the process lives, however
\* full the buffer is.
ReadIsProcessed ==
    \A k \in 1..MaxFrames : frameN_read >= k ~> Len(processed) >= k \/ exitRequested \/ Ended

\* MLX90620: a chip that lost its configuration gets trim and configuration
\* back, in whatever step the supply failed, and however many transfers fail,
\* unless the loss was masked (Melexis.tla) or the program ends (135-139).
BrownOutIsRepaired ==
    LIVE /\ SENSOR = 1 /\ rpc = "loop" /\ ~Melexis!Fit
        ~> Melexis!Fit \/ masked \/ exitRequested \/ Ended \/ frameN_read = MaxFrames

\* MLX90620: a brown-out costs one frame at most, unless masked.
UnfitFramesAreFew == Melexis!UnfitFramesAreFew
-----------------------------------------------------------------------------
(* What the code does not do; MC configurations of their own show it.      *)

\* A frame's rows are rows of one frame of the file.
DamageIsLocal ==
    ~LIVE => \A i \in DOMAIN processed : \A r \in 1..Rows :
                processed[i].frame[r].frame = processed[i].frame[1].frame

\* "If calibration fails then TA will be WAY too high. check and reinitialize
\* if that happens" (mlxd.cpp:64)
CalibratedBeforeReading == LIVE /\ SENSOR = 1 /\ rpc # "none" => ta = "right"

\* A chip that says it is configured is trimmed.
FlagIsTrue == Melexis!FlagIsTrue

\* "Exit on Ctrl+ c." (59)
CtrlCExits == interrupts > 0 ~> Ended

\* "Creates 2 threads for reading from file and Processing them" (150): a
\* reader that finds the buffer full waits for the other thread, then goes on.
FullBufferIsDrained == mpc = "add" ~> mpc # "add"
=============================================================================
