-------------------------- MODULE HotSpotterProofs --------------------------
(***************************************************************************)
(* Properties of HotSpotter, for any files, buffer, batches, and any       *)
(* number of Ctrl-C, failed transfers and brown-outs.                      *)
(***************************************************************************)
EXTENDS HotSpotter, FiniteSetTheorems, TLAPS

\* A call of process_frame in live mode, and the frames of some calls.
Processed == [number : Nat, frame : Nat]
Frames(calls) == [i \in DOMAIN calls |-> calls[i].frame]

\* The frames the sensor sent first.
Iota(n) == [k \in 1..n |-> k]

LEMMA SameSeq ==
    ASSUME NEW s \in Seq(Nat), NEW t \in Seq(Nat), Len(s) = Len(t),
           \A i \in 1..Len(s) : s[i] = t[i]
    PROVE  s = t
OBVIOUS

\* The head of one queue moves to the end of the one before it.
LEMMA MoveFact ==
    ASSUME NEW s \in Seq(Nat), NEW t \in Seq(Nat), t # <<>>
    PROVE  /\ Append(s, Head(t)) \in Seq(Nat) /\ Tail(t) \in Seq(Nat)
           /\ Len(Tail(t)) = Len(t) - 1
           /\ Append(s, Head(t)) \o Tail(t) = s \o t
<1>1. Head(t) \in Nat /\ Tail(t) \in Seq(Nat) /\ Len(Tail(t)) = Len(t) - 1 /\ Len(t) \in Nat \ {0}
    OBVIOUS
<1>2. Append(s, Head(t)) \in Seq(Nat) /\ Len(Append(s, Head(t))) = Len(s) + 1
    BY <1>1
<1>3. /\ Append(s, Head(t)) \o Tail(t) \in Seq(Nat) /\ s \o t \in Seq(Nat)
      /\ Len(Append(s, Head(t)) \o Tail(t)) = Len(s \o t)
      /\ Len(s \o t) = Len(s) + Len(t)
    BY <1>1, <1>2
<1>4. ASSUME NEW i \in 1..Len(s \o t)
      PROVE  (Append(s, Head(t)) \o Tail(t))[i] = (s \o t)[i]
    BY <1>1, <1>2, <1>3
<1> QED
    BY <1>3, <1>4

LEMMA AppendFact ==
    ASSUME NEW s \in Seq(Nat), NEW t \in Seq(Nat), NEW x \in Nat
    PROVE  s \o Append(t, x) = Append(s \o t, x)
OBVIOUS
-----------------------------------------------------------------------------
(* Live mode: from the sensor to process_frame.                            *)

\* Where main is before there is a reader thread.
Preparing == {"start", "new", "open", "init", "i2c", "spawn"}

\* The inductive invariant: main reads no file, there is one reader thread, a
\* batch is waiting exactly while it adds frames, and no frame is lost.
LiveInv ==
    /\ frameN_read \in Nat /\ frameN_processed \in Nat
    /\ LIVE =>
        /\ mpc \notin {"line", "add"}
        /\ mpc \in Preparing => rpc = "none"
        /\ buffer \in Seq(Nat) /\ batch \in Seq(Nat)
        /\ processed \in Seq(Processed)
        /\ rpc = "add" <=> batch # <<>>
        /\ (Frames(processed) \o buffer) \o batch = Iota(frameN_read + Len(batch))

LEMMA SeqFact ==
    ASSUME NEW S, NEW s \in Seq(S)
    PROVE  Len(s) \in Nat /\ DOMAIN s = 1..Len(s) /\ \A i \in 1..Len(s) : s[i] \in S
OBVIOUS

LEMMA FramesFact ==
    ASSUME NEW calls \in Seq(Processed)
    PROVE  Frames(calls) \in Seq(Nat) /\ Len(Frames(calls)) = Len(calls)
<1>1. /\ Len(calls) \in Nat /\ DOMAIN calls = 1..Len(calls)
      /\ \A i \in 1..Len(calls) : calls[i] \in Processed
    BY SeqFact
<1>2. \A c \in Processed : c.frame \in Nat
    BY DEF Processed
<1>3. Frames(calls) \in [1..Len(calls) -> Nat]
    BY <1>1, <1>2 DEF Frames
<1> QED
    BY <1>1, <1>3

LEMMA LiveInit == Init => LiveInv
<1> SUFFICES ASSUME Init PROVE LiveInv
    OBVIOUS
<1>1. /\ mpc = "start" /\ rpc = "none" /\ batch = <<>> /\ buffer = <<>> /\ processed = <<>>
      /\ frameN_read = 0 /\ frameN_processed = 0
    BY DEF Init
<1>2. (Frames(processed) \o buffer) \o batch = Iota(frameN_read + Len(batch))
  <2>1. Frames(<<>>) = <<>> /\ Iota(0) = <<>>
      BY DEF Frames, Iota
  <2>2. (<<>> \o <<>>) \o <<>> = <<>> /\ 0 + Len(<<>>) = 0
      OBVIOUS
  <2> QED
      BY <1>1, <2>1, <2>2
<1>3. <<>> \in Seq(Nat) /\ <<>> \in Seq(Processed)
    OBVIOUS
<1> QED
    BY <1>1, <1>2, <1>3 DEF LiveInv

\* Adding a frame, by the reader thread.
LEMMA AddStep ==
    ASSUME LiveInv, LIVE, AddSensorFrame, UNCHANGED LIVE
    PROVE  LiveInv'
<1> DEFINE h == Head(batch)
           F == Frames(processed)
<1>1. /\ buffer \in Seq(Nat) /\ batch \in Seq(Nat) /\ batch # <<>> /\ frameN_read \in Nat
      /\ F \in Seq(Nat)
    BY FramesFact DEF LiveInv, AddSensorFrame
<1>2. /\ frameN_read' = frameN_read + 1 /\ buffer' = Append(buffer, h) /\ batch' = Tail(batch)
      /\ rpc = "add" /\ rpc' = (IF batch' = <<>> THEN "loop" ELSE "add")
      /\ UNCHANGED <<mpc, frameN_processed, processed>>
    BY DEF AddSensorFrame
<1>3. h \in Nat /\ Tail(batch) \in Seq(Nat) /\ Len(Tail(batch)) = Len(batch) - 1 /\ Len(batch) \in Nat
    BY <1>1
<1> HIDE DEF F, h
<1>4. (F \o buffer') \o batch' = (F \o buffer) \o batch
  <2>1. F \o Append(buffer, h) = Append(F \o buffer, h) /\ F \o buffer \in Seq(Nat)
      BY <1>1, <1>3, AppendFact
  <2>2. Append(F \o buffer, h) \o Tail(batch) = (F \o buffer) \o batch
      BY <1>1, <2>1, MoveFact DEF h
  <2> QED
      BY <1>2, <2>1, <2>2
<1>5. frameN_read' + Len(batch') = frameN_read + Len(batch)
    BY <1>1, <1>2, <1>3
<1>6. (Frames(processed') \o buffer') \o batch' = Iota(frameN_read' + Len(batch'))
    BY <1>2, <1>4, <1>5 DEF LiveInv, F
<1>7. buffer' \in Seq(Nat) /\ batch' \in Seq(Nat) /\ frameN_read' \in Nat
    BY <1>1, <1>2, <1>3
<1>8. mpc \notin Preparing
    BY <1>2 DEF LiveInv
<1> QED
    BY <1>2, <1>6, <1>7, <1>8 DEF LiveInv

\* Processing a frame, by main.
LEMMA ProcessStep ==
    ASSUME LiveInv, LIVE, ProcessFrame, UNCHANGED LIVE
    PROVE  LiveInv'
<1> DEFINE call == [number |-> frameN_processed, frame |-> Head(buffer)]
<1>1. /\ buffer \in Seq(Nat) /\ buffer # <<>> /\ frameN_processed \in Nat
      /\ processed \in Seq(Processed)
      /\ Frames(processed) \in Seq(Nat)
    BY FramesFact DEF LiveInv, ProcessFrame
<1>2. /\ processed' = Append(processed, call) /\ buffer' = Tail(buffer) /\ mpc' = "check"
      /\ frameN_processed' = frameN_processed + 1
      /\ UNCHANGED <<rpc, batch, frameN_read>>
    BY DEF ProcessFrame, input
<1>3. Head(buffer) \in Nat /\ call \in Processed /\ call.frame = Head(buffer)
    BY <1>1 DEF Processed
<1> HIDE DEF call
<1>4. Frames(processed') = Append(Frames(processed), Head(buffer))
  <2>1. processed' \in Seq(Processed) /\ Len(processed') = Len(processed) + 1
      BY <1>1, <1>2, <1>3
  <2>2. Frames(processed') \in Seq(Nat) /\ Len(Frames(processed')) = Len(processed) + 1
      BY <2>1, FramesFact
  <2>3. /\ Append(Frames(processed), Head(buffer)) \in Seq(Nat)
        /\ Len(Append(Frames(processed), Head(buffer))) = Len(processed) + 1
      BY <1>1, <1>3, FramesFact
  <2>4. ASSUME NEW i \in 1..Len(processed) + 1
        PROVE  Frames(processed')[i] = Append(Frames(processed), Head(buffer))[i]
      BY <1>1, <1>2, <1>3, <2>1, FramesFact DEF Frames
  <2> QED
    <3> DEFINE A == Frames(processed')
               B == Append(Frames(processed), Head(buffer))
    <3>1. A \in Seq(Nat) /\ B \in Seq(Nat) /\ Len(A) = Len(B) /\ Len(A) = Len(processed) + 1
        BY <2>2, <2>3
    <3>2. \A i \in 1..Len(A) : A[i] = B[i]
        BY <2>4, <3>1
    <3> HIDE DEF A, B
    <3>3. A = B
        BY <3>1, <3>2, SameSeq
    <3> QED
        BY <3>3 DEF A, B
<1>5. Frames(processed') \o buffer' = Frames(processed) \o buffer
    BY <1>1, <1>2, <1>4, MoveFact
<1>6. buffer' \in Seq(Nat) /\ processed' \in Seq(Processed)
    BY <1>1, <1>2, <1>3
<1>7. frameN_processed' \in Nat /\ frameN_read' \in Nat
    BY <1>1, <1>2 DEF LiveInv
<1>8. (Frames(processed') \o buffer') \o batch' = Iota(frameN_read' + Len(batch'))
    BY <1>2, <1>5 DEF LiveInv
<1> QED
    BY <1>2, <1>6, <1>7, <1>8 DEF LiveInv, Preparing

\* A batch arrives from either sensor.
LEMMA ReadStep ==
    ASSUME LiveInv, LIVE, UNCHANGED <<LIVE, mpc, buffer, frameN_read, frameN_processed, processed>>,
           rpc \in {"loop", "i2c"}, NEW n \in Nat, batch' = [k \in 1..n |-> frameN_read + k],
           rpc' = "add" <=> n # 0
    PROVE  LiveInv'
<1> DEFINE s == Frames(processed) \o buffer
<1>1. /\ frameN_read \in Nat /\ buffer \in Seq(Nat) /\ batch = <<>>
      /\ Frames(processed) \in Seq(Nat)
      /\ s \o batch = Iota(frameN_read + Len(batch))
    BY FramesFact DEF LiveInv
<1>2. s \in Seq(Nat)
    BY <1>1
<1> HIDE DEF s
<1>3. batch' \in Seq(Nat) /\ Len(batch') = n /\ \A k \in 1..n : batch'[k] = frameN_read + k
    BY <1>1
<1>4. s = Iota(frameN_read)
    BY <1>1, <1>2
<1>5. Len(s) = frameN_read /\ \A k \in 1..frameN_read : s[k] = k
    BY <1>1, <1>4 DEF Iota
<1>6. s \o batch' = Iota(frameN_read + n)
  <2>1. s \o batch' \in Seq(Nat) /\ Len(s \o batch') = frameN_read + n
      BY <1>2, <1>3, <1>5
  <2>2. Iota(frameN_read + n) \in Seq(Nat) /\ Len(Iota(frameN_read + n)) = frameN_read + n
      BY <1>1 DEF Iota
  <2>3. ASSUME NEW k \in 1..frameN_read + n PROVE (s \o batch')[k] = Iota(frameN_read + n)[k]
    <3>1. CASE k <= frameN_read
        BY <1>1, <1>2, <1>3, <1>5, <3>1 DEF Iota
    <3>2. CASE ~(k <= frameN_read)
      <4>1. k - frameN_read \in 1..n /\ frameN_read + (k - frameN_read) = k
          BY <1>1, <3>2
      <4>2. (s \o batch')[k] = batch'[k - frameN_read]
          BY <1>2, <1>3, <1>5, <3>2, <4>1
      <4>3. Iota(frameN_read + n)[k] = k
          BY <1>1 DEF Iota
      <4>4. batch'[k - frameN_read] = k
          BY <1>3, <4>1
      <4> QED
          BY <4>2, <4>3, <4>4
    <3> QED
        BY <3>1, <3>2
  <2> QED
    <3> DEFINE A == s \o batch'
               B == Iota(frameN_read + n)
    <3>1. A \in Seq(Nat) /\ B \in Seq(Nat) /\ Len(A) = Len(B) /\ Len(A) = frameN_read + n
        BY <2>1, <2>2
    <3>2. \A k \in 1..Len(A) : A[k] = B[k]
        BY <2>3, <3>1
    <3> HIDE DEF A, B
    <3>3. A = B
        BY <3>1, <3>2, SameSeq
    <3> QED
        BY <3>3 DEF A, B
<1>7. batch' = <<>> <=> n = 0
    BY <1>3
<1> QED
    BY <1>3, <1>6, <1>7 DEF LiveInv, s

LEMMA LiveStep == LiveInv /\ [Next]_vars => LiveInv'
<1> SUFFICES ASSUME LiveInv, [Next]_vars PROVE LiveInv'
    OBVIOUS
<1>1. CASE UNCHANGED vars
    BY <1>1 DEF vars, build, input, LiveInv
<1>2. CASE Main
  <2>1. CASE ~LIVE
    <3>1. UNCHANGED LIVE
        BY <1>2 DEF Main, build
    <3>2. /\ frameN_read' \in {frameN_read, frameN_read + 1}
          /\ frameN_processed' \in {frameN_processed, frameN_processed + 1}
      <4>1. CASE EndOfFile \/ Check \/ ProcessFrame
          BY <4>1 DEF EndOfFile, Check, ProcessFrame
      <4>2. CASE ~(EndOfFile \/ Check \/ ProcessFrame)
          BY <1>2, <4>2 DEF Main, Install, NewContext, OpenDevice, InitMelexis, PrepareMelexis,
              Spawn, Restore, ReadLine, AddFrame, Leave
      <4> QED
          BY <4>1, <4>2
    <3>3. frameN_read' \in Nat /\ frameN_processed' \in Nat
        BY <3>2 DEF LiveInv
    <3> QED
        BY <2>1, <3>1, <3>3 DEF LiveInv
  <2>2. CASE LIVE
    <3>1. CASE ProcessFrame
        BY <1>2, <2>2, <3>1, ProcessStep DEF Main, build
    <3>2. CASE Check
        BY <1>2, <2>2, <3>2 DEF LiveInv, Check, Main, build, input, Preparing
    <3>3. CASE Spawn
        BY <1>2, <2>2, <3>3 DEF LiveInv, Spawn, Main, build, input, Preparing
    <3>4. CASE \/ Install \/ NewContext \/ OpenDevice \/ Restore \/ Leave
               \/ InitMelexis \/ \E ok \in BOOLEAN : PrepareMelexis(ok)
      <4>1. /\ UNCHANGED <<LIVE, rpc, input, buffer, frameN_read, frameN_processed, processed>>
            /\ mpc' \notin {"line", "add"}
            /\ mpc' \in Preparing => mpc \in Preparing
          BY <1>2, <2>2, <3>4 DEF Main, build, Install, NewContext, OpenDevice, Restore, Leave,
              InitMelexis, PrepareMelexis, Preparing
      <4> QED
          BY <4>1 DEF LiveInv, input
    <3>5. CASE ReadLine \/ AddFrame \/ EndOfFile
        BY <2>2, <3>5 DEF LiveInv, ReadLine, AddFrame, EndOfFile
    <3> QED
        BY <1>2, <3>1, <3>2, <3>3, <3>4, <3>5 DEF Main
  <2> QED
      BY <2>1, <2>2
<1>3. CASE Reader
  <2>1. UNCHANGED LIVE
      BY <1>3 DEF Reader, build
  <2>2. CASE ~LIVE
    <3>1. frameN_read' \in Nat /\ frameN_processed' \in Nat
        BY <1>3 DEF LiveInv, Reader, ReadSensor, AddSensorFrame, EndReader, PollMelexis,
            WatchMelexis, ReadMelexis
    <3> QED
        BY <2>1, <2>2, <3>1 DEF LiveInv
  <2>3. CASE LIVE
    <3>1. CASE AddSensorFrame
        BY <2>1, <2>3, <3>1, AddStep
    <3>2. CASE ReadSensor
      <4>1. PICK n \in 0..MaxBatch :
              /\ batch' = [k \in 1..n |-> frameN_read + k]
              /\ rpc' = IF n = 0 THEN "loop" ELSE "add"
          BY <3>2 DEF ReadSensor
      <4>2. n \in Nat /\ rpc = "loop" /\ (rpc' = "add" <=> n # 0)
          BY <3>2, <4>1, HotSpotterAssumption DEF ReadSensor
      <4>3. UNCHANGED <<LIVE, mpc, buffer, frameN_read, frameN_processed, processed>>
          BY <2>1, <3>2 DEF ReadSensor
      <4> QED
          BY <2>3, <4>1, <4>2, <4>3, ReadStep
    <3>3. ASSUME ReadMelexis(TRUE) PROVE LiveInv'
      <4>1. batch' = <<frameN_read + 1>> /\ rpc' = "add" /\ rpc = "i2c"
          BY <3>3 DEF ReadMelexis
      <4>2. batch' = [k \in 1..1 |-> frameN_read + k]
        <5>1. frameN_read + 1 \in Nat
            BY DEF LiveInv
        <5> QED
            BY <4>1, <5>1
      <4>3. UNCHANGED <<LIVE, mpc, buffer, frameN_read, frameN_processed, processed>>
          BY <2>1, <3>3 DEF ReadMelexis
      <4>4. 1 \in Nat /\ (rpc' = "add" <=> 1 # 0)
          BY <4>1
      <4> QED
          BY <2>3, <4>1, <4>2, <4>3, <4>4, ReadStep
    <3>4. CASE EndReader \/ PollMelexis \/ ReadMelexis(FALSE) \/ \E ok \in BOOLEAN : WatchMelexis(ok)
      <4>1. /\ UNCHANGED <<LIVE, mpc, batch, buffer, frameN_read, frameN_processed, processed>>
            /\ rpc \in {"loop", "i2c"} /\ rpc' # "add"
          BY <2>1, <3>4 DEF EndReader, PollMelexis, ReadMelexis, WatchMelexis, input
      <4> QED
          BY <4>1 DEF LiveInv
    <3> QED
        BY <1>3, <3>1, <3>2, <3>3, <3>4 DEF Reader
  <2> QED
      BY <2>2, <2>3
<1>4. CASE Environment
  <2>1. /\ UNCHANGED <<LIVE, rpc, input, buffer, frameN_read, frameN_processed, processed>>
        /\ mpc' \in {mpc, "killed", "exited"}
      BY <1>4 DEF Environment, build, Interrupt, BrownOut
  <2> QED
      BY <2>1 DEF LiveInv, input, Preparing
<1> QED
    BY <1>1, <1>2, <1>3, <1>4 DEF Next

\* From the sensor to process_frame no frame is lost, repeated or overtaken,
\* however large the batches and however small the buffer
\* (GridEyeReader.cpp:241-245, mlxd.cpp:151-152).
THEOREM LiveFramesAreKept == Spec => []NoFrameIsLost
<1>1. LiveInv => NoFrameIsLost
    BY DEF LiveInv, NoFrameIsLost, Frames, Iota
<1> QED
    BY LiveInit, LiveStep, <1>1, PTL DEF Spec
-----------------------------------------------------------------------------
(* The context of libftdi.                                                 *)

\* The inductive invariant: until Ctrl-C has come during the set-up the context
\* is freed only by main on its way out, because sigintHandler is installed
\* only while there is no context yet, or while it is set up.
ContextInv ==
    ~hasty =>
        /\ ~misused
        /\ ftdi = "freed" => Ended
        /\ mpc \in {"start", "new", "init"} => ftdi = "null"
        /\ LIVE /\ disposition = "sigintHandler"
             => mpc \in {"new", "init", "open", "spawn", "restore"} \/ Ended

LEMMA ContextStep == ContextInv /\ [Next]_vars => ContextInv'
<1> SUFFICES ASSUME ContextInv, [Next]_vars PROVE ContextInv'
    OBVIOUS
<1> USE DEF ContextInv, Ended
<1>1. CASE UNCHANGED vars
    BY <1>1 DEF vars, build, device, signals
<1>2. CASE Main
  <2>1. UNCHANGED LIVE /\ (hasty' <=> hasty)
      BY <1>2 DEF Main, build, signals, Install, NewContext, OpenDevice, InitMelexis,
          PrepareMelexis, Spawn, Restore, ReadLine, AddFrame, EndOfFile, Check, ProcessFrame, Leave
  <2>2. CASE Install \/ NewContext \/ Spawn \/ Restore \/ InitMelexis
      BY <2>1, <2>2 DEF Install, NewContext, Spawn, Restore, InitMelexis, device, signals
  <2>3. CASE OpenDevice
      BY <2>1, <2>3 DEF OpenDevice, Use, signals
  <2>4. CASE \E ok \in BOOLEAN : PrepareMelexis(ok)
      BY <2>1, <2>4 DEF PrepareMelexis, device, signals
  <2>5. CASE ReadLine \/ AddFrame \/ EndOfFile \/ Check \/ ProcessFrame
      BY <2>1, <2>5 DEF ReadLine, AddFrame, EndOfFile, Check, ProcessFrame, device, signals
  <2>6. CASE Leave
      BY <2>1, <2>6 DEF Leave, DestroyReader, device, signals
  <2> QED
      BY <1>2, <2>2, <2>3, <2>4, <2>5, <2>6 DEF Main
<1>3. CASE Reader
  <2>1. UNCHANGED <<LIVE, mpc, signals, ftdi>>
      BY <1>3 DEF Reader, build, device, ReadSensor, AddSensorFrame, EndReader, PollMelexis,
          WatchMelexis, ReadMelexis
  <2>2. UNCHANGED misused \/ (Use /\ ~Ended)
      BY <1>3 DEF Reader, device, ReadSensor, AddSensorFrame, EndReader, PollMelexis,
          WatchMelexis, ReadMelexis
  <2> QED
      BY <2>1, <2>2 DEF Use, signals
<1>4. CASE Environment
  <2>1. CASE BrownOut
      BY <1>4, <2>1 DEF Environment, build, BrownOut, device, signals
  <2>2. CASE Interrupt
      BY <1>4, <2>2 DEF Environment, build, Interrupt, DestroyReader, device
  <2> QED
      BY <1>4, <2>1, <2>2 DEF Environment
<1> QED
    BY <1>1, <1>2, <1>3, <1>4 DEF Next

\* A freed libftdi context is used only if Ctrl-C came during the set-up, for
\* any number of Ctrl-C (HotSpotter.cpp:61-65, 255-277).
THEOREM ContextIsSafe == Spec => []OnlyHastyInterruptMisuses
<1>1. Init => ContextInv
    BY DEF Init, ContextInv, Ended
<1>2. ContextInv => OnlyHastyInterruptMisuses
    BY DEF ContextInv, OnlyHastyInterruptMisuses
<1> QED
    BY ContextStep, <1>1, <1>2, PTL DEF Spec
-----------------------------------------------------------------------------
(* The MLX90620.                                                           *)

\* The inductive invariant: unless a brown-out was masked, a chip whose flag is
\* set, or is about to be set, is trimmed; and a frame that is about to be read
\* from an unfit chip has a brown-out or a misread of its own to answer for.
ChipInv ==
    /\ trimmed \in BOOLEAN /\ configured \in BOOLEAN /\ msb \in BOOLEAN /\ masked \in BOOLEAN
    /\ brownOuts \in Nat /\ misreads \in Nat /\ unfit \in Nat
    /\ caller \in {"init", "again", "repair"}
    /\ msb => mlx = "set_hz"
    /\ ~masked =>
        /\ configured \/ msb \/ mlx = "config" => trimmed
        /\ unfit <= brownOuts + misreads
        /\ mlx = "read" /\ ~Melexis!Fit => unfit + 1 <= brownOuts + misreads

LEMMA AfterInitFact ==
    ASSUME caller \in {"init", "again", "repair"}, NEW answer \in BOOLEAN
    PROVE  Melexis!AfterInit(answer) \in {"ta", "failed", "por"}
BY DEF Melexis!AfterInit

LEMMA ChipStep == ChipInv /\ Melexis!Next => ChipInv'
<1> SUFFICES ASSUME ChipInv, Melexis!Next PROVE ChipInv'
    OBVIOUS
<1> USE DEF ChipInv, Melexis!Fit, Melexis!chip, Melexis!history
<1>1. CASE Melexis!Begin \/ Melexis!Poll
    BY <1>1 DEF Melexis!Begin, Melexis!Poll
<1>2. CASE Melexis!BrownOut
  <2>1. masked' \in BOOLEAN /\ (~masked' => ~masked /\ ~msb /\ mlx # "config")
      BY <1>2 DEF Melexis!BrownOut
  <2>2. /\ trimmed' = FALSE /\ configured' = FALSE /\ brownOuts' = brownOuts + 1
        /\ UNCHANGED <<mlx, caller, msb, misreads, unfit>>
      BY <1>2 DEF Melexis!BrownOut
  <2>3. ~masked' => unfit + 1 <= (brownOuts + 1) + misreads
      BY <2>1
  <2>4. brownOuts' \in Nat /\ misreads' \in Nat /\ unfit' \in Nat
      BY <2>2
  <2>5. ~masked' => unfit' + 1 <= brownOuts' + misreads' /\ unfit' <= brownOuts' + misreads'
      BY <2>2, <2>3, <2>4
  <2> QED
      BY <2>1, <2>2, <2>4, <2>5
<1>3. ASSUME NEW ok \in BOOLEAN, Melexis!ReadEEPROM(ok) \/ Melexis!MeasureTa(ok)
      PROVE  ChipInv'
  <2>1. /\ mlx' \notin {"config", "read"} /\ mlx # "set_hz"
        /\ caller' \in {"init", "again", "repair"}
        /\ UNCHANGED <<trimmed, configured, msb, masked, brownOuts, misreads, unfit>>
      BY <1>3, AfterInitFact DEF Melexis!ReadEEPROM, Melexis!MeasureTa
  <2> QED
      BY <2>1
<1>9. ASSUME NEW ok \in BOOLEAN, Melexis!GetHz(ok) PROVE ChipInv'
    BY <1>9, AfterInitFact DEF Melexis!GetHz
<1>4. ASSUME NEW ok \in BOOLEAN, Melexis!WriteTrim(ok) PROVE ChipInv'
  <2>1. /\ mlx' \in {"config", "ta", "failed", "por"} /\ mlx # "set_hz"
        /\ mlx' = "config" => trimmed'
        /\ trimmed => trimmed'
        /\ trimmed' \in BOOLEAN
        /\ UNCHANGED <<configured, caller, msb, masked, brownOuts, misreads, unfit>>
      BY <1>4, AfterInitFact DEF Melexis!WriteTrim
  <2> QED
      BY <2>1
<1>5. ASSUME NEW ok \in BOOLEAN, Melexis!WriteConfig(ok) PROVE ChipInv'
    BY <1>5, AfterInitFact DEF Melexis!WriteConfig
<1>6. ASSUME NEW ok \in BOOLEAN, Melexis!SetHz(ok) PROVE ChipInv'
    BY <1>6, AfterInitFact DEF Melexis!SetHz
<1>7. ASSUME NEW ok \in BOOLEAN, Melexis!ReadFlag(ok) PROVE ChipInv'
    BY <1>7 DEF Melexis!ReadFlag
<1>8. ASSUME NEW ok \in BOOLEAN, Melexis!ReadIR(ok) PROVE ChipInv'
    BY <1>8 DEF Melexis!ReadIR
<1> QED
    BY <1>1, <1>2, <1>3, <1>4, <1>5, <1>6, <1>7, <1>8, <1>9 DEF Melexis!Next, Melexis!Watch, Melexis!Prepare

\* Every step of HotSpotter is one of the sensor and its driver, or leaves them.
LEMMA MelexisStep == [Next]_vars => Melexis!Next \/ UNCHANGED melexis
<1>1. Main => Melexis!Next \/ UNCHANGED melexis
    BY DEF Main, InitMelexis, PrepareMelexis, Melexis!Next, Melexis!Watch
<1>2. Reader => Melexis!Next \/ UNCHANGED melexis
    BY DEF Reader, PollMelexis, WatchMelexis, ReadMelexis, Melexis!Next
<1>3. Environment => Melexis!Next \/ UNCHANGED melexis
    BY DEF Environment, BrownOut, Melexis!Next
<1>4. UNCHANGED vars => UNCHANGED melexis
    BY DEF vars
<1> QED
    BY <1>1, <1>2, <1>3, <1>4 DEF Next

\* A brown-out, or a failed read of the flag, costs one frame at most, unless it
\* is masked by a write of the configuration, for any number of them and of
\* failed transfers (mlxd.cpp:135-139, 204-205, 398-400).
THEOREM FewFramesAreUnfit == Spec => []UnfitFramesAreFew
<1>1. Init => ChipInv
  <2> SUFFICES ASSUME Init PROVE ChipInv
      OBVIOUS
  <2>1. /\ trimmed = FALSE /\ configured = FALSE /\ msb = FALSE /\ masked = FALSE
        /\ mlx = "idle" /\ caller = "init" /\ brownOuts = 0 /\ misreads = 0 /\ unfit = 0
      BY DEF Init, Melexis!Init
  <2>2. unfit <= brownOuts + misreads
      BY <2>1
  <2> QED
      BY <2>1, <2>2 DEF ChipInv
<1>2. ChipInv /\ UNCHANGED melexis => ChipInv'
  <2> SUFFICES ASSUME ChipInv, UNCHANGED melexis PROVE ChipInv'
      OBVIOUS
  <2>1. UNCHANGED <<trimmed, configured, mlx, caller, msb, masked, brownOuts, misreads, unfit>>
      BY DEF melexis
  <2> QED
      BY <2>1 DEF ChipInv, Melexis!Fit
<1>3. ChipInv /\ [Next]_vars => ChipInv'
    BY <1>2, ChipStep, MelexisStep
<1>4. ChipInv => UnfitFramesAreFew
    BY DEF ChipInv, UnfitFramesAreFew, Melexis!UnfitFramesAreFew
<1> QED
    BY <1>1, <1>3, <1>4, PTL DEF Spec
-----------------------------------------------------------------------------
(***************************************************************************)
(* File mode: from the file to process_frame.  The rows read so far are    *)
(* those of the frames processed, then of the frames in the buffer, then   *)
(* of the frame being read; each row is found in the file by the number of *)
(* rows that stand before it.                                              *)
(***************************************************************************)

\* The line after a row has one more row before it.
LEMMA RowCounts ==
    ASSUME NEW s \in Seq(Line), NEW k \in 1..Len(s)
    PROVE  /\ RowsBefore(s, k) \in Nat
           /\ RowsBefore(s, k + 1) = RowsBefore(s, k) + IF IsRow(s[k]) THEN 1 ELSE 0
<1> DEFINE A == {j \in RowsOf(s) : j < k}
           B == {j \in RowsOf(s) : j < k + 1}
<1>1. Len(s) \in Nat /\ DOMAIN s = 1..Len(s)
    OBVIOUS
<1>2. RowsOf(s) \subseteq 1..Len(s)
    BY <1>1 DEF RowsOf
<1>3. IsFiniteSet(A)
  <2>1. IsFiniteSet(1..Len(s)) /\ A \subseteq 1..Len(s)
      BY <1>1, <1>2, FS_Interval
  <2> HIDE DEF A
  <2> QED
      BY <2>1, FS_Subset
<1>4. CASE IsRow(s[k])
  <2>1. B = A \cup {k} /\ k \notin A
      BY <1>1, <1>2, <1>4 DEF RowsOf
  <2> HIDE DEF A, B
  <2>2. Cardinality(A) \in Nat /\ Cardinality(B) = Cardinality(A) + 1
      BY <1>3, <2>1, FS_AddElement, FS_CardinalityType
  <2> QED
      BY <1>4, <2>2 DEF RowsBefore, A, B
<1>5. CASE ~IsRow(s[k])
  <2>1. B = A
      BY <1>1, <1>2, <1>5 DEF RowsOf
  <2> HIDE DEF A, B
  <2>2. Cardinality(A) \in Nat /\ Cardinality(B) = Cardinality(A)
      BY <1>3, <2>1, FS_CardinalityType
  <2> QED
      BY <1>5, <2>2 DEF RowsBefore, A, B
<1> QED
    BY <1>4, <1>5

\* Frame number i of the file.
IsFrameOf(f, s, i) == f \in Seq(Line) /\ Len(f) = Rows /\ HoldsRows(f, s, Rows * (i - 1))

Call == [number : Int, frame : Seq(Line)]

\* Where main is in file mode.
FileSteps == {"start", "line", "add", "check", "remove", "leave",
              "exited", "returned", "terminated", "killed"}

\* Frames that have been read and are complete.
Complete == Len(processed) + Len(buffer)

NumbersOK ==
    /\ frameN_processed \in Nat
    /\ Len(processed) = 0 => frameN_processed <= START_FRAME
    /\ Len(processed) # 0 => frameN_processed = START_FRAME + Len(processed)
    /\ mpc = "remove" => frameN_processed >= START_FRAME
    /\ \A i \in 1..Len(processed) : processed[i].number = START_FRAME + i - 1

FramesOK ==
    /\ \A i \in 1..Len(processed) : IsFrameOf(processed[i].frame, file, i)
    /\ \A i \in 1..Len(buffer) : IsFrameOf(buffer[i], file, Len(processed) + i)

PartialOK ==
    /\ partial \in Seq(Line)
    /\ mpc = "add" => Len(partial) = Rows
    /\ HoldsRows(partial, file, Rows * Complete)

ReadingOK ==
    /\ file \in Seq(Line) \cup {Missing}
    /\ lineN \in Nat \ {0}
    /\ file # Missing /\ lineN <= Len(file)
         => RowsBefore(file, lineN) = Rows * Complete + Len(partial)

FileInv ==
    ~LIVE =>
        /\ mpc \in FileSteps /\ rpc = "none"
        /\ processed \in Seq(Call) /\ buffer \in Seq(Seq(Line))
        /\ NumbersOK /\ FramesOK /\ PartialOK /\ ReadingOK

LEMMA FileInit == Init => FileInv
<1> SUFFICES ASSUME Init, ~LIVE PROVE FileInv
    BY DEF FileInv
<1>1. /\ mpc = "start" /\ rpc = "none" /\ partial = <<>> /\ buffer = <<>> /\ processed = <<>>
      /\ frameN_processed = 0 /\ lineN = 1 /\ file \in Seq(Line) \cup {Missing}
    BY HotSpotterAssumption DEF Init
<1>2. Len(<<>>) = 0
    OBVIOUS
<1>3. NumbersOK
    BY <1>1, <1>2, HotSpotterAssumption DEF NumbersOK
<1>4. FramesOK
    BY <1>1, <1>2 DEF FramesOK
<1>5. PartialOK
    BY <1>1, <1>2 DEF PartialOK, HoldsRows
<1>6. ReadingOK
  <2>1. Rows * Complete + Len(partial) = 0
      BY <1>1, <1>2, HotSpotterAssumption DEF Complete
  <2>2. ASSUME file # Missing PROVE RowsBefore(file, 1) = 0
    <3>1. {j \in RowsOf(file) : j < 1} = {}
      <4>1. file \in Seq(Line)
          BY <1>1, <2>2
      <4>2. DOMAIN file \subseteq Nat \ {0}
          BY <4>1
      <4> QED
          BY <4>2 DEF RowsOf
    <3> QED
        BY <3>1, FS_EmptySet DEF RowsBefore
  <2> QED
      BY <1>1, <2>1, <2>2 DEF ReadingOK
<1>7. processed \in Seq(Call) /\ buffer \in Seq(Seq(Line))
    BY <1>1
<1> QED
    BY <1>1, <1>3, <1>4, <1>5, <1>6, <1>7 DEF FileInv, FileSteps

\* One more line.
LEMMA ReadLineStep ==
    ASSUME FileInv, ~LIVE, UNCHANGED LIVE, ReadLine
    PROVE  FileInv'
<1> DEFINE line == file[lineN]
           n == Rows * Complete
<1>1. /\ mpc = "line" /\ file # Missing /\ lineN <= Len(file) /\ lineN' = lineN + 1
      /\ partial' = IF IsRow(line) THEN Append(partial, line) ELSE partial
      /\ mpc' = IF Len(partial') = Rows THEN "add" ELSE "line"
      /\ UNCHANGED <<rpc, file, buffer, frameN_processed, processed>>
    BY DEF ReadLine
<1>2. /\ file \in Seq(Line) /\ lineN \in Nat \ {0} /\ partial \in Seq(Line)
      /\ RowsBefore(file, lineN) = n + Len(partial)
      /\ HoldsRows(partial, file, n)
    BY <1>1 DEF FileInv, ReadingOK, PartialOK
<1>3. lineN \in 1..Len(file) /\ line \in Line /\ DOMAIN file = 1..Len(file)
  <2> HIDE DEF line
  <2>1. Len(file) \in Nat /\ DOMAIN file = 1..Len(file)
      BY <1>2
  <2>2. lineN \in 1..Len(file)
      BY <1>1, <1>2, <2>1
  <2> QED
      BY <1>2, <2>1, <2>2 DEF line
<1>4. n \in Nat
  <2>1. Len(processed) \in Nat /\ Len(buffer) \in Nat
      BY DEF FileInv
  <2>2. Complete \in Nat /\ Rows \in Nat
      BY <2>1, HotSpotterAssumption DEF Complete
  <2> QED
      BY <2>2
<1>5. Complete' = Complete
    BY <1>1 DEF Complete
<1>6. /\ RowsBefore(file, lineN) \in Nat
      /\ RowsBefore(file, lineN + 1) = RowsBefore(file, lineN) + IF IsRow(line) THEN 1 ELSE 0
    BY <1>2, <1>3, RowCounts
<1> HIDE DEF line, n
<1>7. /\ partial' \in Seq(Line)
      /\ Len(partial') = Len(partial) + IF IsRow(line) THEN 1 ELSE 0
      /\ Len(partial) \in Nat
    BY <1>1, <1>2, <1>3
<1>8. HoldsRows(partial', file, n)
  <2>1. CASE ~IsRow(line)
      BY <1>1, <1>2, <2>1
  <2>2. CASE IsRow(line)
    <3> SUFFICES ASSUME NEW r \in 1..Len(partial')
                 PROVE  \E k \in RowsOf(file) : partial'[r] = file[k]
                                                /\ RowsBefore(file, k) = n + r - 1
        BY DEF HoldsRows
    <3>1. partial' = Append(partial, line) /\ Len(partial') = Len(partial) + 1
        BY <1>1, <1>7, <2>2
    <3>2. CASE r = Len(partial) + 1
      <4>1. partial'[r] = line
          BY <1>2, <1>3, <3>1, <3>2
      <4>2. lineN \in RowsOf(file) /\ line = file[lineN]
          BY <1>3, <2>2 DEF RowsOf, line
      <4>3. RowsBefore(file, lineN) = n + r - 1
          BY <1>2, <1>4, <1>7, <3>2
      <4> QED
          BY <4>1, <4>2, <4>3
    <3>3. CASE r # Len(partial) + 1
      <4>1. r \in 1..Len(partial)
          BY <1>7, <3>1, <3>3
      <4>2. partial'[r] = partial[r]
          BY <1>2, <1>3, <3>1, <4>1
      <4> QED
          BY <1>2, <4>1, <4>2 DEF HoldsRows
    <3> QED
        BY <3>2, <3>3
  <2> QED
      BY <2>1, <2>2
<1>9. PartialOK'
    BY <1>1, <1>5, <1>7, <1>8 DEF PartialOK, n
<1>10. ReadingOK'
  <2>1. RowsBefore(file, lineN + 1) = n + Len(partial')
      BY <1>2, <1>4, <1>6, <1>7
  <2> QED
      BY <1>1, <1>2, <1>5, <2>1 DEF ReadingOK, n
<1>11. NumbersOK' /\ FramesOK'
    BY <1>1 DEF FileInv, NumbersOK, FramesOK
<1> QED
    BY <1>1, <1>9, <1>10, <1>11 DEF FileInv, FileSteps

\* A frame goes into the buffer.
LEMMA AddFrameStep ==
    ASSUME FileInv, ~LIVE, UNCHANGED LIVE, AddFrame
    PROVE  FileInv'
<1>1. /\ mpc = "add" /\ buffer' = Append(buffer, partial) /\ partial' = <<>> /\ mpc' = "line"
      /\ UNCHANGED <<rpc, file, lineN, frameN_processed, processed>>
    BY DEF AddFrame
<1>2. /\ partial \in Seq(Line) /\ Len(partial) = Rows /\ buffer \in Seq(Seq(Line))
      /\ processed \in Seq(Call) /\ HoldsRows(partial, file, Rows * Complete)
    BY <1>1 DEF FileInv, PartialOK
<1>3. /\ buffer' \in Seq(Seq(Line)) /\ Len(buffer') = Len(buffer) + 1 /\ Len(buffer) \in Nat
      /\ Len(processed) \in Nat /\ Rows \in Nat
      /\ buffer'[Len(buffer) + 1] = partial
      /\ \A i \in 1..Len(buffer) : buffer'[i] = buffer[i]
    BY <1>1, <1>2, HotSpotterAssumption
<1>4. Complete' = Complete + 1 /\ Complete \in Nat
    BY <1>1, <1>3 DEF Complete
<1>5. Rows * Complete' = Rows * Complete + Rows
    BY <1>3, <1>4
<1>6. FramesOK'
  <2>1. ASSUME NEW i \in 1..Len(buffer') PROVE IsFrameOf(buffer'[i], file, Len(processed) + i)
    <3>1. CASE i = Len(buffer) + 1
      <4>1. (Len(processed) + i) - 1 = Complete
          BY <1>3, <3>1 DEF Complete
      <4>2. buffer'[i] = partial
          BY <1>3, <3>1
      <4> QED
          BY <1>2, <4>1, <4>2 DEF IsFrameOf
    <3>2. CASE i # Len(buffer) + 1
      <4>1. i \in 1..Len(buffer)
          BY <1>3, <3>2
      <4> QED
          BY <1>3, <4>1 DEF FileInv, FramesOK
    <3> QED
        BY <3>1, <3>2
  <2> QED
      BY <1>1, <2>1 DEF FileInv, FramesOK
<1>7. PartialOK'
    BY <1>1 DEF PartialOK, HoldsRows
<1>8. ReadingOK'
  <2>1. Len(partial) = Rows /\ Len(partial') = 0
      BY <1>1, <1>2
  <2>2. Rows * Complete' + Len(partial') = Rows * Complete + Len(partial)
      BY <1>3, <1>4, <1>5, <2>1
  <2> QED
      BY <1>1, <2>2 DEF FileInv, ReadingOK
<1>9. NumbersOK'
    BY <1>1 DEF FileInv, NumbersOK
<1> QED
    BY <1>1, <1>3, <1>6, <1>7, <1>8, <1>9 DEF FileInv, FileSteps

\* A frame is processed.
LEMMA ProcessFrameStep ==
    ASSUME FileInv, ~LIVE, UNCHANGED LIVE, ProcessFrame
    PROVE  FileInv'
<1> DEFINE call == [number |-> frameN_processed, frame |-> Head(buffer)]
           p == Len(processed)
<1>1. /\ mpc = "remove" /\ buffer # <<>> /\ processed' = Append(processed, call)
      /\ buffer' = Tail(buffer) /\ frameN_processed' = frameN_processed + 1 /\ mpc' = "check"
      /\ UNCHANGED <<rpc, file, lineN, partial>>
    BY DEF ProcessFrame, input
<1>2. /\ buffer \in Seq(Seq(Line)) /\ processed \in Seq(Call) /\ frameN_processed \in Nat
    BY DEF FileInv, NumbersOK
<1>3. /\ Len(buffer) \in Nat \ {0} /\ Head(buffer) = buffer[1] /\ Head(buffer) \in Seq(Line)
      /\ Tail(buffer) \in Seq(Seq(Line)) /\ Len(Tail(buffer)) = Len(buffer) - 1
      /\ \A i \in 1..Len(buffer) - 1 : Tail(buffer)[i] = buffer[i + 1]
    BY <1>1, <1>2
<1>4. call \in Call /\ call.frame = buffer[1] /\ call.number = frameN_processed
    BY <1>2, <1>3 DEF Call
<1> HIDE DEF call
<1>5. /\ processed' \in Seq(Call) /\ Len(processed') = p + 1 /\ p \in Nat
      /\ processed'[p + 1] = call /\ \A i \in 1..p : processed'[i] = processed[i]
    BY <1>1, <1>2, <1>4
<1>6. Complete' = Complete
    BY <1>1, <1>3, <1>5 DEF Complete
<1>7. FramesOK'
  <2>1. ASSUME NEW i \in 1..p + 1 PROVE IsFrameOf(processed'[i].frame, file, i)
    <3>1. CASE i = p + 1
      <4>1. IsFrameOf(buffer[1], file, p + 1)
          BY <1>3 DEF FileInv, FramesOK
      <4> QED
          BY <1>4, <1>5, <3>1, <4>1
    <3>2. CASE i # p + 1
      <4>1. i \in 1..p
          BY <1>5, <3>2
      <4> QED
          BY <1>5, <4>1 DEF FileInv, FramesOK
    <3> QED
        BY <3>1, <3>2
  <2>2. ASSUME NEW i \in 1..Len(buffer) - 1 PROVE IsFrameOf(buffer'[i], file, (p + 1) + i)
    <3>1. i + 1 \in 1..Len(buffer) /\ p + (i + 1) = (p + 1) + i
        BY <1>3, <1>5
    <3>2. IsFrameOf(buffer[i + 1], file, p + (i + 1))
        BY <3>1 DEF FileInv, FramesOK
    <3> QED
        BY <1>1, <1>3, <3>1, <3>2
  <2>3. Len(buffer') = Len(buffer) - 1
      BY <1>1, <1>3
  <2> HIDE DEF p
  <2> QED
      BY <1>1, <1>5, <2>1, <2>2, <2>3 DEF FramesOK
<1>8. frameN_processed = START_FRAME + p
    BY <1>1, <1>2, <1>5, HotSpotterAssumption DEF FileInv, NumbersOK
<1>9. NumbersOK'
  <2>1. ASSUME NEW i \in 1..p + 1 PROVE processed'[i].number = START_FRAME + i - 1
    <3>1. CASE i = p + 1
        BY <1>4, <1>5, <1>8, <3>1, HotSpotterAssumption
    <3>2. CASE i # p + 1
      <4>1. i \in 1..p
          BY <1>5, <3>2
      <4> QED
          BY <1>5, <4>1 DEF FileInv, NumbersOK
    <3> QED
        BY <3>1, <3>2
  <2> HIDE DEF p
  <2>2. START_FRAME \in Nat
      BY HotSpotterAssumption
  <2>3. frameN_processed' = frameN_processed + 1
      BY <1>1, <1>2
  <2>4. frameN_processed' = START_FRAME + (p + 1) /\ p + 1 # 0 /\ frameN_processed' \in Nat
      BY <1>5, <1>8, <2>2, <2>3
  <2> QED
      BY <1>1, <1>5, <2>1, <2>4 DEF NumbersOK
<1>10. PartialOK' /\ ReadingOK'
    BY <1>1, <1>6 DEF FileInv, PartialOK, ReadingOK
<1>11. buffer' \in Seq(Seq(Line))
    BY <1>1, <1>3
<1> QED
    BY <1>1, <1>5, <1>7, <1>9, <1>10, <1>11 DEF FileInv, FileSteps

LEMMA FileStep == FileInv /\ [Next]_vars => FileInv'
<1> SUFFICES ASSUME FileInv, [Next]_vars PROVE FileInv'
    OBVIOUS
<1>1. UNCHANGED LIVE
    BY DEF Next, Main, Reader, Environment, build, vars
<1>2. CASE LIVE
    BY <1>1, <1>2 DEF FileInv
<1>3. CASE ~LIVE
  <2>1. mpc \in FileSteps /\ rpc = "none"
      BY <1>3 DEF FileInv
\* Steps that leave the frames alone.
  <2>2. ASSUME UNCHANGED <<rpc, file, lineN, partial, buffer, frameN_processed, processed>>,
               mpc' \in FileSteps \ {"add", "remove"}
        PROVE  FileInv'
      BY <1>1, <1>3, <2>2 DEF FileInv, NumbersOK, FramesOK, PartialOK, ReadingOK, Complete
  <2>3. CASE UNCHANGED vars
      BY <1>3, <2>3 DEF vars, build, input, FileInv, NumbersOK, FramesOK, PartialOK, ReadingOK,
          Complete
  <2>4. CASE Main
    <3>1. CASE ReadLine
        BY <1>1, <1>3, <3>1, ReadLineStep
    <3>2. CASE AddFrame
        BY <1>1, <1>3, <3>2, AddFrameStep
    <3>3. CASE ProcessFrame
        BY <1>1, <1>3, <3>3, ProcessFrameStep
    <3>4. CASE EndOfFile
      <4>1. /\ lineN > Len(file) /\ partial' = <<>> /\ mpc' \in {"check", "line"}
            /\ UNCHANGED <<rpc, file, lineN, buffer, frameN_processed, processed>>
          BY <3>4 DEF EndOfFile
      <4>2. PartialOK'
          BY <4>1 DEF PartialOK, HoldsRows
      <4>3. ReadingOK'
        <5>1. file # Missing => Len(file) \in Nat
            BY <1>3 DEF FileInv, ReadingOK
        <5> QED
            BY <1>3, <4>1, <5>1 DEF FileInv, ReadingOK
      <4>4. NumbersOK' /\ FramesOK'
          BY <1>3, <4>1 DEF FileInv, NumbersOK, FramesOK
      <4> QED
          BY <1>1, <1>3, <4>1, <4>2, <4>3, <4>4 DEF FileInv, FileSteps
    <3>5. CASE Check
      <4>1. /\ mpc = "check" /\ mpc' \in {"leave", "check", "remove"}
            /\ UNCHANGED <<rpc, file, lineN, partial, buffer, processed>>
            /\ \/ frameN_processed' = frameN_processed /\ mpc' # "remove"
               \/ /\ frameN_processed < START_FRAME /\ mpc' # "remove"
                  /\ frameN_processed' = frameN_processed + 1
               \/ frameN_processed' = frameN_processed /\ frameN_processed >= START_FRAME
          BY <1>3, <3>5 DEF Check, input
      <4>2. Len(processed) \in Nat
          BY <1>3 DEF FileInv
      <4>3. NumbersOK'
          BY <1>3, <4>1, <4>2, HotSpotterAssumption DEF FileInv, NumbersOK
      <4>4. FramesOK' /\ PartialOK' /\ ReadingOK'
          BY <1>3, <4>1 DEF FileInv, FramesOK, PartialOK, ReadingOK, Complete
      <4> QED
          BY <1>1, <1>3, <4>1, <4>3, <4>4 DEF FileInv, FileSteps
    <3>6. CASE Install \/ Leave
        BY <1>3, <2>2, <3>6 DEF Install, Leave, input, FileSteps
    <3>7. ASSUME \/ NewContext \/ OpenDevice \/ Spawn \/ Restore \/ InitMelexis
                 \/ \E ok \in BOOLEAN : PrepareMelexis(ok)
          PROVE  FALSE
        BY <2>1, <3>7 DEF NewContext, OpenDevice, Spawn, Restore, InitMelexis, PrepareMelexis, FileSteps
    <3> QED
        BY <2>4, <3>1, <3>2, <3>3, <3>4, <3>5, <3>6, <3>7 DEF Main
  <2>5. ASSUME Reader PROVE FALSE
      BY <2>1, <2>5 DEF Reader, ReadSensor, AddSensorFrame, EndReader, PollMelexis, WatchMelexis,
          ReadMelexis
  <2>6. CASE Environment
    <3>1. /\ UNCHANGED <<rpc, file, lineN, partial, buffer, frameN_processed, processed>>
          /\ mpc' = mpc \/ mpc' \in {"killed", "exited"}
        BY <2>6 DEF Environment, Interrupt, BrownOut, input
    <3>2. CASE mpc' = mpc
        BY <1>1, <1>3, <3>1, <3>2 DEF FileInv, NumbersOK, FramesOK, PartialOK, ReadingOK, Complete
    <3>3. CASE mpc' \in {"killed", "exited"}
        BY <2>2, <3>1, <3>3 DEF FileSteps
    <3> QED
        BY <3>1, <3>2, <3>3
  <2> QED
      BY <2>3, <2>4, <2>5, <2>6 DEF Next
<1> QED
    BY <1>2, <1>3

\* What process_frame gets are the rows of the file, Rows at a time, numbered
\* from START_FRAME, for any file, buffer and number of Ctrl-C
\* (GridEyeReader.cpp:146-178, mlxd.cpp:499-527).
THEOREM FileFramesAreKept == Spec => []FramesAreThoseOfTheFile
<1>1. FileInv => FramesAreThoseOfTheFile
  <2> SUFFICES ASSUME FileInv, ~LIVE, NEW i \in DOMAIN processed
               PROVE  /\ processed[i].number = START_FRAME + i - 1
                      /\ Len(processed[i].frame) = Rows
                      /\ HoldsRows(processed[i].frame, file, Rows * (i - 1))
      BY DEF FramesAreThoseOfTheFile
  <2>1. i \in 1..Len(processed)
      BY DEF FileInv
  <2> QED
      BY <2>1 DEF FileInv, NumbersOK, FramesOK, IsFrameOf
<1> QED
    BY FileInit, FileStep, <1>1, PTL DEF Spec
-----------------------------------------------------------------------------
(***************************************************************************)
(* Types.  That the buffer never holds more than size_ frames, that a      *)
(* frame has at most Rows rows and that no frame beyond the last is read   *)
(* need to know which thread adds frames in which mode.                    *)
(***************************************************************************)

Mains == {"start", "new", "open", "init", "i2c", "spawn", "restore", "line", "add", "check",
          "remove", "leave", "exited", "returned", "terminated", "killed"}

\* The numbers of the frames the sensor delivers.
Numbers == 1..MaxFrames

ChipTypes ==
    /\ trimmed \in BOOLEAN /\ configured \in BOOLEAN /\ msb \in BOOLEAN /\ masked \in BOOLEAN
    /\ mlx \in {"idle", "eeprom", "trim", "config", "get_hz", "set_hz", "ta", "ready", "failed",
                "por", "read"}
    /\ caller \in {"init", "again", "repair"}
    /\ ta \in {"none", "right", "high", "wrong"}
    /\ brownOuts \in Nat /\ misreads \in Nat /\ unfit \in Nat

SignalTypes ==
    /\ exitRequested \in BOOLEAN /\ disposition \in {"SIG_DFL", "sigintHandler", "got_sigint"}
    /\ ftdi \in {"null", "new", "open", "freed"}
    /\ misused \in BOOLEAN /\ hasty \in BOOLEAN
    /\ interrupts \in 0..MaxInterrupts

FrameTypes ==
    /\ mpc \in Mains /\ rpc \in {"none", "loop", "i2c", "add", "ended"}
    /\ file \in Seq(Line) \cup {Missing} /\ lineN \in Nat \ {0}
    /\ partial \in Seq(Line) /\ Len(partial) <= Rows
    /\ mpc \in {"start", "line"} => Len(partial) < Rows
    /\ batch \in Seq(Numbers)
    /\ rpc = "i2c" => frameN_read < MaxFrames
    /\ Len(buffer) <= size_

LEMMA ChipTypesStep == ChipTypes /\ [Next]_vars => ChipTypes'
<1> SUFFICES ASSUME ChipTypes, [Next]_vars PROVE ChipTypes'
    OBVIOUS
<1> USE DEF ChipTypes, Melexis!chip, Melexis!history
<1>1. CASE UNCHANGED melexis
    BY <1>1 DEF melexis
<1>2. CASE Melexis!Begin \/ Melexis!Poll
    BY <1>2 DEF Melexis!Begin, Melexis!Poll
<1>7. CASE Melexis!BrownOut
  <2>1. masked' \in BOOLEAN
      BY <1>7 DEF Melexis!BrownOut
  <2>2. brownOuts' \in Nat /\ trimmed' = FALSE /\ configured' = FALSE
      BY <1>7 DEF Melexis!BrownOut
  <2>3. UNCHANGED <<mlx, caller, msb, ta, misreads, unfit>>
      BY <1>7 DEF Melexis!BrownOut
  <2> QED
      BY <2>1, <2>2, <2>3
<1>3. ASSUME NEW ok \in BOOLEAN, Melexis!ReadEEPROM(ok) \/ Melexis!WriteTrim(ok) PROVE ChipTypes'
    BY <1>3, AfterInitFact DEF Melexis!ReadEEPROM, Melexis!WriteTrim
<1>4. ASSUME NEW ok \in BOOLEAN, Melexis!WriteConfig(ok) \/ Melexis!GetHz(ok) PROVE ChipTypes'
    BY <1>4, AfterInitFact DEF Melexis!WriteConfig, Melexis!GetHz
<1>5. ASSUME NEW ok \in BOOLEAN, Melexis!SetHz(ok) \/ Melexis!MeasureTa(ok) PROVE ChipTypes'
    BY <1>5, AfterInitFact DEF Melexis!SetHz, Melexis!MeasureTa
<1>6. ASSUME NEW ok \in BOOLEAN, Melexis!ReadFlag(ok) \/ Melexis!ReadIR(ok) PROVE ChipTypes'
    BY <1>6 DEF Melexis!ReadFlag, Melexis!ReadIR
<1> QED
    BY <1>1, <1>2, <1>3, <1>4, <1>5, <1>6, <1>7, MelexisStep
    DEF Melexis!Next, Melexis!Watch, Melexis!Prepare

LEMMA SignalTypesStep == SignalTypes /\ [Next]_vars => SignalTypes'
<1> SUFFICES ASSUME SignalTypes, [Next]_vars PROVE SignalTypes'
    OBVIOUS
<1> USE DEF SignalTypes, device, signals
<1>1. CASE UNCHANGED vars
    BY <1>1 DEF vars
<1>2. CASE Install \/ NewContext \/ Spawn \/ Restore \/ InitMelexis
    BY <1>2 DEF Install, NewContext, Spawn, Restore, InitMelexis
<1>3. CASE OpenDevice
    BY <1>3 DEF OpenDevice, Use
<1>4. CASE \/ ReadLine \/ AddFrame \/ EndOfFile \/ Check \/ ProcessFrame
           \/ \E ok \in BOOLEAN : PrepareMelexis(ok)
    BY <1>4 DEF ReadLine, AddFrame, EndOfFile, Check, ProcessFrame, PrepareMelexis
<1>5. CASE Leave
    BY <1>5 DEF Leave, DestroyReader
<1>6. CASE Reader
  <2>1. CASE ReadSensor
      BY <2>1 DEF ReadSensor, Use
  <2>2. CASE ~ReadSensor
      BY <1>6, <2>2 DEF Reader, AddSensorFrame, EndReader, PollMelexis, WatchMelexis, ReadMelexis
  <2> QED
      BY <2>1, <2>2
<1>7. CASE BrownOut
    BY <1>7 DEF BrownOut
<1>8. CASE Interrupt
  <2>1. interrupts' \in 0..MaxInterrupts
      BY <1>8, HotSpotterAssumption DEF Interrupt
  <2> QED
      BY <1>8, <2>1 DEF Interrupt, DestroyReader
<1> QED
    BY <1>1, <1>2, <1>3, <1>4, <1>5, <1>6, <1>7, <1>8 DEF Next, Main, Environment

\* Steps of main.
LEMMA MainTypes ==
    ASSUME FrameTypes, LiveInv, FileInv, Main
    PROVE  FrameTypes'
<1> USE DEF FrameTypes, input, Mains
<1>1. Rows \in Nat \ {0} /\ size_ \in Nat \ {0}
    BY HotSpotterAssumption
<1>2. Len(<<>>) = 0 /\ <<>> \in Seq(Line)
    OBVIOUS
<1>3. LIVE => mpc \notin {"line", "add"}
    BY DEF LiveInv
<1>4. ~LIVE => rpc = "none" /\ buffer \in Seq(Seq(Line))
    BY DEF FileInv
<1>5. CASE Install
    BY <1>5 DEF Install
<1>6. CASE NewContext \/ OpenDevice \/ Restore \/ Leave \/ InitMelexis
           \/ \E ok \in BOOLEAN : PrepareMelexis(ok)
    BY <1>6 DEF NewContext, OpenDevice, Restore, Leave, InitMelexis, PrepareMelexis
<1>7. CASE Spawn
    BY <1>7 DEF Spawn
<1>8. CASE ReadLine
  <2>1. file \in Seq(Line) /\ lineN \in 1..Len(file) /\ Len(partial) < Rows /\ lineN + 1 \in Nat \ {0}
      BY <1>8 DEF ReadLine
  <2>2. file[lineN] \in Line
      BY <2>1
  <2>3. /\ lineN' = lineN + 1
        /\ partial' = (IF IsRow(file[lineN]) THEN Append(partial, file[lineN]) ELSE partial)
        /\ mpc' = IF Len(partial') = Rows THEN "add" ELSE "line"
        /\ UNCHANGED <<rpc, file, batch, buffer, frameN_read>>
      BY <1>8 DEF ReadLine
  <2>4. partial' \in Seq(Line) /\ Len(partial') <= Len(partial) + 1
      BY <2>2, <2>3
  <2>5. Len(partial') \in Nat /\ Len(partial) \in Nat
      BY <2>4
  <2> QED
      BY <1>1, <2>1, <2>3, <2>4, <2>5
<1>9. CASE AddFrame
    BY <1>1, <1>2, <1>3, <1>4, <1>9 DEF AddFrame
<1>10. CASE EndOfFile
    BY <1>1, <1>2, <1>3, <1>4, <1>10 DEF EndOfFile
<1>11. CASE Check
    BY <1>11 DEF Check
<1>12. CASE ProcessFrame
  <2>1. \E S : buffer \in Seq(S)
      BY <1>4 DEF LiveInv
  <2>2. buffer # <<>> /\ buffer' = Tail(buffer)
      BY <1>12 DEF ProcessFrame
  <2>3. Len(buffer') <= size_
      BY <1>1, <2>1, <2>2
  <2> QED
      BY <1>12, <2>3 DEF ProcessFrame
<1> QED
    BY <1>5, <1>6, <1>7, <1>8, <1>9, <1>10, <1>11, <1>12 DEF Main

\* Steps of the reader thread, which there is only in live mode.
LEMMA ReaderTypes ==
    ASSUME FrameTypes, LiveInv, FileInv, Reader
    PROVE  FrameTypes'
<1> USE DEF FrameTypes, input, Mains
<1>1. MaxFrames \in Nat /\ size_ \in Nat \ {0} /\ frameN_read \in Nat
    BY HotSpotterAssumption DEF LiveInv
<1>2. rpc # "none"
    BY DEF Reader, ReadSensor, AddSensorFrame, EndReader, PollMelexis, WatchMelexis, ReadMelexis
<1>3. LIVE /\ buffer \in Seq(Nat) /\ (rpc = "add" <=> batch # <<>>)
    BY <1>2 DEF LiveInv, FileInv
<1>4. CASE ReadSensor
  <2>1. PICK n \in 0..MaxBatch :
          /\ frameN_read + n <= MaxFrames
          /\ batch' = [k \in 1..n |-> frameN_read + k]
          /\ rpc' = IF n = 0 THEN "loop" ELSE "add"
      BY <1>4 DEF ReadSensor
  <2>2. n \in Nat
      BY HotSpotterAssumption
  <2>3. batch' \in Seq(Numbers)
    <3>1. batch' \in [1..n -> Numbers]
        BY <1>1, <2>1, <2>2 DEF Numbers
    <3> QED
        BY <2>2, <3>1
  <2> QED
      BY <1>4, <2>1, <2>3 DEF ReadSensor
<1>5. CASE AddSensorFrame
  <2>1. /\ rpc = "add" /\ Len(buffer) < size_
        /\ buffer' = Append(buffer, Head(batch)) /\ batch' = Tail(batch)
        /\ rpc' \in {"loop", "add"}
        /\ UNCHANGED <<mpc, file, lineN, partial>>
      BY <1>5 DEF AddSensorFrame
  <2>2. batch # <<>> /\ Head(batch) \in Numbers /\ Tail(batch) \in Seq(Numbers)
      BY <1>3, <2>1
  <2>3. Len(buffer') = Len(buffer) + 1 /\ Len(buffer) \in Nat
      BY <1>3, <2>1
  <2>4. Len(buffer') <= size_
      BY <1>1, <2>1, <2>3
  <2> QED
      BY <2>1, <2>2, <2>4
<1>6. CASE EndReader \/ PollMelexis \/ \E ok \in BOOLEAN : WatchMelexis(ok)
    BY <1>6 DEF EndReader, PollMelexis, WatchMelexis
<1>7. ASSUME NEW ok \in BOOLEAN, ReadMelexis(ok) PROVE FrameTypes'
  <2>1. frameN_read + 1 \in Numbers
      BY <1>1, <1>7 DEF ReadMelexis, Numbers
  <2>2. /\ IF ok THEN batch' = <<frameN_read + 1>> /\ rpc' = "add"
           ELSE rpc' = "loop" /\ UNCHANGED batch
        /\ UNCHANGED <<mpc, file, lineN, partial, buffer>>
      BY <1>7 DEF ReadMelexis
  <2>3. batch' \in Seq(Numbers)
    <3>1. ASSUME NEW x \in Numbers PROVE <<x>> \in Seq(Numbers)
        OBVIOUS
    <3> QED
        BY <2>1, <2>2, <3>1
  <2> QED
      BY <2>2, <2>3
<1> QED
    BY <1>4, <1>5, <1>6, <1>7 DEF Reader

LEMMA FrameTypesStep ==
    ASSUME FrameTypes, LiveInv, FileInv, [Next]_vars
    PROVE  FrameTypes'
<1>1. CASE UNCHANGED vars
    BY <1>1 DEF vars, input, FrameTypes
<1>2. CASE Environment
    BY <1>2 DEF Environment, Interrupt, BrownOut, FrameTypes, input, Mains
<1> QED
    BY <1>1, <1>2, MainTypes, ReaderTypes DEF Next

LEMMA TypesInit == Init => ChipTypes /\ SignalTypes /\ FrameTypes
<1> SUFFICES ASSUME Init PROVE ChipTypes /\ SignalTypes /\ FrameTypes
    OBVIOUS
<1>1. ChipTypes
    BY DEF Init, Melexis!Init, ChipTypes
<1>2. SignalTypes
  <2>1. interrupts \in 0..MaxInterrupts
      BY HotSpotterAssumption DEF Init
  <2>2. /\ exitRequested = FALSE /\ disposition = "SIG_DFL" /\ ftdi = "null"
        /\ misused = FALSE /\ hasty = FALSE
      BY DEF Init
  <2> QED
      BY <2>1, <2>2 DEF SignalTypes
<1>3. FrameTypes
  <2>1. file \in Seq(Line) \cup {Missing}
    <3>1. <<>> \in Seq(Line)
        OBVIOUS
    <3> QED
        BY <3>1, HotSpotterAssumption DEF Init
  <2>2. Len(<<>>) = 0 /\ <<>> \in Seq(Line) /\ <<>> \in Seq(Numbers)
      OBVIOUS
  <2>3. /\ mpc = "start" /\ rpc = "none" /\ lineN = 1
        /\ partial = <<>> /\ batch = <<>> /\ buffer = <<>>
      BY DEF Init
  <2> QED
      BY <2>1, <2>2, <2>3, HotSpotterAssumption DEF FrameTypes, Mains
<1> QED
    BY <1>1, <1>2, <1>3

\* In either mode and with either sensor the buffer never holds more than size_
\* frames and a frame never gets more than Rows rows
\* (GridEyeReader.cpp:146-178, 241-245, mlxd.cpp:499-527).
THEOREM TypeCorrect == Spec => []TypeOK
<1> DEFINE Inv == LiveInv /\ FileInv /\ ChipTypes /\ SignalTypes /\ FrameTypes
<1>1. Init => Inv
    BY LiveInit, FileInit, TypesInit
<1>2. Inv /\ [Next]_vars => Inv'
    BY LiveStep, FileStep, ChipTypesStep, SignalTypesStep, FrameTypesStep
<1>3. Inv => TypeOK
  <2> SUFFICES ASSUME Inv PROVE TypeOK
      OBVIOUS
  <2>1. Melexis!TypeOK
      BY DEF ChipTypes, Melexis!TypeOK
  <2> QED
      BY <2>1 DEF TypeOK, LiveInv, SignalTypes, FrameTypes, Numbers, Mains
<1> QED
    BY <1>1, <1>2, <1>3, PTL DEF Spec
=============================================================================
