------------------------------ MODULE Melexis ------------------------------
(***************************************************************************)
(* The MLX90620 sensor and class MLXD, which drives it over I2C            *)
(* (src/src/mlxd.cpp).  After a loss of supply (brown-out) the chip has    *)
(* forgotten its trim and configuration; bit 2 of the configuration's high *)
(* byte, which a write of the configuration sets and a brown-out clears,   *)
(* tells the driver to write both again.                                   *)
(*                                                                         *)
(* One action per I2C transfer: each may fail, and the chip may brown out  *)
(* between any two.  Left out: the compensation pixel and the arithmetic   *)
(* of temperatures, which change no control; EEPROM[0xF6] is assumed to    *)
(* have bit 2 set, without which readFrameLive would never read a frame.   *)
(*                                                                         *)
(* Whoever composes this module calls Begin (init() of the main thread)    *)
(* and Poll (readFrameLive() of the reader thread), and waits for "ready"  *)
(* or "failed", and for a frame or none.                                   *)
(***************************************************************************)
EXTENDS Naturals

VARIABLES
    trimmed,        \* the chip holds the oscillator trim
    configured,     \* the chip holds the configuration; bit 2
    mlx,            \* the next transfer; idle, ready or failed when there is none
    caller,         \* of mlx90620_init: line 57, 69 or 138
    msb,            \* bit 2 as set_refresh_hz read it, until it writes it back
    ta,             \* the ambient temperature: none, right, high, or wrong and low
    masked,         \* history: a brown-out came while the flag was written back
    brownOuts,      \* history, bounded: how many there were
    misreads,       \* history, bounded: failed reads of the flag taken for a set one
    unfit           \* history: frames read from a chip without trim or configuration

chip == <<trimmed, configured>>
history == <<masked, brownOuts, misreads, unfit>>
vars == <<chip, mlx, caller, msb, ta, history>>

Fit == trimmed /\ configured

Init ==
    /\ trimmed = FALSE /\ configured = FALSE
    /\ mlx = "idle" /\ caller = "init" /\ msb = FALSE /\ ta = "none"
    /\ masked = FALSE /\ brownOuts = 0 /\ misreads = 0 /\ unfit = 0
-----------------------------------------------------------------------------
(* mlx90620_init: five transfers that may fail, and a sixth for logging.   *)

\* mlx90620_init returns; only the first call, in init(), looks at the answer.
AfterInit(answer) ==
    CASE caller = "init" -> IF answer THEN "ta" ELSE "failed"
      [] caller = "again" -> "ta"
      [] caller = "repair" -> "por"

Begin ==
    /\ mlx = "idle"
    /\ mlx' = "eeprom" /\ caller' = "init"
    /\ UNCHANGED <<chip, msb, ta, history>>

ReadEEPROM(ok) ==
    /\ mlx = "eeprom"
    /\ mlx' = IF ok THEN "trim" ELSE AfterInit(FALSE)
    /\ UNCHANGED <<chip, caller, msb, ta, history>>

\* Mutant of WriteTrim: the trim is written once, not after a brown-out.
M_WriteTrimOnce(ok) ==
    /\ mlx = "trim"
    /\ trimmed' = IF ok THEN trimmed \/ caller # "repair" ELSE trimmed
    /\ mlx' = IF ok THEN "config" ELSE AfterInit(FALSE)
    /\ UNCHANGED <<configured, caller, msb, ta, history>>

WriteTrim(ok) ==
    /\ mlx = "trim"
    /\ trimmed' = (trimmed \/ ok)
    /\ mlx' = IF ok THEN "config" ELSE AfterInit(FALSE)
    /\ UNCHANGED <<configured, caller, msb, ta, history>>

WriteConfig(ok) ==
    /\ mlx = "config"
    /\ configured' = (configured \/ ok)
    /\ mlx' = IF ok THEN "get_hz" ELSE AfterInit(FALSE)
    /\ UNCHANGED <<trimmed, caller, msb, ta, history>>

\* mlx90620_set_refresh_hz(64): read the configuration, write it back with
\* another rate.  The answer is not looked at.
GetHz(ok) ==
    /\ mlx = "get_hz"
    /\ msb' = IF ok THEN configured ELSE msb
    /\ mlx' = IF ok THEN "set_hz" ELSE AfterInit(TRUE)
    /\ UNCHANGED <<chip, caller, ta, history>>

SetHz(ok) ==
    /\ mlx = "set_hz"
    /\ configured' = IF ok THEN msb ELSE configured
    /\ msb' = FALSE
    /\ mlx' = AfterInit(TRUE)
    /\ UNCHANGED <<trimmed, caller, ta, history>>
-----------------------------------------------------------------------------
(* The rest of init().                                                     *)

\* mlx90620_ta: an untrimmed chip or a bad EEPROM may give any temperature; a
\* failed read gives ptat 0 and a temperature far too low, or none at all, and
\* that is not greater than 350 either.
MeasureTa(ok) ==
    /\ mlx = "ta"
    /\ ta' \in IF ok THEN {"right", "high"} ELSE {"wrong"}
    /\ IF ta' = "high" THEN mlx' = "eeprom" /\ caller' = "again"
       ELSE mlx' = "ready" /\ UNCHANGED caller
    /\ UNCHANGED <<chip, msb, history>>
-----------------------------------------------------------------------------
(* readFrameLive.                                                          *)

Poll ==
    /\ mlx = "ready"
    /\ mlx' = "por"
    /\ UNCHANGED <<chip, caller, msb, ta, history>>

\* Mutant of ReadFlag: the loop around mlx90620_por and mlx90620_init is missing.
M_ReadFlagNever(ok) ==
    /\ mlx = "por"
    /\ mlx' = "read"
    /\ misreads' = IF ~ok /\ ~configured THEN misreads + 1 ELSE misreads
    /\ UNCHANGED <<chip, caller, msb, ta, masked, brownOuts, unfit>>

\* mlx90620_por: a failed read leaves the bytes it was to fill uninitialized,
\* and the flag may be seen set or not.
ReadFlag(ok) ==
    /\ mlx = "por"
    /\ \E flag \in IF ok THEN {configured} ELSE BOOLEAN :
          /\ IF flag THEN mlx' = "read" /\ UNCHANGED caller
             ELSE mlx' = "eeprom" /\ caller' = "repair"
          /\ misreads' = IF flag /\ ~configured THEN misreads + 1 ELSE misreads
    /\ UNCHANGED <<chip, msb, ta, masked, brownOuts, unfit>>

\* mlx90620_ir_read: a frame, or none when the transfer fails.
ReadIR(ok) ==
    /\ mlx = "read"
    /\ mlx' = "ready"
    /\ unfit' = IF ok /\ ~Fit THEN unfit + 1 ELSE unfit
    /\ UNCHANGED <<chip, caller, msb, ta, masked, brownOuts, misreads>>
-----------------------------------------------------------------------------
\* The transfers of init(), and those of readFrameLive() but the last.
Prepare(ok) ==
    ReadEEPROM(ok) \/ WriteTrim(ok) \/ WriteConfig(ok) \/ GetHz(ok) \/ SetHz(ok) \/ MeasureTa(ok)

Watch(ok) == Prepare(ok) \/ ReadFlag(ok)

\* The supply fails: trim and configuration are lost.
BrownOut ==
    /\ mlx # "idle"
    /\ trimmed' = FALSE /\ configured' = FALSE
    /\ masked' = (masked \/ mlx = "config" \/ (mlx = "set_hz" /\ msb))
    /\ brownOuts' = brownOuts + 1
    /\ UNCHANGED <<mlx, caller, msb, ta, misreads, unfit>>

Next == Begin \/ Poll \/ BrownOut \/ \E ok \in BOOLEAN : Watch(ok) \/ ReadIR(ok)

Spec == Init /\ [][Next]_vars
-----------------------------------------------------------------------------
TypeOK ==
    /\ {trimmed, configured, msb, masked} \subseteq BOOLEAN
    /\ mlx \in {"idle", "eeprom", "trim", "config", "get_hz", "set_hz", "ta", "ready", "failed",
                "por", "read"}
    /\ caller \in {"init", "again", "repair"}
    /\ ta \in {"none", "right", "high", "wrong"}
    /\ {brownOuts, misreads, unfit} \subseteq Nat

\* A brown-out, and a failed read of the flag taken for a set one, costs one
\* frame at most: readFrameLive looks at the flag before each frame and writes
\* trim and configuration again (135-139).  It is masked when it comes while
\* mlx90620_init writes the configuration after the trim, or writes back the
\* configuration it has just read (204-205, 398-400): the flag is then set and
\* the trim lost.
UnfitFramesAreFew == ~masked => unfit <= brownOuts + misreads

\* The flag tells the truth: a chip that says it is configured is trimmed.  A
\* masked brown-out refutes it.
FlagIsTrue == configured => trimmed
=============================================================================
