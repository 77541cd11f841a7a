---------------------------- MODULE MCFrameBuffer ----------------------------
(* FrameBuffer on small instances.                                         *)
EXTENDS FrameBuffer, TLC

CONSTANTS p1, p2, c1, c2, grideye, mlx

\* Two readers and the processor of one buffer, and the processor of the other,
\* whose sensor is silent: it sleeps on the same condition variable.
SilentSensor == p1 :> grideye @@ p2 :> grideye @@ c1 :> grideye @@ c2 :> mlx
=============================================================================
