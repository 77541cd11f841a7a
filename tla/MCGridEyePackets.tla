-------------------------- MODULE MCGridEyePackets --------------------------
(* GridEyePackets with three temperatures to a frame.                       *)
EXTENDS GridEyePackets

\* Plain frames, one hot reading that is tolerated, readings that are not.
Typical == {<<20, 42, 60>>, <<42, 42, 300>>, <<150, 50, 200>>}
=============================================================================
