--------------------------- MODULE MCDoorwayWalk ---------------------------
(* DoorwayWalk with small delays and windows.  The scenes are those the     *)
(* doorway chooses from.                                                    *)
EXTENDS DoorwayWalk

AllViews == Views
=============================================================================
