------------------------- MODULE MCOccupancyCounter -------------------------
(* OccupancyCounter on small instances: a narrow ring and short delays that *)
(* keep the order of the code's constants.                                  *)
EXTENDS OccupancyCounter

Nothing == [side |-> UNKNOWNSIDE, cxs |-> <<>>]
One(side) == [side |-> side, cxs |-> <<3>>]
Two(x, y) == [side |-> UNKNOWNSIDE, cxs |-> <<x, y>>]

\* Nobody, one body on a side or undecided, two bodies: left and right in the
\* order of both contour sizes, both left, both right.
AllScenes == {Nothing, One(LEFTSIDE), One(RIGHTSIDE), One(UNKNOWNSIDE),
              Two(1, 6), Two(6, 1), Two(1, 2), Two(6, 5)}

\* One body always on a known side, two bodies never on the same one.
SidedScenes == AllScenes \ {One(UNKNOWNSIDE), Two(1, 2), Two(6, 5)}
=============================================================================
