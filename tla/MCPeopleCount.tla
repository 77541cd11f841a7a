---------------------------- MODULE MCPeopleCount ----------------------------
(* PeopleCount on small instances.                                          *)
EXTENDS PeopleCount, TLC

BothWays == {-1, 0, 1}
EntriesOnly == {0, 1}
NobodyCrosses == {0}

StampSymmetry == Permutations(Stamps)
=============================================================================
