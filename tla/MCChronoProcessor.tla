------------------------- MODULE MCChronoProcessor -------------------------
(***************************************************************************)
(* ChronoProcessor for TLC: a tick count of six values that starts at 0,   *)
(* so that a SYNC can be handled at tick 0, or one before the wrap; three  *)
(* ticks are half a wrap.                                                  *)
(***************************************************************************)
EXTENDS ChronoProcessor

MCNumbers == {1, 2}
MCDisciplines == {0, 2, 3, 4}
MCOffsets == {1, 3}
MCBoots == {0, 5}
=============================================================================
