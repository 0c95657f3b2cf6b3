----------------------------- MODULE MCWebFeed -----------------------------
(***************************************************************************)
(* WebFeed for TLC: the two producers of the program, one discipline per   *)
(* branch of FlushSendBuffer (one that emits under "push", one under       *)
(* "push_cross", one that emits nothing).                                  *)
(***************************************************************************)
EXTENDS WebFeed

CONSTANTS client, ui

MCProducers == {client, ui}
MCDisciplines == {0, 1, 2}
MCOneDiscipline == {0}
=============================================================================
