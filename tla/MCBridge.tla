------------------------------ MODULE MCBridge ------------------------------
(***************************************************************************)
(* Bridge for TLC.                                                         *)
(***************************************************************************)
EXTENDS Bridge

CONSTANTS client, ui

MCProducers == {client, ui}
MCOneDiscipline == {0}
=============================================================================
