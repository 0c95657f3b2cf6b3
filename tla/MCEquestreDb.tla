---------------------------- MODULE MCEquestreDb ----------------------------
(***************************************************************************)
(* EquestreDb for TLC: two folders; a jumping event and, in another show,  *)
(* an eventing event in dressage, in which the selection of the user       *)
(* counts and the judges may end the client thread.                        *)
(***************************************************************************)
EXTENDS EquestreDb

CONSTANTS f1, f2

MCFolders == {f1, f2}

Jumping  == [event |-> 1, show |-> 1, discipline |-> 0, kind |-> 0]
Dressage == [event |-> 2, show |-> 2, discipline |-> 3, kind |-> 4]

MCCompetitions == {Jumping, Dressage}
MCManuals == {0, 2}
=============================================================================
