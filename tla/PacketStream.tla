---------------------------- MODULE PacketStream ----------------------------
(***************************************************************************)
(* What the connection to the chronometer promises the handlers, with      *)
(* bytes, buffer and thread left out: one connection after another, the    *)
(* packets of each delivered in the order they were sent.  What a          *)
(* connection did not deliver is lost with it, except that the beginning   *)
(* of a packet may be left over: it spoils the first packet of a later     *)
(* connection, and no other.                                               *)
(***************************************************************************)
EXTENDS Naturals, Sequences

VARIABLES conn,        \* number of connections made
          up,          \* TRUE from a connect to the close
          sent,        \* packets sent on this connection
          got,         \* of these, delivered
          left,        \* the beginning of a packet of an earlier one is left
          delivered    \* [conn, nth, whole] in the order of delivery

vars == <<conn, up, sent, got, left, delivered>>

Init ==
    /\ conn = 0 /\ up = FALSE
    /\ sent = 0 /\ got = 0
    /\ left = FALSE
    /\ delivered = <<>>

Connect ==
    /\ ~up
    /\ up' = TRUE
    /\ conn' = conn + 1
    /\ sent' = 0 /\ got' = 0
    /\ UNCHANGED <<left, delivered>>

Send ==
    /\ up
    /\ sent' = sent + 1
    /\ UNCHANGED <<conn, up, got, left, delivered>>

\* The next packet, whole unless something was left in front of it.
Deliver ==
    /\ up
    /\ got < sent
    /\ got' = got + 1
    /\ delivered' = Append(delivered, [conn |-> conn, nth |-> got + 1, whole |-> ~left])
    /\ left' = FALSE
    /\ UNCHANGED <<conn, up, sent>>

\* What was left stays, and a packet that was not delivered may add to it.
Close ==
    /\ up
    /\ up' = FALSE
    /\ left' \in {left, left \/ got < sent}
    /\ UNCHANGED <<conn, sent, got, delivered>>

Next == Connect \/ Send \/ Deliver \/ Close

Spec == Init /\ [][Next]_vars
=============================================================================
