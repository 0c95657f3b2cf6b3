---------------------------- MODULE FeedChannel ----------------------------
(***************************************************************************)
(* What the outgoing half of the bridge promises, with threads, mutex and  *)
(* flags left out: a channel that is opened and closed in sessions.  Each  *)
(* session begins by forgetting whatever was pending.  A pending message   *)
(* is delivered in the order of acceptance, at most once, or is lost, and  *)
(* only an open channel delivers or loses a single message.                *)
(***************************************************************************)
EXTENDS Naturals, Sequences

CONSTANTS Messages,    \* what can be accepted
          Channels     \* the event names a message can be delivered under

VARIABLES session,     \* number of sessions begun
          open,        \* TRUE from the opening of a session to its close
          pending,     \* accepted, neither delivered nor lost
          delivered    \* [msg, session, channel] in the order of delivery

vars == <<session, open, pending, delivered>>

Init ==
    /\ session = 0
    /\ open = FALSE
    /\ pending = <<>>
    /\ delivered = <<>>

\* A message is taken in, whether or not a session is open: a sender that
\* saw the previous session may be late.
Accept ==
    /\ \E m \in Messages : pending' = Append(pending, m)
    /\ UNCHANGED <<session, open, delivered>>

\* The oldest pending message goes out.
Deliver ==
    /\ open
    /\ pending # <<>>
    /\ pending' = Tail(pending)
    /\ \E c \in Channels :
          delivered' = Append(delivered, [msg |-> Head(pending),
                                          session |-> session,
                                          channel |-> c])
    /\ UNCHANGED <<session, open>>

\* The oldest pending message is lost: unknown discipline, or a failed emit.
Lose ==
    /\ open
    /\ pending # <<>>
    /\ pending' = Tail(pending)
    /\ UNCHANGED <<session, open, delivered>>

\* A session begins: nothing accepted earlier can be delivered in it.
Begin ==
    /\ ~open
    /\ session' = session + 1
    /\ pending' = <<>>
    /\ UNCHANGED <<open, delivered>>

Open ==
    /\ ~open
    /\ open' = TRUE
    /\ UNCHANGED <<session, pending, delivered>>

Close ==
    /\ open
    /\ open' = FALSE
    /\ UNCHANGED <<session, pending, delivered>>

\* What is pending when the session is over is forgotten.
Forget ==
    /\ ~open
    /\ pending' = <<>>
    /\ UNCHANGED <<session, open, delivered>>

Next == Accept \/ Deliver \/ Lose \/ Begin \/ Open \/ Close \/ Forget

Spec == Init /\ [][Next]_vars
=============================================================================
