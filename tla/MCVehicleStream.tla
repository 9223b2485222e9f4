--------------------------- MODULE MCVehicleStream ---------------------------
(***************************************************************************)
(* VehicleStream for TLC, and the refinement mapping to CommandDelivery.   *)
(***************************************************************************)
EXTENDS VehicleStream

\* The commands inside the gateway: none is left once the process is dead.
Waiting ==
  {c \in Command :
     /\ Alive
     /\ \/ IsPending(c)
        \/ push.cmd = c
        \/ \E h \in Handler : InQueue(h, c)}

Delivery == INSTANCE CommandDelivery WITH
  Stream <- Handler,
  waiting <- Waiting,
  delivered <- written,
  ended <- \E h \in Handler : client[h] = "closed"

\* The command path implements CommandDelivery: push_command(), flush_pending()
\* and the write queue between them hand a command to at most one stream and at
\* most once, and lose one only after a vehicle went away.
DeliversAtMostOnce == Delivery!Spec

\* The commands that go down with handler h: those in its queue, and the one
\* push_command() is about to put there.
Bound(h) == {c \in Command : InQueue(h, c) \/ (push.h = h /\ push.cmd = c)}

\* A handler that deletes itself takes nothing with it but the commands bound to
\* it, and only after its own vehicle went away: pending_commands_ and the queues
\* of other streams survive every disconnection, late or early.
LostWithItsStream ==
  [][\A c \in Waiting :
       \/ c \in Waiting' \/ process' = "dead"
       \/ \E h \in Handler :
            \/ IsWritten(h, c)'
            \/ c \in Bound(h) /\ client[h] = "closed" /\ state'[h] = "deleted"
    ]_vars

OnStream(h, c) == InQueue(h, c) \/ IsWritten(h, c)

\* A pending command can be overtaken between active_.store(this) and the end of
\* flush_pending(), and only then: whatever a stream takes once it is read is
\* newer than all it took before.
OvertakingEndsWithFlush ==
  [][\A h \in Handler, c, d \in Command :
       /\ state[h] # "ACCEPTING"
       /\ OnStream(h, c) /\ ~OnStream(h, d) /\ OnStream(h, d)'
       => c < d]_vars
=============================================================================
