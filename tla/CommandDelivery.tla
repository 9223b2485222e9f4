--------------------------- MODULE CommandDelivery ---------------------------
(***************************************************************************)
(* What the command path promises, whatever happens between its threads:   *)
(* a command that arrives from the cloud is handed to at most one vehicle  *)
(* stream, at most once, and is lost only after a vehicle's stream ended.  *)
(***************************************************************************)
EXTENDS Naturals, Sequences

CONSTANTS
  Stream,     \* the vehicle streams
  MaxCommands \* bound on the commands that arrive

VARIABLES
  arrived,    \* number of commands that arrived
  waiting,    \* the commands accepted and neither delivered nor lost
  delivered,  \* the commands handed to every stream, in order
  ended       \* TRUE once some stream ended

vars == <<arrived, waiting, delivered, ended>>

Init ==
  /\ arrived = 0
  /\ waiting = {}
  /\ delivered = [s \in Stream |-> <<>>]
  /\ ended = FALSE

Arrive ==
  /\ arrived < MaxCommands
  /\ arrived' = arrived + 1
  /\ waiting' = waiting \cup {arrived'}
  /\ UNCHANGED <<delivered, ended>>

Deliver(s, c) ==
  /\ c \in waiting
  /\ waiting' = waiting \ {c}
  /\ delivered' = [delivered EXCEPT ![s] = Append(@, c)]
  /\ UNCHANGED <<arrived, ended>>

\* A stream ends.
End ==
  /\ ended' = TRUE
  /\ UNCHANGED <<arrived, waiting, delivered>>

\* The commands S are lost, all of them in a crash.
Lose(S) ==
  /\ ended
  /\ waiting' = waiting \ S
  /\ UNCHANGED <<arrived, delivered, ended>>

Next ==
  \/ Arrive
  \/ \E s \in Stream, c \in waiting : Deliver(s, c)
  \/ End
  \/ \E S \in SUBSET waiting : Lose(S)

Spec == Init /\ [][Next]_vars

\* No command is delivered twice, neither on one stream nor on two.
AtMostOnce ==
  \A s, t \in Stream : \A i \in DOMAIN delivered[s], j \in DOMAIN delivered[t] :
    delivered[s][i] = delivered[t][j] => s = t /\ i = j
=============================================================================
