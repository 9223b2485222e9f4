--------------------------- MODULE MqttClientProofs ---------------------------
(***************************************************************************)
(* The safety invariants of MqttClient, for every set of topics and every  *)
(* number of starts, subscriptions, messages and lost sessions.            *)
(***************************************************************************)
EXTENDS MqttClient, TLAPS

(***************************************************************************)
(* The inductive invariant.                                                *)
(***************************************************************************)

\* start() and stop() alternate: a started client has its thread and no
\* disconnect under way, one that is being stopped has no flag to restart it,
\* and between stop() and start() there is no thread.
LifecycleOK ==
  /\ Started => /\ flags = {"started"}
                /\ owner = "idle"
                /\ runner = "running"
  /\ owner = "joining" => Stopped /\ runner # "none" /\ client = "there"
  /\ owner = "idle" /\ ~Started => runner = "none"
  /\ disconnect => owner = "joining" /\ runner = "running"
  /\ runner = "exited" => owner = "joining"
  /\ io # "idle" => runner = "running"

\* While a message is handled no receive is outstanding, otherwise one is.
ReceiveOK ==
  Started => armed = IF io \in {"receiveFlushing", "received"} THEN 0 ELSE 1

IndInv == TypeOK /\ LifecycleOK /\ HandlersHaveClient /\ ReceiveOK

-----------------------------------------------------------------------------
\* Nothing runs before the first start().
LEMMA InitIndInv == Init => IndInv
<1> SUFFICES ASSUME Init PROVE IndInv
  OBVIOUS
<1>1. TypeOK
  <2>1. count \in [starts : 0..MaxStarts, subscribes : 0..MaxSubscribes,
                   messages : 0..MaxMessages, losses : 0..MaxLosses]
    BY ClientBounds DEF Init
  <2>2. posted \in Seq(Topic \cup {"flush"}) /\ pending \in Seq(Topic)
    BY DEF Init
  <2>3. disconnect \in BOOLEAN
    BY DEF Init
  <2>4. issued \subseteq Topic /\ session \subseteq Topic /\ wanted \subseteq Topic
    BY DEF Init
  <2> QED
    BY <2>1, <2>2, <2>3, <2>4 DEF Init, TypeOK
<1>2. LifecycleOK /\ HandlersHaveClient /\ ReceiveOK
  BY DEF Init, LifecycleOK, HandlersHaveClient, ReceiveOK, Started, Stopped
<1> QED
  BY <1>1, <1>2 DEF IndInv

\* do_subscribe() for topics keeps the types of what it adds to.
LEMMA SubscribeTypes ==
  ASSUME TypeOK, NEW T \in SUBSET Topic, DoSubscribe(T)
  PROVE  issued' \subseteq Topic /\ session' \subseteq Topic
BY DEF TypeOK, DoSubscribe

\* The pending topics are topics.
LEMMA PendingAreTopics == TypeOK => ToSet(pending) \subseteq Topic
BY DEF TypeOK, ToSet

Counts ==
  [starts : 0..MaxStarts, subscribes : 0..MaxSubscribes,
   messages : 0..MaxMessages, losses : 0..MaxLosses]

\* A counter below its bound can be incremented.
LEMMA CountTypes ==
  ASSUME NEW c \in Counts
  PROVE  /\ c.starts < MaxStarts => [c EXCEPT !.starts = @ + 1] \in Counts
         /\ c.subscribes < MaxSubscribes =>
              [c EXCEPT !.subscribes = @ + 1] \in Counts
         /\ c.messages < MaxMessages => [c EXCEPT !.messages = @ + 1] \in Counts
         /\ c.losses < MaxLosses => [c EXCEPT !.losses = @ + 1] \in Counts
BY ClientBounds DEF Counts

\* Every step keeps the types.
LEMMA TypeStep == ASSUME IndInv, [Next]_vars PROVE TypeOK'
<1> USE DEF IndInv, TypeOK
<1>c. count \in Counts
  BY DEF Counts
<1>1. CASE Start
  <2>1. count' \in Counts
    BY <1>1, <1>c, CountTypes DEF Start
  <2>2. posted' \in Seq(Topic \cup {"flush"})
    BY <1>1 DEF Start
  <2> QED
    BY <1>1, <2>1, <2>2 DEF Start, Counts
<1>2. ASSUME NEW t \in Topic, Subscribe(t) PROVE TypeOK'
  <2>1. count' \in Counts
    BY <1>2, <1>c, CountTypes DEF Subscribe
  <2>2. pending' \in Seq(Topic)
    BY <1>2 DEF Subscribe
  <2>3. posted' \in Seq(Topic \cup {"flush"})
    BY <1>2 DEF Subscribe
  <2>4. process' \in {"alive", "dead"}
    BY <1>2 DEF Subscribe
  <2> QED
    BY <1>2, <2>1, <2>2, <2>3, <2>4 DEF Subscribe, Counts
<1>3. CASE Stop
  BY <1>3 DEF Stop
<1>4. CASE StopJoined
  BY <1>4 DEF StopJoined
<1>5. CASE FlushLoop
  <2>1. issued' \subseteq Topic /\ session' \subseteq Topic
    BY <1>5, PendingAreTopics, SubscribeTypes DEF FlushLoop
  <2> QED
    BY <1>5, <2>1 DEF FlushLoop
<1>6. CASE FlushClear
  BY <1>6 DEF FlushClear
<1>7. CASE PostedSubscribe
  <2>1. Head(posted) \in Topic
    BY <1>7 DEF PostedSubscribe
  <2>2. issued' \subseteq Topic /\ session' \subseteq Topic
    BY <1>7, <2>1, SubscribeTypes DEF PostedSubscribe
  <2> QED
    BY <1>7, <2>2 DEF PostedSubscribe
<1>8. CASE Receive
  <2>1. issued' \subseteq Topic /\ session' \subseteq Topic
    BY <1>8, PendingAreTopics, SubscribeTypes DEF Receive
  <2>2. count' \in Counts
    BY <1>8, <1>c, CountTypes DEF Receive
  <2> QED
    BY <1>8, <2>1, <2>2, SMTT(30) DEF Receive, Counts
<1>9. CASE ReceiveClear
  BY <1>9 DEF ReceiveClear
<1>10. CASE ReceiveDone
  <2>1. armed' \in 0..1
    BY <1>10 DEF ReceiveDone, Rearm, LifecycleOK, ReceiveOK, Started, Stopped
  <2> QED
    BY <1>10, <2>1 DEF ReceiveDone
<1>11. CASE ReceiveError
  <2>1. count' \in Counts
    BY <1>11, <1>c, CountTypes DEF ReceiveError
  <2>2. armed' \in 0..1
    BY <1>11 DEF ReceiveError
  <2> QED
    BY <1>11, <2>1, <2>2 DEF ReceiveError, Counts
<1>12. CASE ReceiveCancelled
  BY <1>12 DEF ReceiveCancelled
<1>13. CASE Disconnected
  BY <1>13 DEF Disconnected
<1>14. CASE UNCHANGED vars
  BY <1>14 DEF vars
<1> QED
  BY <1>1, <1>2, <1>3, <1>4, <1>5, <1>6, <1>7, <1>8, <1>9, <1>10, <1>11,
     <1>12, <1>13, <1>14 DEF Next, Owner, Runner, Quiescent

\* Every step keeps what the two threads know of each other: no handler runs
\* without a client, and none after the join in stop().
LEMMA LifecycleStep ==
  ASSUME IndInv, [Next]_vars PROVE LifecycleOK' /\ HandlersHaveClient'
<1> USE DEF IndInv, TypeOK, LifecycleOK, HandlersHaveClient, Started, Stopped,
           IoIdle
<1>1. CASE Start
  BY <1>1 DEF Start
<1>2. ASSUME NEW t \in Topic, Subscribe(t)
      PROVE  LifecycleOK' /\ HandlersHaveClient'
  BY <1>2 DEF Subscribe
<1>3. CASE Stop
  BY <1>3 DEF Stop
<1>4. CASE StopJoined
  BY <1>4 DEF StopJoined
<1>5. CASE FlushLoop \/ FlushClear
  BY <1>5 DEF FlushLoop, FlushClear
<1>6. CASE PostedSubscribe
  BY <1>6 DEF PostedSubscribe
<1>7. CASE Receive \/ ReceiveClear \/ ReceiveDone
  BY <1>7 DEF Receive, ReceiveClear, ReceiveDone
<1>8. CASE ReceiveError \/ ReceiveCancelled
  BY <1>8 DEF ReceiveError, ReceiveCancelled
<1>9. CASE Disconnected
  BY <1>9 DEF Disconnected
<1>10. CASE UNCHANGED vars
  BY <1>10 DEF vars
<1> QED
  BY <1>1, <1>2, <1>3, <1>4, <1>5, <1>6, <1>7, <1>8, <1>9, <1>10
     DEF Next, Owner, Runner, Quiescent

\* Every step hands the receive on: a handler that takes it arms the next one.
LEMMA ReceiveStep == ASSUME IndInv, [Next]_vars PROVE ReceiveOK'
<1> USE DEF IndInv, TypeOK, LifecycleOK, ReceiveOK, Started, Stopped, IoIdle
<1>1. CASE Start
  BY <1>1 DEF Start
<1>2. ASSUME NEW t \in Topic, Subscribe(t) PROVE ReceiveOK'
  BY <1>2 DEF Subscribe
<1>3. CASE Stop
  BY <1>3 DEF Stop
<1>4. CASE StopJoined
  BY <1>4 DEF StopJoined
<1>5. CASE FlushLoop \/ FlushClear
  BY <1>5 DEF FlushLoop, FlushClear
<1>6. CASE PostedSubscribe
  BY <1>6 DEF PostedSubscribe
<1>7. CASE Receive \/ ReceiveClear
  BY <1>7 DEF Receive, ReceiveClear
<1>8. CASE ReceiveDone
  BY <1>8 DEF ReceiveDone, Rearm
<1>9. CASE ReceiveError
  BY <1>9 DEF ReceiveError
<1>10. CASE ReceiveCancelled \/ Disconnected
  BY <1>10 DEF ReceiveCancelled, Disconnected
<1>11. CASE UNCHANGED vars
  BY <1>11 DEF vars
<1> QED
  BY <1>1, <1>2, <1>3, <1>4, <1>5, <1>6, <1>7, <1>8, <1>9, <1>10, <1>11
     DEF Next, Owner, Runner, Quiescent

\* The invariant holds in every reachable state.
LEMMA Invariance == Spec => []IndInv
<1>1. IndInv /\ [Next]_vars => IndInv'
  BY TypeStep, LifecycleStep, ReceiveStep DEF IndInv
<1> QED
  BY InitIndInv, <1>1, PTL DEF Spec

-----------------------------------------------------------------------------
\* Every variable keeps its type, through any sequence of starts and stops.
THEOREM TypeCorrectness == Spec => []TypeOK
<1>1. IndInv => TypeOK
  BY DEF IndInv
<1> QED
  BY Invariance, <1>1, PTL

\* stop() resets client_ and ioc_ only when no handler runs or will run: every
\* handler captures this and uses client_ without a lock.
THEOREM HandlersSafe == Spec => []HandlersHaveClient
<1>1. IndInv => HandlersHaveClient
  BY DEF IndInv
<1> QED
  BY Invariance, <1>1, PTL

\* A started client has exactly one receive outstanding between two handlers,
\* after any number of messages, errors and restarts.
THEOREM SingleReceive == Spec => []OneReceive
<1>1. IndInv => OneReceive
  BY DEF IndInv, ReceiveOK, OneReceive, IoIdle
<1> QED
  BY Invariance, <1>1, PTL
=============================================================================
