------------------------- MODULE VehicleStreamProofs -------------------------
(***************************************************************************)
(* The safety invariants of VehicleStream, and that it implements          *)
(* CommandDelivery, for every number of handlers, commands and events.     *)
(***************************************************************************)
EXTENDS MCVehicleStream, SequenceTheorems, TLAPS

(***************************************************************************)
(* The inductive invariant.                                                *)
(***************************************************************************)

\* The completion-queue thread is inside ACCEPTING of the active handler, or
\* has no handler at all.
ThreadOK ==
  /\ cq.at = "next" => cq.h = NoHandler
  /\ cq.at # "next" => /\ cq.h \in Handler
                       /\ state[cq.h] = "ACCEPTING"
                       /\ active = cq.h

\* A command is in the hands of push_command() while it runs.
PushOK == push.at = "push" => push.cmd \in Command

\* Handlers are constructed in order: behind the one that waits for a stream
\* there is none.
FrontierOK ==
  \A g, k \in Handler :
    state[g] = "ACCEPTING" /\ cq.h # g /\ g < k => state[k] = "unborn"

\* Only a handler with a stream is active, is pushed to or goes on to READING.
ClientOK ==
  /\ \A h \in Handler : client[h] # "none" => h < MaxHandlers
  /\ \A h \in Handler :
       state[h] \in {"READING", "FINISH"} => client[h] # "none"
  /\ active # NoHandler => client[active] # "none"
  /\ push.h # NoHandler => client[push.h] # "none"

\* writing_ says whether a write is outstanding, as long as there is a handler.
FlagOK ==
  \A h \in Handler :
    /\ inflight[h] <= 1
    /\ state[h] # "deleted" => (h \in writing <=> inflight[h] = 1)

\* Commands are queued and written only at a handler with a stream, and queued
\* only as long as it exists.
QueueOK ==
  \A h \in Handler :
    /\ client[h] = "none" => queue[h] = <<>> /\ inflight[h] = 0
    /\ state[h] = "deleted" => queue[h] = <<>>

IndInv ==
  /\ TypeOK
  /\ ThreadOK
  /\ PushOK
  /\ FrontierOK
  /\ ClientOK
  /\ FlagOK
  /\ QueueOK
  /\ NoLostWakeup
  /\ ActiveIsConnected
  /\ LatestStreamIsActive
  /\ OneHandlerListens

-----------------------------------------------------------------------------
(***************************************************************************)
(* Lemmas about the write path.                                            *)
(***************************************************************************)

\* flush_write_queue_locked() keeps the types and touches one stream only.
LEMMA FlushTypes ==
  ASSUME TypeOK, NEW h \in Handler, NEW q \in Seq(Command),
         NEW w \in SUBSET Handler, NEW n \in Nat, FlushWriteQueue(h, q, w, n)
  PROVE  /\ queue' \in [Handler -> Seq(Command)]
         /\ writing' \subseteq Handler
         /\ inflight' \in [Handler -> Nat]
         /\ written' \in [Handler -> Seq(Command)]
         /\ \A g \in Handler \ {h} :
              /\ queue'[g] = queue[g]
              /\ g \in writing' <=> g \in w
              /\ inflight'[g] = inflight[g]
<1>1. CASE q = <<>> \/ h \in w
  <2>1. /\ queue' = [queue EXCEPT ![h] = q]
        /\ writing' = w
        /\ inflight' = [inflight EXCEPT ![h] = n]
        /\ written' = written
    BY <1>1, Zenon DEF FlushWriteQueue
  <2>2. /\ queue' \in [Handler -> Seq(Command)]
        /\ inflight' \in [Handler -> Nat]
        /\ written' \in [Handler -> Seq(Command)]
    BY <2>1 DEF TypeOK
  <2>3. \A g \in Handler \ {h} :
          /\ queue'[g] = queue[g]
          /\ g \in writing' <=> g \in w
          /\ inflight'[g] = inflight[g]
    BY <2>1 DEF TypeOK
  <2> QED
    BY <2>1, <2>2, <2>3
<1>2. CASE ~(q = <<>> \/ h \in w)
  <2>1. Head(q) \in Command /\ Tail(q) \in Seq(Command)
    BY <1>2
  <2>2. Append(written[h], Head(q)) \in Seq(Command)
    BY <2>1 DEF TypeOK
  <2>3. /\ queue' = [queue EXCEPT ![h] = Tail(q)]
        /\ writing' = w \cup {h}
        /\ inflight' = [inflight EXCEPT ![h] = n + 1]
        /\ written' = [written EXCEPT ![h] = Append(@, Head(q))]
    BY <1>2, Zenon DEF FlushWriteQueue
  <2>4. written' \in [Handler -> Seq(Command)]
    BY <2>2, <2>3 DEF TypeOK
  <2>5. queue' \in [Handler -> Seq(Command)]
    BY <2>1, <2>3 DEF TypeOK
  <2>6. inflight' \in [Handler -> Nat]
    BY <2>3 DEF TypeOK
  <2>7. writing' \subseteq Handler
    BY <2>3
  <2>8. \A g \in Handler \ {h} :
          /\ queue'[g] = queue[g]
          /\ g \in writing' <=> g \in w
          /\ inflight'[g] = inflight[g]
    BY <2>3 DEF TypeOK
  <2> QED
    BY <2>4, <2>5, <2>6, <2>7, <2>8
<1> QED
  BY <1>1, <1>2

\* flush_write_queue_locked() leaves a command in the queue only behind a write
\* that runs, and starts a write only when none does.
LEMMA FlushFlag ==
  ASSUME TypeOK, NEW h \in Handler, NEW q \in Seq(Command),
         NEW w \in SUBSET Handler, NEW n \in Nat, FlushWriteQueue(h, q, w, n),
         n <= 1, h \in w <=> n = 1
  PROVE  /\ inflight'[h] <= 1
         /\ h \in writing' <=> inflight'[h] = 1
         /\ queue'[h] # <<>> => inflight'[h] > 0
BY SMTT(30) DEF FlushWriteQueue, TypeOK

-----------------------------------------------------------------------------
\* GrpcServer::start leaves the invariant true: one handler waits, no stream yet.
LEMMA InitIndInv == Init => IndInv
<1> SUFFICES ASSUME Init PROVE IndInv
  OBVIOUS
<1> USE BoundsAssumption
    DEF Init, InNext, Receiving, NoHandler, NoCommand, Handler
<1>1. TypeOK
  BY DEF TypeOK, HandlerState
<1>2. ThreadOK /\ PushOK /\ FrontierOK /\ ClientOK /\ FlagOK /\ QueueOK
  BY DEF ThreadOK, PushOK, FrontierOK, ClientOK, FlagOK, QueueOK
<1>3. NoLostWakeup /\ ActiveIsConnected /\ LatestStreamIsActive
  BY DEF NoLostWakeup, ActiveIsConnected, LatestStreamIsActive
<1>4. OneHandlerListens
  BY DEF OneHandlerListens
<1> QED
  BY <1>1, <1>2, <1>3, <1>4 DEF IndInv

-----------------------------------------------------------------------------
(***************************************************************************)
(* A step of the system.  Each lemma below shows that a step preserves one *)
(* part of IndInv, action by action for the actions that can disturb it.   *)
(***************************************************************************)
Step ==
  \/ CompletionQueueThread
  \/ MqttThread
  \/ Environment
  \/ UNCHANGED vars

\* Every step of Next is a step of one thread, of the environment, or none.
LEMMA NextIsStep == [Next]_vars => Step
BY DEF Next, Step, Quiescent

\* Part 1: every step of the two threads keeps the types, and push_command()
\* holds a command exactly while it runs.
LEMMA TypeStep == ASSUME IndInv, Step PROVE TypeOK' /\ PushOK'
<1> USE BoundsAssumption DEF IndInv, TypeOK, PushOK, Command, NoCommand
<1>1. ASSUME NEW h \in Handler, VehicleConnect(h) \/ VehicleClose(h)
      PROVE  TypeOK' /\ PushOK'
  BY <1>1 DEF VehicleConnect, VehicleClose, streamVars
<1>2. CASE StopServer
  BY <1>2 DEF StopServer, streamVars
<1>3. ASSUME NEW h \in Handler, AcceptingOk(h) PROVE TypeOK' /\ PushOK'
  BY <1>3 DEF AcceptingOk, NewSibling, HandlerState, streamVars
<1>4. CASE FlushLock
  BY <1>4 DEF FlushLock, streamVars
<1>5. CASE FlushOne
  <2>1. cq.h \in Handler
    BY <1>5 DEF FlushOne, ThreadOK
  <2>2. Head(pending) \in Command /\ Tail(pending) \in Seq(Command)
    BY <1>5, SMTT(30) DEF FlushOne
  <2>3. Append(queue[cq.h], Head(pending)) \in Seq(Command)
    BY <2>1, <2>2
  <2>4. /\ queue' \in [Handler -> Seq(Command)]
        /\ writing' \subseteq Handler
        /\ inflight' \in [Handler -> Nat]
        /\ written' \in [Handler -> Seq(Command)]
    BY <1>5, <2>1, <2>3, FlushTypes DEF FlushOne, Enqueue
  <2> QED
    BY <1>5, <2>2, <2>4 DEF FlushOne
<1>6. CASE FlushDone
  BY <1>6 DEF FlushDone, InNext, HandlerState, streamVars
<1>7. ASSUME NEW h \in Handler, AcceptingFailed(h) PROVE TypeOK' /\ PushOK'
  BY <1>7, SMTT(30) DEF AcceptingFailed, DeleteHandler, HandlerState
<1>8. ASSUME NEW h \in Handler, NEW ev \in VehicleEvent, ReadingOk(h, ev)
      PROVE  TypeOK' /\ PushOK'
  <2>1. outbox' \in Seq(ReportEvent)
    BY <1>8 DEF ReadingOk
  <2> QED
    BY <1>8, <2>1 DEF ReadingOk, streamVars
<1>9. ASSUME NEW h \in Handler, ReadingFailed(h) PROVE TypeOK' /\ PushOK'
  BY <1>9 DEF ReadingFailed, ClearActive, HandlerState, streamVars
<1>10. ASSUME NEW h \in Handler, FinishDone(h) PROVE TypeOK' /\ PushOK'
  BY <1>10, SMTT(30) DEF FinishDone, DeleteHandler, ClearActive, HandlerState
<1>11. ASSUME NEW h \in Handler, OnWriteDone(h) PROVE TypeOK' /\ PushOK'
  <2>1. inflight[h] - 1 \in Nat /\ writing \ {h} \in SUBSET Handler
    BY <1>11, SMTT(30) DEF OnWriteDone
  <2>2. /\ queue' \in [Handler -> Seq(Command)]
        /\ writing' \subseteq Handler
        /\ inflight' \in [Handler -> Nat]
        /\ written' \in [Handler -> Seq(Command)]
    BY <1>11, <2>1, FlushTypes DEF OnWriteDone
  <2> QED
    BY <1>11, <2>2 DEF OnWriteDone
<1>12. ASSUME NEW h \in Handler, OnWriteFailed(h) PROVE TypeOK' /\ PushOK'
  <2>1. inflight' \in [Handler -> Nat]
    <3>1. inflight[h] - 1 \in Nat
      BY <1>12, SMTT(30) DEF OnWriteFailed
    <3> QED
      BY <1>12, <3>1 DEF OnWriteFailed
  <2> QED
    BY <1>12, <2>1, ZenonT(60) DEF OnWriteFailed
<1>13. ASSUME NEW h \in Handler, OnWriteDoneDangling(h)
       PROVE  TypeOK' /\ PushOK'
  <2>1. inflight' \in [Handler -> Nat]
    <3>1. inflight[h] - 1 \in Nat
      BY <1>13, SMTT(30) DEF OnWriteDoneDangling
    <3> QED
      BY <1>13, <3>1 DEF OnWriteDoneDangling
  <2> QED
    BY <1>13, <2>1 DEF OnWriteDoneDangling
<1>14. CASE LoadActive
  BY <1>14, SMTT(30) DEF LoadActive, streamVars
<1>15. CASE PushPending
  <2>1. push.cmd \in Command
    BY <1>15 DEF PushPending
  <2>2. pending' \in Seq(Command)
    BY <1>15, <2>1 DEF PushPending
  <2>3. held' \subseteq Command
    BY <1>15, <2>1 DEF PushPending
  <2> QED
    BY <1>15, <2>2, <2>3 DEF PushPending, Receiving, streamVars
<1>16. CASE PushEnqueue
  <2>1. push.h \in Handler /\ push.cmd \in Command
    BY <1>16 DEF PushEnqueue
  <2>2. Append(queue[push.h], push.cmd) \in Seq(Command)
    BY <2>1
  <2>3. /\ queue' \in [Handler -> Seq(Command)]
        /\ writing' \subseteq Handler
        /\ inflight' \in [Handler -> Nat]
        /\ written' \in [Handler -> Seq(Command)]
    BY <1>16, <2>1, <2>2, FlushTypes DEF PushEnqueue, Enqueue
  <2> QED
    BY <1>16, <2>3 DEF PushEnqueue, Receiving
<1>17. CASE PushDangling
  BY <1>17 DEF PushDangling, Receiving, streamVars
<1>18. CASE UNCHANGED vars
  BY <1>18, ZenonT(60) DEF vars
<1> QED
  BY <1>1, <1>2, <1>3, <1>4, <1>5, <1>6, <1>7, <1>8, <1>9, <1>10, <1>11,
     <1>12, <1>13, <1>14, <1>15, <1>16, <1>17, <1>18
     DEF Step, CompletionQueueThread, MqttThread, Environment

\* Part 2: where the threads, the handlers and active_ stand.
LEMMA ThreadStep == ASSUME IndInv, Step PROVE ThreadOK' /\ ActiveIsConnected'
<1> USE BoundsAssumption
    DEF IndInv, TypeOK, ThreadOK, ActiveIsConnected, InNext, Handler, NoHandler
<1>1. ASSUME NEW h \in Handler, AcceptingOk(h)
      PROVE  ThreadOK' /\ ActiveIsConnected'
  BY <1>1 DEF AcceptingOk, NewSibling, ClientOK, FrontierOK
<1>2. CASE FlushLock
  BY <1>2 DEF FlushLock
<1>3. CASE FlushDone
  BY <1>3 DEF FlushDone
<1>4. ASSUME NEW h \in Handler, AcceptingFailed(h)
      PROVE  ThreadOK' /\ ActiveIsConnected'
  BY <1>4 DEF AcceptingFailed, DeleteHandler
<1>5. ASSUME NEW h \in Handler, ReadingFailed(h)
      PROVE  ThreadOK' /\ ActiveIsConnected'
  BY <1>5 DEF ReadingFailed, ClearActive
<1>6. ASSUME NEW h \in Handler, FinishDone(h)
      PROVE  ThreadOK' /\ ActiveIsConnected'
  BY <1>6 DEF FinishDone, ClearActive, DeleteHandler
<1>7. CASE UNCHANGED <<state, active, cq>>
  BY <1>7
<1> QED
  BY <1>1, <1>2, <1>3, <1>4, <1>5, <1>6, <1>7
     DEF Step, CompletionQueueThread, MqttThread, Environment, vars, FlushOne,
         ReadingOk, OnWriteDone, OnWriteFailed, OnWriteDoneDangling,
         LoadActive, PushPending, PushEnqueue, PushDangling, VehicleConnect,
         VehicleClose, StopServer

\* Two handlers are never offered to gRPC at once: the one that takes a stream
\* is the only one in ACCEPTING.
LEMMA OneAccepting ==
  ASSUME IndInv, NEW h \in Handler, AcceptingOk(h)
  PROVE  \A g \in Handler : /\ state[g] = "ACCEPTING" => g = h
                            /\ g > h => state[g] = "unborn"
<1>1. cq.h = NoHandler /\ state[h] = "ACCEPTING"
  BY DEF AcceptingOk, InNext
<1>2. \A g \in Handler : g > h => state[g] = "unborn"
  BY <1>1 DEF IndInv, FrontierOK, Handler, NoHandler
<1>3. \A g \in Handler : g < h /\ state[g] = "ACCEPTING" => state[h] = "unborn"
  BY <1>1 DEF IndInv, FrontierOK, Handler, NoHandler
<1> QED
  BY <1>1, <1>2, <1>3, BoundsAssumption DEF Handler

\* Handlers are constructed one after the other, each by the one before it.
LEMMA FrontierStep == ASSUME IndInv, Step PROVE FrontierOK'
<1> USE BoundsAssumption
    DEF IndInv, TypeOK, ThreadOK, FrontierOK, InNext, Handler, NoHandler
<1>1. ASSUME NEW h \in Handler, AcceptingOk(h) PROVE FrontierOK'
  <2>1. \A g \in Handler : /\ state[g] = "ACCEPTING" => g = h
                           /\ g > h => state[g] = "unborn"
    BY <1>1, OneAccepting
  <2>2. cq'.h = h /\ state' = [state EXCEPT ![h + 1] = "ACCEPTING"]
    BY <1>1 DEF AcceptingOk, NewSibling
  <2> QED
    BY <2>1, <2>2, SMTT(30)
<1>2. CASE FlushLock
  BY <1>2 DEF FlushLock
<1>3. CASE FlushDone
  BY <1>3, ZenonT(60) DEF FlushDone
<1>4. ASSUME NEW h \in Handler, AcceptingFailed(h) PROVE FrontierOK'
  BY <1>4, SMTT(30) DEF AcceptingFailed, DeleteHandler
<1>5. ASSUME NEW h \in Handler, ReadingFailed(h) PROVE FrontierOK'
  BY <1>5, ZenonT(60) DEF ReadingFailed
<1>6. ASSUME NEW h \in Handler, FinishDone(h) PROVE FrontierOK'
  BY <1>6, SMTT(30) DEF FinishDone, DeleteHandler
<1>7. CASE UNCHANGED <<state, cq>>
  BY <1>7
<1> QED
  BY <1>1, <1>2, <1>3, <1>4, <1>5, <1>6, <1>7
     DEF Step, CompletionQueueThread, MqttThread, Environment, vars, FlushOne,
         ReadingOk, OnWriteDone, OnWriteFailed, OnWriteDoneDangling,
         LoadActive, PushPending, PushEnqueue, PushDangling, VehicleConnect,
         VehicleClose, StopServer

\* A handler that left ACCEPTING for READING has a vehicle at its other end.
LEMMA ClientStep == ASSUME IndInv, Step PROVE ClientOK'
<1> USE BoundsAssumption
    DEF IndInv, TypeOK, ThreadOK, ClientOK, InNext, Handler, NoHandler
<1>1. ASSUME NEW h \in Handler, AcceptingOk(h) PROVE ClientOK'
  BY <1>1 DEF AcceptingOk, NewSibling
<1>2. CASE FlushDone
  BY <1>2 DEF FlushDone
<1>3. ASSUME NEW h \in Handler, AcceptingFailed(h) PROVE ClientOK'
  BY <1>3 DEF AcceptingFailed, DeleteHandler
<1>4. ASSUME NEW h \in Handler, ReadingFailed(h) PROVE ClientOK'
  BY <1>4 DEF ReadingFailed, ClearActive
<1>5. ASSUME NEW h \in Handler, FinishDone(h) PROVE ClientOK'
  BY <1>5 DEF FinishDone, ClearActive, DeleteHandler
<1>6. CASE LoadActive
  BY <1>6 DEF LoadActive
<1>7. CASE PushPending \/ PushEnqueue \/ PushDangling
  <2>1. push' = Receiving /\ UNCHANGED <<state, active, client>>
    BY <1>7, Zenon DEF PushPending, PushEnqueue, PushDangling
  <2> QED
    BY <2>1 DEF Receiving
<1>8. ASSUME NEW h \in Handler, VehicleConnect(h) PROVE ClientOK'
  BY <1>8 DEF VehicleConnect
<1>9. ASSUME NEW h \in Handler, VehicleClose(h) PROVE ClientOK'
  BY <1>9 DEF VehicleClose
<1>10. CASE UNCHANGED <<state, active, push, client>>
  BY <1>10
<1> QED
  BY <1>1, <1>2, <1>3, <1>4, <1>5, <1>6, <1>7, <1>8, <1>9, <1>10
     DEF Step, CompletionQueueThread, MqttThread, Environment, vars, FlushLock,
         FlushOne, ReadingOk, OnWriteDone, OnWriteFailed, OnWriteDoneDangling,
         StopServer

\* Part 3: ACCEPTING hands the listening over to the sibling it constructs.
LEMMA ListenStep == ASSUME IndInv, Step PROVE OneHandlerListens'
<1> USE BoundsAssumption
    DEF IndInv, TypeOK, ThreadOK, OneHandlerListens, InNext, Handler, NoHandler
<1>1. ASSUME NEW h \in Handler, AcceptingOk(h) PROVE OneHandlerListens'
  <2>1. h + 1 \in Handler /\ state' = [state EXCEPT ![h + 1] = "ACCEPTING"]
    BY <1>1 DEF AcceptingOk, NewSibling, ClientOK
  <2>2. \A g \in Handler : state[g] = "ACCEPTING" => g = h
    BY <1>1, OneAccepting
  <2>3. cq'.h = h /\ state'[h + 1] = "ACCEPTING"
    BY <1>1, <2>1 DEF AcceptingOk, NewSibling
  <2>4. \A g \in Handler : state'[g] = "ACCEPTING" /\ g # h => g = h + 1
    BY <2>1, <2>2
  <2> QED
    BY <2>1, <2>3, <2>4
<1>2. CASE FlushLock
  BY <1>2 DEF FlushLock
<1>3. CASE FlushDone
  <2>1. /\ state' = [state EXCEPT ![cq.h] = "READING"] /\ cq'.h = NoHandler
        /\ UNCHANGED server /\ cq.h \in Handler
    BY <1>3 DEF FlushDone
  <2>2. SUFFICES ASSUME server = "up" PROVE OneHandlerListens'
    BY <2>1
  <2>3. PICK k \in Handler :
          /\ state[k] = "ACCEPTING" /\ cq.h # k
          /\ \A g \in Handler : state[g] = "ACCEPTING" /\ cq.h # g => g = k
    BY <2>2
  <2>4. state'[k] = "ACCEPTING"
    BY <2>1, <2>3
  <2>5. \A g \in Handler : state'[g] = "ACCEPTING" => g = k
    BY <2>1, <2>3
  <2> QED
    BY <2>1, <2>4, <2>5
<1>4. ASSUME NEW h \in Handler, AcceptingFailed(h) PROVE OneHandlerListens'
  BY <1>4 DEF AcceptingFailed
<1>5. ASSUME NEW h \in Handler, ReadingFailed(h) PROVE OneHandlerListens'
  BY <1>5, SMTT(30) DEF ReadingFailed
<1>6. ASSUME NEW h \in Handler, FinishDone(h) PROVE OneHandlerListens'
  <2>1. \A g \in Handler : state'[g] = "ACCEPTING" <=> state[g] = "ACCEPTING"
    BY <1>6 DEF FinishDone, DeleteHandler
  <2>2. UNCHANGED <<cq, server>>
    BY <1>6 DEF FinishDone
  <2> QED
    BY <2>1, <2>2
<1>7. CASE StopServer
  BY <1>7 DEF StopServer
<1>8. CASE UNCHANGED <<state, cq, server>>
  BY <1>8
<1> QED
  BY <1>1, <1>2, <1>3, <1>4, <1>5, <1>6, <1>7, <1>8
     DEF Step, CompletionQueueThread, MqttThread, Environment, vars, FlushOne,
         ReadingOk, OnWriteDone, OnWriteFailed, OnWriteDoneDangling,
         LoadActive, PushPending, PushEnqueue, PushDangling, VehicleConnect,
         VehicleClose

\* A step keeps the newest stream active if it un-accepts no handler and every
\* stream that is read after it was read, and was as active, before it.
LEMMA LatestKept ==
  ASSUME LatestStreamIsActive,
         \A g \in Handler : Accepted(g) => Accepted(g)',
         \A g \in Handler : state'[g] = "READING" => state[g] = "READING",
         \A g \in Handler : state'[g] = "READING" /\ active = g => active' = g
  PROVE  LatestStreamIsActive'
<1> SUFFICES ASSUME NEW h \in Handler, state'[h] = "READING",
                    \A g \in Handler : g > h => ~Accepted(g)'
             PROVE  active' = h
  BY DEF LatestStreamIsActive
<1>1. \A g \in Handler : g > h => ~Accepted(g)
  OBVIOUS
<1>2. active = h
  BY <1>1 DEF LatestStreamIsActive
<1> QED
  BY <1>2

\* Part 4: the end of an older stream does not unhook the stream accepted last.
LEMMA LatestStep == ASSUME IndInv, Step PROVE LatestStreamIsActive'
<1> USE BoundsAssumption DEF IndInv, TypeOK, ThreadOK, InNext, NoHandler
<1>1. ASSUME NEW h \in Handler, AcceptingOk(h) PROVE LatestStreamIsActive'
  <2>1. \A g \in Handler : g > h => state[g] = "unborn"
    BY <1>1, OneAccepting
  <2>2. /\ state' = [state EXCEPT ![h + 1] = "ACCEPTING"]
        /\ active' = h /\ cq'.h = h /\ UNCHANGED client
    BY <1>1 DEF AcceptingOk, NewSibling
  <2>3. \A g \in Handler : g > h => state'[g] # "READING"
    BY <2>1, <2>2 DEF Handler
  <2>4. Accepted(h)'
    BY <2>2 DEF Accepted
  <2>5. \A g \in Handler : g = h \/ g > h \/ h > g
    BY DEF Handler
  <2> QED
    BY <2>2, <2>3, <2>4, <2>5 DEF LatestStreamIsActive
<1>2. CASE FlushLock
  <2>1. \A g \in Handler : Accepted(g) => Accepted(g)'
    BY <1>2 DEF FlushLock, Accepted
  <2>2. UNCHANGED <<state, active>>
    BY <1>2 DEF FlushLock
  <2> QED
    BY <2>1, <2>2, LatestKept
<1>3. CASE FlushDone
  <2>1. /\ state' = [state EXCEPT ![cq.h] = "READING"] /\ cq'.h = NoHandler
        /\ UNCHANGED <<active, client>> /\ cq.h \in Handler
    BY <1>3 DEF FlushDone
  <2>2. \A g \in Handler : Accepted(g) => Accepted(g)'
    BY <2>1 DEF Accepted, Handler
  <2>3. \A g \in Handler :
          state'[g] = "READING" => state[g] = "READING" \/ g = cq.h
    BY <2>1
  <2>4. active = cq.h
    BY <1>3 DEF FlushDone
  <2> QED
    BY <2>1, <2>2, <2>3, <2>4 DEF LatestStreamIsActive
<1>4. ASSUME NEW h \in Handler, AcceptingFailed(h) PROVE LatestStreamIsActive'
  <2>1. /\ state' = [state EXCEPT ![h] = "deleted"] /\ state[h] = "ACCEPTING"
        /\ UNCHANGED <<active, client, cq>>
    BY <1>4 DEF AcceptingFailed, DeleteHandler
  <2>2. \A g \in Handler : Accepted(g) => Accepted(g)'
    BY <2>1 DEF Accepted
  <2>3. \A g \in Handler : state'[g] = "READING" => state[g] = "READING"
    BY <2>1
  <2> QED
    BY <2>1, <2>2, <2>3, LatestKept
<1>5. ASSUME NEW h \in Handler, ReadingFailed(h) PROVE LatestStreamIsActive'
  <2>1. /\ state' = [state EXCEPT ![h] = "FINISH"] /\ state[h] = "READING"
        /\ UNCHANGED <<client, cq>>
        /\ active' = IF active = h THEN NoHandler ELSE active
    BY <1>5 DEF ReadingFailed, ClearActive
  <2>2. \A g \in Handler : Accepted(g) => Accepted(g)'
    BY <2>1 DEF Accepted
  <2>3. \A g \in Handler :
          state'[g] = "READING" => state[g] = "READING" /\ g # h
    BY <2>1
  <2>4. \A g \in Handler : g # h /\ active = g => active' = g
    BY <2>1
  <2> QED
    BY <2>2, <2>3, <2>4, LatestKept
<1>6. ASSUME NEW h \in Handler, FinishDone(h) PROVE LatestStreamIsActive'
  <2>1. /\ state' = [state EXCEPT ![h] = "deleted"] /\ state[h] = "FINISH"
        /\ UNCHANGED <<client, cq>>
        /\ active' = IF active = h THEN NoHandler ELSE active
    BY <1>6 DEF FinishDone, DeleteHandler, ClearActive
  <2>2. client[h] # "none"
    BY <2>1 DEF ClientOK
  <2>3. \A g \in Handler : Accepted(g) => Accepted(g)'
    BY <2>1, <2>2 DEF Accepted
  <2>4. \A g \in Handler :
          state'[g] = "READING" => state[g] = "READING" /\ g # h
    BY <2>1
  <2>5. \A g \in Handler : g # h /\ active = g => active' = g
    BY <2>1
  <2> QED
    BY <2>3, <2>4, <2>5, LatestKept
<1>7. ASSUME NEW h \in Handler, VehicleConnect(h) \/ VehicleClose(h)
      PROVE  LatestStreamIsActive'
  <2>1. \A g \in Handler : Accepted(g) => Accepted(g)'
    BY <1>7 DEF VehicleConnect, VehicleClose, Accepted
  <2>2. UNCHANGED <<state, active>>
    BY <1>7 DEF VehicleConnect, VehicleClose
  <2> QED
    BY <2>1, <2>2, LatestKept
<1>8. CASE UNCHANGED <<state, active, cq, client>>
  <2>1. \A g \in Handler : Accepted(g) => Accepted(g)'
    BY <1>8 DEF Accepted
  <2> QED
    BY <1>8, <2>1, LatestKept
<1> QED
  BY <1>1, <1>2, <1>3, <1>4, <1>5, <1>6, <1>7, <1>8
     DEF Step, CompletionQueueThread, MqttThread, Environment, vars, FlushOne,
         ReadingOk, OnWriteDone, OnWriteFailed, OnWriteDoneDangling,
         LoadActive, PushPending, PushEnqueue, PushDangling, StopServer

-----------------------------------------------------------------------------
(***************************************************************************)
(* Part 5: writing_ and the write queue.                                   *)
(***************************************************************************)
WriteOK == FlagOK /\ QueueOK /\ NoLostWakeup

\* A handler that exists, with a stream, may start or finish a write.
LEMMA FlushKeepsWriteOK ==
  ASSUME IndInv, NEW h \in Handler, NEW q \in Seq(Command),
         NEW w \in SUBSET Handler, NEW n \in Nat, FlushWriteQueue(h, q, w, n),
         n <= 1, h \in w <=> n = 1,
         \A g \in Handler \ {h} : g \in w <=> g \in writing,
         state[h] # "deleted", client[h] # "none", UNCHANGED <<state, client>>
  PROVE  WriteOK'
<1>1. \A g \in Handler \ {h} :
        /\ queue'[g] = queue[g]
        /\ g \in writing' <=> g \in w
        /\ inflight'[g] = inflight[g]
  BY FlushTypes DEF IndInv
<1>2. /\ inflight'[h] <= 1
      /\ h \in writing' <=> inflight'[h] = 1
      /\ queue'[h] # <<>> => inflight'[h] > 0
  BY FlushFlag DEF IndInv
<1>3. FlagOK'
  BY <1>1, <1>2 DEF IndInv, FlagOK
<1>4. QueueOK'
  BY <1>1 DEF IndInv, QueueOK
<1>5. NoLostWakeup'
  BY <1>1, <1>2 DEF IndInv, NoLostWakeup
<1> QED
  BY <1>3, <1>4, <1>5 DEF WriteOK

\* enqueue() and on_write_done() between them keep writing_, the write
\* queue and the outstanding write of every stream consistent.
LEMMA WriteStep == ASSUME IndInv, Step PROVE WriteOK'
<1> USE BoundsAssumption DEF Handler, NoHandler
<1>0. /\ TypeOK /\ ThreadOK /\ PushOK /\ FrontierOK /\ ClientOK
      /\ FlagOK /\ QueueOK /\ NoLostWakeup
  BY DEF IndInv
<1>1. ASSUME NEW h \in Handler, VehicleConnect(h) \/ VehicleClose(h)
      PROVE  WriteOK'
  <2>1. UNCHANGED <<state, queue, writing, inflight>>
    BY <1>1 DEF VehicleConnect, VehicleClose, streamVars
  <2>2. \A g \in Handler : /\ client'[g] = "none" => client[g] = "none"
                           /\ client'[g] = "open" => client[g] # "closed"
    BY <1>0, <1>1 DEF VehicleConnect, VehicleClose, TypeOK
  <2>3. FlagOK' /\ QueueOK'
    BY <1>0, <2>1, <2>2 DEF FlagOK, QueueOK
  <2>4. \A g \in Handler : client[g] \in {"none", "open", "closed"}
    BY <1>0 DEF TypeOK
  <2>5. NoLostWakeup'
    BY <1>0, <2>1, <2>2, <2>4 DEF QueueOK, NoLostWakeup
  <2> QED
    BY <2>3, <2>5 DEF WriteOK
<1>2. ASSUME NEW h \in Handler, AcceptingOk(h) PROVE WriteOK'
  <2>1. \A g \in Handler : g > h => state[g] = "unborn"
    BY <1>2, OneAccepting
  <2>2. /\ state' = [state EXCEPT ![h + 1] = "ACCEPTING"]
        /\ UNCHANGED <<queue, writing, inflight, client>>
    BY <1>2 DEF AcceptingOk, NewSibling, streamVars
  <2>3. \A g \in Handler : state'[g] = "deleted" <=> state[g] = "deleted"
    BY <1>0, <2>1, <2>2 DEF TypeOK
  <2> QED
    BY <1>0, <2>2, <2>3 DEF WriteOK, FlagOK, QueueOK, NoLostWakeup
<1>3. CASE FlushOne
  <2>1. /\ cq.h \in Handler /\ state[cq.h] = "ACCEPTING" /\ active = cq.h
        /\ pending # <<>>
    BY <1>0, <1>3 DEF FlushOne, ThreadOK
  <2>2. client[cq.h] # "none"
    BY <1>0, <2>1 DEF ClientOK
  <2>3. Append(queue[cq.h], Head(pending)) \in Seq(Command)
    BY <1>0, <2>1, SMTT(30) DEF TypeOK
  <2>4. /\ inflight[cq.h] \in Nat /\ inflight[cq.h] <= 1
        /\ cq.h \in writing <=> inflight[cq.h] = 1
    BY <1>0, <2>1 DEF TypeOK, FlagOK
  <2> QED
    BY <1>0, <1>3, <2>1, <2>2, <2>3, <2>4, FlushKeepsWriteOK
       DEF FlushOne, Enqueue, TypeOK
<1>4. CASE FlushDone
  BY <1>0, <1>4 DEF FlushDone, streamVars, WriteOK, TypeOK, ThreadOK, FlagOK,
     QueueOK, NoLostWakeup
<1>5. ASSUME NEW h \in Handler, AcceptingFailed(h) PROVE WriteOK'
  BY <1>0, <1>5, ZenonT(60)
  DEF AcceptingFailed, DeleteHandler, WriteOK, TypeOK, FlagOK,
     QueueOK, NoLostWakeup
<1>6. ASSUME NEW h \in Handler, ReadingFailed(h) PROVE WriteOK'
  BY <1>0, <1>6, ZenonT(60)
  DEF ReadingFailed, streamVars, WriteOK, TypeOK, FlagOK,
     QueueOK, NoLostWakeup
<1>7. ASSUME NEW h \in Handler, FinishDone(h) PROVE WriteOK'
  BY <1>0, <1>7 DEF FinishDone, DeleteHandler, WriteOK, TypeOK, FlagOK,
     QueueOK, NoLostWakeup
<1>8. ASSUME NEW h \in Handler, OnWriteDone(h) PROVE WriteOK'
  <2>1. client[h] # "none"
    BY <1>0, <1>8 DEF OnWriteDone, QueueOK
  <2>2. inflight[h] - 1 \in Nat /\ inflight[h] - 1 = 0
    BY <1>0, <1>8, SMTT(30) DEF OnWriteDone, TypeOK, FlagOK
  <2>3. /\ writing \ {h} \in SUBSET Handler /\ h \notin writing \ {h}
        /\ queue[h] \in Seq(Command)
    BY <1>0 DEF TypeOK
  <2>4. /\ FlushWriteQueue(h, queue[h], writing \ {h}, inflight[h] - 1)
        /\ state[h] # "deleted" /\ UNCHANGED <<state, client>>
    BY <1>8 DEF OnWriteDone
  <2>5. /\ inflight[h] - 1 <= 1
        /\ h \in writing \ {h} <=> inflight[h] - 1 = 1
        /\ \A g \in Handler \ {h} : g \in writing \ {h} <=> g \in writing
    BY <2>2
  <2> HIDE DEF Handler
  <2> QED
    BY <2>1, <2>2, <2>3, <2>4, <2>5, FlushKeepsWriteOK
<1>9. ASSUME NEW h \in Handler, OnWriteFailed(h) PROVE WriteOK'
  <2>1. /\ inflight[h] = 1 /\ client[h] = "closed" /\ state[h] # "deleted"
        /\ inflight' = [inflight EXCEPT ![h] = inflight[h] - 1]
        /\ writing' = writing \ {h} /\ UNCHANGED <<state, queue, client>>
    BY <1>0, <1>9, SMTT(30) DEF OnWriteFailed, TypeOK, FlagOK
  <2>2. inflight'[h] = 0 /\ \A g \in Handler \ {h} : inflight'[g] = inflight[g]
    BY <1>0, <2>1 DEF TypeOK
  <2>3. FlagOK'
    BY <1>0, <2>1, <2>2 DEF FlagOK
  <2>4. QueueOK' /\ NoLostWakeup'
    BY <1>0, <2>1, <2>2 DEF QueueOK, NoLostWakeup
  <2> QED
    BY <2>3, <2>4 DEF WriteOK
<1>10. ASSUME NEW h \in Handler, OnWriteDoneDangling(h) PROVE WriteOK'
  <2>1. /\ inflight[h] = 1 /\ state[h] = "deleted"
        /\ inflight' = [inflight EXCEPT ![h] = inflight[h] - 1]
        /\ UNCHANGED <<state, queue, writing, client>>
    BY <1>0, <1>10, SMTT(30) DEF OnWriteDoneDangling, TypeOK, FlagOK
  <2>2. inflight'[h] = 0 /\ \A g \in Handler \ {h} : inflight'[g] = inflight[g]
    BY <1>0, <2>1 DEF TypeOK
  <2>3. FlagOK'
    BY <1>0, <2>1, <2>2 DEF FlagOK
  <2>4. QueueOK' /\ NoLostWakeup'
    BY <1>0, <2>1, <2>2 DEF QueueOK, NoLostWakeup
  <2> QED
    BY <2>3, <2>4 DEF WriteOK
<1>11. CASE PushEnqueue
  <2>1. /\ push.h \in Handler /\ state[push.h] # "deleted"
        /\ push.cmd \in Command /\ client[push.h] # "none"
    BY <1>0, <1>11 DEF PushEnqueue, TypeOK, PushOK, ClientOK
  <2>2. Append(queue[push.h], push.cmd) \in Seq(Command)
    BY <1>0, <2>1 DEF TypeOK
  <2>3. /\ inflight[push.h] \in Nat /\ inflight[push.h] <= 1
        /\ push.h \in writing <=> inflight[push.h] = 1
    BY <1>0, <2>1 DEF TypeOK, FlagOK
  <2> QED
    BY <1>0, <1>11, <2>1, <2>2, <2>3, FlushKeepsWriteOK
       DEF PushEnqueue, Enqueue, TypeOK
<1>12. CASE UNCHANGED <<state, client, queue, writing, inflight>>
  BY <1>0, <1>12 DEF WriteOK, FlagOK, QueueOK, NoLostWakeup
<1> QED
  BY <1>1, <1>2, <1>3, <1>4, <1>5, <1>6, <1>7, <1>8, <1>9, <1>10, <1>11, <1>12
     DEF Step, CompletionQueueThread, MqttThread, Environment, vars,
         streamVars, FlushLock, ReadingOk, LoadActive, PushPending,
         PushDangling, StopServer

-----------------------------------------------------------------------------
\* The inductive invariant holds in every reachable state.
THEOREM Invariance == Spec => []IndInv
<1>1. IndInv /\ [Next]_vars => IndInv'
  BY NextIsStep, TypeStep, ThreadStep, FrontierStep, ClientStep, ListenStep,
     LatestStep, WriteStep DEF IndInv, WriteOK
<1> QED
  BY InitIndInv, <1>1, PTL DEF Spec

\* Every variable keeps its type.
THEOREM TypeCorrectness == Spec => []TypeOK
<1>1. IndInv => TypeOK
  BY DEF IndInv
<1> QED
  BY <1>1, Invariance, PTL

\* However the MQTT thread's enqueue() and the completion-queue thread's
\* on_write_done() interleave, a stream has at most one write outstanding.
THEOREM SingleWrite == Spec => []OneWriteInFlight
<1>1. IndInv => OneWriteInFlight
  BY DEF IndInv, FlagOK, OneWriteInFlight
<1> QED
  BY <1>1, Invariance, PTL

\* No command is stuck in the write queue of an open stream with no write
\* running to send it.
THEOREM WakeupNotLost == Spec => []NoLostWakeup
<1>1. IndInv => NoLostWakeup
  BY DEF IndInv
<1> QED
  BY <1>1, Invariance, PTL

\* What active_ names is connected, whenever it is read.
THEOREM ActiveUsable == Spec => []ActiveIsConnected
<1>1. IndInv => ActiveIsConnected
  BY DEF IndInv
<1> QED
  BY <1>1, Invariance, PTL

\* The late end of an old stream never unhooks the stream accepted last.
THEOREM LatestWins == Spec => []LatestStreamIsActive
<1>1. IndInv => LatestStreamIsActive
  BY DEF IndInv
<1> QED
  BY <1>1, Invariance, PTL

\* Until shutdown there is always exactly one handler for the next vehicle.
THEOREM AlwaysListening == Spec => []OneHandlerListens
<1>1. IndInv => OneHandlerListens
  BY DEF IndInv
<1> QED
  BY <1>1, Invariance, PTL

-----------------------------------------------------------------------------
(***************************************************************************)
(* The way of a command through the gateway: the inductive invariant, on   *)
(* top of IndInv, for the order in which commands are written and for the  *)
(* refinement of CommandDelivery.                                          *)
(***************************************************************************)

\* Everything enqueued at h, but for what was dropped with its write queue: the
\* commands written and those waiting behind them.
Line(h) == written[h] \o queue[h]

\* The commands that push_command() is done with.
Settled == {c \in Command : c <= arrived /\ (push.at = "push" => c # arrived)}

\* push_command() runs for the command that arrived last.
PushCurrent ==
  IF push.at = "push" THEN push.cmd = arrived ELSE push = Receiving

\* A handler that had a stream finishes, and is deleted, after the vehicle left.
ClosedOK ==
  \A h \in Handler :
    state[h] \in {"FINISH", "deleted"} => client[h] \in {"none", "closed"}

\* Pending commands are held, and wait in the order of their arrival.
HeldOK ==
  /\ held \subseteq Settled
  /\ \A i \in DOMAIN pending : pending[i] \in held
  /\ \A i, j \in DOMAIN pending : i < j => pending[i] < pending[j]

\* What PathFifo says, of the commands still in the write queue too.
LineOrder ==
  \A h \in Handler : \A i, j \in DOMAIN Line(h) :
    /\ i < j
    /\ Line(h)[i] \in held <=> Line(h)[j] \in held
    => Line(h)[i] < Line(h)[j]

\* A command that was held and enqueued is older than all that are pending.
LineSettled ==
  \A h \in Handler : \A i \in DOMAIN Line(h) :
    /\ Line(h)[i] \in Settled
    /\ Line(h)[i] \in held => \A k \in DOMAIN pending : Line(h)[i] < pending[k]

\* No command is enqueued twice, neither at one handler nor at two.
LinesApart ==
  \A g, h \in Handler : \A i \in DOMAIN Line(g), j \in DOMAIN Line(h) :
    Line(g)[i] = Line(h)[j] => g = h /\ i = j

LinesOK == LineOrder /\ LineSettled /\ LinesApart

PathInv ==
  /\ PushCurrent
  /\ ClosedOK
  /\ HeldOK
  /\ LinesOK

-----------------------------------------------------------------------------
(***************************************************************************)
(* What the write path does to the lines.                                  *)
(***************************************************************************)

\* A line consists of commands.
LEMMA LineTypes ==
  ASSUME TypeOK, NEW h \in Handler
  PROVE  /\ Line(h) \in Seq(Command)
         /\ DOMAIN Line(h) = 1..Len(Line(h))
         /\ \A i \in DOMAIN Line(h) : Line(h)[i] \in Command
         /\ \A i \in DOMAIN Line(h) : i \in Nat
<1>1. written[h] \in Seq(Command) /\ queue[h] \in Seq(Command)
  BY DEF TypeOK
<1>2. Line(h) \in Seq(Command)
  BY <1>1, ConcatProperties DEF Line
<1> HIDE DEF Line
<1> QED
  BY <1>2, LenProperties, ElementOfSeq

\* What was written comes first in a line, what is queued after it.
LEMMA WrittenFirst ==
  ASSUME TypeOK, NEW h \in Handler
  PROVE  /\ \A i \in DOMAIN written[h] :
              i \in DOMAIN Line(h) /\ Line(h)[i] = written[h][i]
         /\ \A i \in DOMAIN queue[h] :
              /\ Len(written[h]) + i \in DOMAIN Line(h)
              /\ Line(h)[Len(written[h]) + i] = queue[h][i]
<1>1. written[h] \in Seq(Command) /\ queue[h] \in Seq(Command)
  BY DEF TypeOK
<1>2. ASSUME NEW s \in Seq(Command), NEW q \in Seq(Command)
      PROVE  /\ \A i \in DOMAIN s : i \in DOMAIN (s \o q) /\ (s \o q)[i] = s[i]
             /\ \A i \in DOMAIN q : /\ Len(s) + i \in DOMAIN (s \o q)
                                    /\ (s \o q)[Len(s) + i] = q[i]
  OBVIOUS
<1> QED
  BY <1>1, <1>2, Zenon DEF Line

\* To move the head of a queue to the end of what is in front of it changes
\* nothing in the line of both.
LEMMA MoveHead ==
  ASSUME NEW S, NEW s \in Seq(S), NEW q \in Seq(S), q # <<>>
  PROVE  Append(s, Head(q)) \o Tail(q) = s \o q
<1>1. Head(q) \in S /\ Tail(q) \in Seq(S) /\ <<Head(q)>> \in Seq(S)
  BY HeadTailProperties
<1>2. q = <<Head(q)>> \o Tail(q)
  <2>1. Len(<<Head(q)>> \o Tail(q)) = Len(q)
    BY <1>1
  <2>2. \A i \in 1..Len(q) : (<<Head(q)>> \o Tail(q))[i] = q[i]
    BY <1>1
  <2>3. <<Head(q)>> \o Tail(q) \in Seq(S)
    BY <1>1
  <2> QED
    BY <2>1, <2>2, <2>3, SeqEqual
<1>3. Append(s, Head(q)) \o Tail(q) = s \o (<<Head(q)>> \o Tail(q))
  BY <1>1, AppendIsConcat, ConcatAssociative, SMTT(30)
<1> QED
  BY <1>2, <1>3

\* To append to a queue is to append to the line it ends.
LEMMA AppendToConcat ==
  ASSUME NEW S, NEW s \in Seq(S), NEW q \in Seq(S), NEW c \in S
  PROVE  s \o Append(q, c) = Append(s \o q, c)
<1>1. <<c>> \in Seq(S) /\ s \o q \in Seq(S)
  BY ConcatProperties
<1>2. Append(q, c) = q \o <<c>> /\ Append(s \o q, c) = (s \o q) \o <<c>>
  BY <1>1, AppendIsConcat
<1>3. (s \o q) \o <<c>> = s \o (q \o <<c>>)
  BY <1>1, ConcatAssociative
<1> QED
  BY <1>2, <1>3

\* flush_write_queue_locked() moves commands within a line only.
LEMMA FlushLine ==
  ASSUME TypeOK, NEW h \in Handler, NEW q \in Seq(Command),
         NEW w \in SUBSET Handler, NEW n \in Nat, FlushWriteQueue(h, q, w, n)
  PROVE  /\ Line(h)' = written[h] \o q
         /\ \A g \in Handler \ {h} : Line(g)' = Line(g)
<1>0. /\ written \in [Handler -> Seq(Command)]
      /\ queue \in [Handler -> Seq(Command)]
  BY DEF TypeOK
<1>1. CASE q = <<>> \/ h \in w
  <2>1. queue' = [queue EXCEPT ![h] = q] /\ written' = written
    BY <1>1, Zenon DEF FlushWriteQueue
  <2> QED
    BY <1>0, <2>1 DEF Line
<1>2. CASE ~(q = <<>> \/ h \in w)
  <2>1. /\ queue' = [queue EXCEPT ![h] = Tail(q)]
        /\ written' = [written EXCEPT ![h] = Append(written[h], Head(q))]
    BY <1>2, Zenon DEF FlushWriteQueue
  <2>2. Append(written[h], Head(q)) \o Tail(q) = written[h] \o q
    BY <1>0, <1>2, MoveHead
  <2>3. /\ queue'[h] = Tail(q) /\ written'[h] = Append(written[h], Head(q))
        /\ \A g \in Handler \ {h} :
             queue'[g] = queue[g] /\ written'[g] = written[g]
    BY <1>0, <2>1
  <2> QED
    BY <2>2, <2>3, Zenon DEF Line
<1> QED
  BY <1>1, <1>2

\* enqueue() appends to one line.
LEMMA EnqueueLine ==
  ASSUME TypeOK, NEW h \in Handler, NEW c \in Command, Enqueue(h, c)
  PROVE  /\ Line(h)' = Append(Line(h), c)
         /\ \A g \in Handler \ {h} : Line(g)' = Line(g)
<1>1. /\ written[h] \in Seq(Command) /\ queue[h] \in Seq(Command)
      /\ writing \in SUBSET Handler /\ inflight[h] \in Nat
      /\ Append(queue[h], c) \in Seq(Command) /\ <<c>> \in Seq(Command)
  BY DEF TypeOK
<1>2. /\ Line(h)' = written[h] \o Append(queue[h], c)
      /\ \A g \in Handler \ {h} : Line(g)' = Line(g)
  BY <1>1, FlushLine DEF Enqueue
<1>3. written[h] \o Append(queue[h], c) = Append(Line(h), c)
  <2>1. \A s, q \in Seq(Command) : s \o Append(q, c) = Append(s \o q, c)
    BY AppendToConcat
  <2> QED
    BY <1>1, <2>1, Zenon DEF Line
<1> QED
  BY <1>2, <1>3

\* Every line is a prefix of what it was.
LinesShortened ==
  \A h \in Handler :
    /\ DOMAIN Line(h)' \subseteq DOMAIN Line(h)
    /\ \A i \in DOMAIN Line(h)' : Line(h)'[i] = Line(h)[i]

\* A handler that is deleted keeps what it has written.
LEMMA DeleteLine ==
  ASSUME TypeOK, NEW h \in Handler, DeleteHandler(h)
  PROVE  LinesShortened
<1>1. /\ written \in [Handler -> Seq(Command)]
      /\ queue \in [Handler -> Seq(Command)]
      /\ queue' = [queue EXCEPT ![h] = <<>>] /\ written' = written
  BY DEF TypeOK, DeleteHandler
<1>2. \A g \in Handler \ {h} : Line(g)' = Line(g)
  BY <1>1 DEF Line
<1>3. Line(h)' = written[h]
  BY <1>1, ConcatEmptySeq DEF Line
<1>4. /\ DOMAIN written[h] \subseteq DOMAIN Line(h)
      /\ \A i \in DOMAIN written[h] : written[h][i] = Line(h)[i]
  BY <1>1, ConcatProperties DEF Line
<1> QED
  BY <1>2, <1>3, <1>4 DEF LinesShortened
-----------------------------------------------------------------------------
(***************************************************************************)
(* What a step may do to the lines.                                        *)
(***************************************************************************)

\* Lines may be cut.  Commands may be settled and held meanwhile, as long as none
\* that was settled becomes held, and those that become pending are younger.
LEMMA LinesCut ==
  ASSUME TypeOK, LinesOK, LinesShortened, Settled \subseteq Settled',
         \A c \in Settled : c \in held' <=> c \in held,
         \A c \in Settled :
           (\A k \in DOMAIN pending : c < pending[k])
             => \A k \in DOMAIN pending' : c < pending'[k]
  PROVE  LinesOK'
<1>1. \A h \in Handler : \A i \in DOMAIN Line(h)' :
        /\ i \in DOMAIN Line(h)
        /\ Line(h)'[i] = Line(h)[i]
        /\ Line(h)[i] \in Settled
  BY DEF LinesShortened, LinesOK, LineSettled
<1> HIDE DEF Line
<1>2. LineOrder'
  BY <1>1 DEF LinesOK, LineOrder
<1>3. LineSettled'
  BY <1>1 DEF LinesOK, LineSettled
<1>4. LinesApart'
  BY <1>1 DEF LinesOK, LinesApart
<1> QED
  BY <1>2, <1>3, <1>4 DEF LinesOK

\* A command may be appended to a line if it is in none, if it is younger than
\* those in the line that came the same way, and older than what is pending if it
\* was held.
LEMMA LinesGrow ==
  ASSUME TypeOK, LinesOK, Settled \subseteq Settled', UNCHANGED held,
         NEW h \in Handler, NEW c \in Settled',
         Line(h)' = Append(Line(h), c),
         \A g \in Handler \ {h} : Line(g)' = Line(g),
         \A g \in Handler : \A i \in DOMAIN Line(g) : Line(g)[i] # c,
         \A i \in DOMAIN Line(h) :
           (Line(h)[i] \in held <=> c \in held) => Line(h)[i] < c,
         \A k \in DOMAIN pending' :
           \E m \in DOMAIN pending : pending'[k] = pending[m],
         c \in held => \A k \in DOMAIN pending' : c < pending'[k]
  PROVE  LinesOK'
<1> DEFINE n == Len(Line(h)) + 1
<1>1. /\ Line(h) \in Seq(Command) /\ c \in Command
      /\ DOMAIN Line(h) = 1..Len(Line(h)) /\ Len(Line(h)) \in Nat
  BY LineTypes, LenProperties DEF Settled
<1>2. /\ DOMAIN Line(h)' = 1..n /\ n \in Nat
      /\ Line(h)'[n] = c
      /\ \A i \in DOMAIN Line(h)' \ {n} :
           i \in DOMAIN Line(h) /\ Line(h)'[i] = Line(h)[i] /\ i < n
  <2>1. Len(Line(h)') = n /\ Line(h)' \in Seq(Command)
    BY <1>1, AppendProperties
  <2> QED
    BY <1>1, <2>1, AppendProperties, LenProperties
<1>3. \A g \in Handler : \A i \in DOMAIN Line(g)' :
        IF g = h /\ i = n
        THEN Line(g)'[i] = c
        ELSE i \in DOMAIN Line(g) /\ Line(g)'[i] = Line(g)[i]
  BY <1>2
<1>4. \A i \in DOMAIN Line(h)' : i \in 1..n
  BY <1>2
<1> HIDE DEF Line, n
<1>5. LineOrder'
  <2> SUFFICES ASSUME NEW g \in Handler, NEW i \in DOMAIN Line(g)',
                      NEW j \in DOMAIN Line(g)', i < j,
                      Line(g)'[i] \in held <=> Line(g)'[j] \in held
               PROVE  Line(g)'[i] < Line(g)'[j]
    BY DEF LineOrder
  <2>1. CASE g = h /\ j = n
    <3>1. i # n /\ Line(h)'[j] = c
      BY <1>2, <1>4, <2>1
    <3>2. i \in DOMAIN Line(h) /\ Line(h)'[i] = Line(h)[i]
      BY <1>2, <2>1, <3>1
    <3> QED
      BY <2>1, <3>1, <3>2
  <2>2. CASE ~(g = h /\ j = n)
    <3>1. ~(g = h /\ i = n)
      BY <1>2, <1>4, <2>2
    <3> QED
      BY <1>3, <2>2, <3>1 DEF LinesOK, LineOrder
  <2> QED
    BY <2>1, <2>2
<1>6. LineSettled'
  BY <1>3 DEF LinesOK, LineSettled
<1>7. LinesApart'
  <2> SUFFICES ASSUME NEW f \in Handler, NEW g \in Handler,
                      NEW i \in DOMAIN Line(f)', NEW j \in DOMAIN Line(g)',
                      Line(f)'[i] = Line(g)'[j]
               PROVE  f = g /\ i = j
    BY DEF LinesApart
  <2>1. CASE (f = h /\ i = n) <=> (g = h /\ j = n)
    BY <1>3, <2>1 DEF LinesOK, LinesApart
  <2>2. CASE ~((f = h /\ i = n) <=> (g = h /\ j = n))
    BY <1>3, <2>2
  <2> QED
    BY <2>1, <2>2
<1> QED
  BY <1>5, <1>6, <1>7 DEF LinesOK
-----------------------------------------------------------------------------
\* Nothing has arrived.
LEMMA InitPathInv == Init => PathInv
<1> SUFFICES ASSUME Init PROVE PathInv
  OBVIOUS
<1>1. \A h \in Handler : Line(h) = <<>>
  BY DEF Init, Line
<1>2. LinesOK
  BY <1>1 DEF LinesOK, LineOrder, LineSettled, LinesApart
<1>3. PushCurrent /\ ClosedOK
  BY DEF Init, PushCurrent, Receiving, ClosedOK
<1>4. HeldOK
  BY DEF Init, HeldOK
<1> QED
  BY <1>2, <1>3, <1>4 DEF PathInv

\* Where push_command() starts and where it ends.
LEMMA PushStep ==
  ASSUME IndInv, PathInv, Step
  PROVE  PushCurrent' /\ Settled \subseteq Settled'
<1> USE BoundsAssumption
    DEF IndInv, TypeOK, PathInv, PushCurrent, Settled, Command
<1>1. CASE LoadActive
  <2>1. /\ push.at = "receive" /\ arrived' = arrived + 1
        /\ push'.at = "push" /\ push'.cmd = arrived + 1
    BY <1>1 DEF LoadActive, Receiving
  <2> QED
    BY <2>1, SMTT(30)
<1>2. CASE PushPending \/ PushEnqueue \/ PushDangling
  <2>1. push' = Receiving /\ UNCHANGED arrived
    BY <1>2, Zenon DEF PushPending, PushEnqueue, PushDangling
  <2> QED
    BY <2>1 DEF Receiving
<1>3. CASE UNCHANGED <<push, arrived>>
  BY <1>3
<1> QED
  BY <1>1, <1>2, <1>3
     DEF Step, CompletionQueueThread, MqttThread, Environment, vars, FlushLock,
         FlushOne, FlushDone, AcceptingOk, AcceptingFailed, ReadingOk,
         ReadingFailed, FinishDone, OnWriteDone, OnWriteFailed,
         OnWriteDoneDangling, VehicleConnect, VehicleClose, StopServer

\* A stream ends only after its vehicle left.
LEMMA ClosedStep == ASSUME IndInv, PathInv, Step PROVE ClosedOK'
<1> USE DEF IndInv, TypeOK, PathInv, ClosedOK
<1>1. ASSUME NEW h \in Handler, VehicleConnect(h) \/ VehicleClose(h)
      PROVE  ClosedOK'
  <2>1. CASE VehicleConnect(h)
    BY <2>1 DEF VehicleConnect
  <2>2. CASE VehicleClose(h)
    BY <2>2 DEF VehicleClose
  <2> QED
    BY <1>1, <2>1, <2>2
<1>2. ASSUME NEW h \in Handler, AcceptingOk(h) PROVE ClosedOK'
  BY <1>2 DEF AcceptingOk, NewSibling
<1>3. CASE FlushDone
  BY <1>3 DEF FlushDone
<1>4. ASSUME NEW h \in Handler, AcceptingFailed(h) PROVE ClosedOK'
  BY <1>4 DEF AcceptingFailed, DeleteHandler
<1>5. ASSUME NEW h \in Handler, ReadingFailed(h) PROVE ClosedOK'
  BY <1>5 DEF ReadingFailed
<1>6. ASSUME NEW h \in Handler, FinishDone(h) PROVE ClosedOK'
  BY <1>6 DEF FinishDone, DeleteHandler
<1>7. CASE UNCHANGED <<state, client>>
  BY <1>7
<1> QED
  BY <1>1, <1>2, <1>3, <1>4, <1>5, <1>6, <1>7
     DEF Step, CompletionQueueThread, MqttThread, Environment, vars, FlushLock,
         FlushOne, ReadingOk, OnWriteDone, OnWriteFailed, OnWriteDoneDangling,
         LoadActive, PushPending, PushEnqueue, PushDangling, StopServer

\* What push_command() puts into pending_commands_ is younger than all there.
LEMMA HeldStep == ASSUME IndInv, PathInv, Step PROVE HeldOK'
<1>0. Settled \subseteq Settled'
  BY PushStep
<1>1. CASE PushPending
  <2>1. /\ push.cmd \in Command /\ push.cmd = arrived /\ push.at = "push"
        /\ arrived' = arrived /\ push'.at = "receive"
        /\ pending' = Append(pending, push.cmd) /\ pending \in Seq(Command)
        /\ held' = held \cup {push.cmd}
    BY <1>1 DEF IndInv, TypeOK, PushOK, PathInv, PushCurrent, PushPending,
       Receiving
  <2>2. push.cmd \in Settled'
    BY <2>1 DEF Settled, Command
  <2>3. \A c \in Settled : c < push.cmd
    BY <2>1, BoundsAssumption DEF Settled, Command
  <2>4. /\ DOMAIN pending' = DOMAIN pending \cup {Len(pending) + 1}
        /\ pending'[Len(pending) + 1] = push.cmd
        /\ \A i \in DOMAIN pending :
             pending'[i] = pending[i] /\ i < Len(pending) + 1
    BY <2>1
  <2>5. \A i \in DOMAIN pending : pending[i] < push.cmd
    BY <2>3 DEF PathInv, HeldOK
  <2> QED
    BY <1>0, <2>1, <2>2, <2>4, <2>5 DEF PathInv, HeldOK
<1>2. CASE FlushOne
  <2>1. /\ pending \in Seq(Command) /\ pending # <<>>
        /\ pending' = Tail(pending) /\ held' = held
    BY <1>2 DEF FlushOne, IndInv, TypeOK
  <2>2. \A i \in DOMAIN pending' :
          i + 1 \in DOMAIN pending /\ pending'[i] = pending[i + 1]
    BY <2>1
  <2>3. \A i \in DOMAIN pending' : i \in Nat
    BY <2>1
  <2> QED
    BY <1>0, <2>1, <2>2, <2>3 DEF PathInv, HeldOK
<1>3. CASE UNCHANGED <<pending, held>>
  BY <1>0, <1>3 DEF PathInv, HeldOK
<1> QED
  BY <1>1, <1>2, <1>3
     DEF Step, CompletionQueueThread, MqttThread, Environment, vars, FlushLock,
         FlushDone, AcceptingOk, AcceptingFailed, ReadingOk, ReadingFailed,
         FinishDone, OnWriteDone, OnWriteFailed, OnWriteDoneDangling,
         LoadActive, PushEnqueue, PushDangling, VehicleConnect, VehicleClose,
         StopServer

\* A step that leaves the write queues alone leaves the lines alone.
LEMMA SameLines == ASSUME UNCHANGED <<written, queue>> PROVE LinesShortened
BY DEF LinesShortened, Line

\* enqueue() from flush_pending() and from push_command() keeps the lines in
\* order and apart; the other steps at most cut them.
LEMMA LinesStep == ASSUME IndInv, PathInv, Step PROVE LinesOK'
<1>0. /\ TypeOK /\ LinesOK /\ HeldOK /\ PushCurrent
      /\ Settled \subseteq Settled'
  BY PushStep DEF IndInv, PathInv
<1>1. CASE FlushOne
  <2>1. /\ cq.h \in Handler /\ pending \in Seq(Command) /\ pending # <<>>
        /\ Enqueue(cq.h, Head(pending))
        /\ pending' = Tail(pending) /\ held' = held
    BY <1>0, <1>1 DEF FlushOne, IndInv, ThreadOK, TypeOK
  <2>2. PICK h \in Handler, c \in Command :
          /\ h = cq.h /\ c = Head(pending)
          /\ 1 \in DOMAIN pending /\ c = pending[1]
    BY <2>1
  <2>3. \A k \in DOMAIN pending' :
          /\ k + 1 \in DOMAIN pending /\ pending'[k] = pending[k + 1]
          /\ 1 < k + 1
    BY <2>1
  <2>4. c \in held /\ c \in Settled'
    BY <1>0, <2>1, <2>2 DEF HeldOK
  <2>5. \A k \in DOMAIN pending' : c < pending'[k]
    BY <1>0, <2>2, <2>3 DEF HeldOK
  <2>6. Enqueue(h, c)
    BY <2>1, <2>2
  <2>7. /\ Line(h)' = Append(Line(h), c)
        /\ \A g \in Handler \ {h} : Line(g)' = Line(g)
    BY <1>0, <2>6, EnqueueLine
  <2>8. \A g \in Handler : \A i \in DOMAIN Line(g) :
          Line(g)[i] \in held => Line(g)[i] < c
    BY <1>0, <2>2 DEF LinesOK, LineSettled
  <2>9. \A g \in Handler : \A i \in DOMAIN Line(g) : Line(g)[i] # c
    BY <2>2, <2>4, <2>8 DEF Command
  <2> QED
    BY <1>0, <2>1, <2>3, <2>4, <2>5, <2>7, <2>8, <2>9, LinesGrow
<1>2. CASE PushEnqueue
  <2>1. /\ push.h \in Handler /\ push.cmd \in Command /\ push.cmd = arrived
        /\ push.at = "push" /\ push'.at = "receive" /\ arrived' = arrived
        /\ Enqueue(push.h, push.cmd) /\ UNCHANGED <<pending, held>>
    BY <1>0, <1>2
    DEF PushEnqueue, IndInv, PushOK, TypeOK, PushCurrent, Receiving
  <2>2. PICK h \in Handler, c \in Command : h = push.h /\ c = push.cmd
    BY <2>1
  <2>3. c \in Settled' /\ c \notin Settled
    BY <2>1, <2>2 DEF Settled, Command
  <2>4. \A d \in Settled : d < c
    BY <2>1, <2>2, BoundsAssumption DEF Settled, Command
  <2>5. c \notin held
    BY <1>0, <2>3 DEF HeldOK
  <2>6. Enqueue(h, c)
    BY <2>1, <2>2
  <2>7. /\ Line(h)' = Append(Line(h), c)
        /\ \A g \in Handler \ {h} : Line(g)' = Line(g)
    BY <1>0, <2>6, EnqueueLine
  <2>8. \A g \in Handler : \A i \in DOMAIN Line(g) :
          Line(g)[i] # c /\ Line(g)[i] < c
    BY <1>0, <2>3, <2>4 DEF LinesOK, LineSettled
  <2> QED
    BY <1>0, <2>1, <2>3, <2>5, <2>7, <2>8, LinesGrow
<1>3. CASE PushPending
  <2>1. /\ UNCHANGED <<written, queue>> /\ push.cmd = arrived
        /\ push.cmd \in Command /\ push.at = "push" /\ pending \in Seq(Command)
        /\ pending' = Append(pending, push.cmd)
        /\ held' = held \cup {push.cmd}
    BY <1>0, <1>3 DEF PushPending, IndInv, PushOK, TypeOK, PushCurrent,
       streamVars
  <2>2. \A c \in Settled : c # push.cmd /\ c < push.cmd
    BY <1>0, <2>1 DEF TypeOK, Settled, Command
  <2>3. \A k \in DOMAIN pending' :
          \/ pending'[k] = push.cmd
          \/ k \in DOMAIN pending /\ pending'[k] = pending[k]
    BY <2>1
  <2>4. LinesShortened
    BY <2>1, SameLines
  <2> QED
    BY <1>0, <2>1, <2>2, <2>3, <2>4, LinesCut
<1>4. ASSUME NEW h \in Handler, AcceptingFailed(h) \/ FinishDone(h)
      PROVE  LinesOK'
  <2>1. DeleteHandler(h) /\ UNCHANGED <<pending, held>>
    BY <1>4 DEF AcceptingFailed, FinishDone
  <2> QED
    BY <1>0, <2>1, DeleteLine, LinesCut
<1>5. ASSUME NEW h \in Handler, OnWriteDone(h) PROVE LinesOK'
  <2>1. /\ FlushWriteQueue(h, queue[h], writing \ {h}, inflight[h] - 1)
        /\ queue[h] \in Seq(Command) /\ writing \ {h} \in SUBSET Handler
        /\ inflight[h] - 1 \in Nat /\ UNCHANGED <<pending, held>>
    BY <1>0, <1>5, SMTT(30) DEF OnWriteDone, TypeOK
  <2>2. /\ Line(h)' = Line(h)
        /\ \A g \in Handler \ {h} : Line(g)' = Line(g)
    BY <1>0, <2>1, FlushLine DEF Line
  <2>3. LinesShortened
    BY <2>2 DEF LinesShortened
  <2> QED
    BY <1>0, <2>1, <2>3, LinesCut
<1>6. CASE UNCHANGED <<written, queue, pending, held>>
  BY <1>0, <1>6, SameLines, LinesCut
<1> QED
  BY <1>1, <1>2, <1>3, <1>4, <1>5, <1>6
     DEF Step, CompletionQueueThread, MqttThread, Environment, vars,
         streamVars, FlushLock, FlushDone, AcceptingOk, ReadingOk,
         ReadingFailed, OnWriteFailed, OnWriteDoneDangling, LoadActive,
         PushDangling, VehicleConnect, VehicleClose, StopServer

\* Both invariants hold in every reachable state.
LEMMA PathInvariance == Spec => [](IndInv /\ PathInv)
<1>1. IndInv /\ PathInv /\ [Next]_vars => PathInv'
  BY NextIsStep, PushStep, ClosedStep, HeldStep, LinesStep DEF PathInv
<1> QED
  BY InitPathInv, Invariance, <1>1, PTL DEF Spec

-----------------------------------------------------------------------------
\* However push_command(), the flush of a new stream and the completions of
\* writes interleave, commands that took the same way are written in order.
THEOREM WrittenInOrder == Spec => []PathFifo
<1>1. ASSUME IndInv, PathInv PROVE PathFifo
  <2>1. \A h \in Handler : \A i \in DOMAIN written[h] :
          i \in DOMAIN Line(h) /\ Line(h)[i] = written[h][i]
    BY <1>1, WrittenFirst DEF IndInv
  <2> QED
    BY <1>1, <2>1 DEF PathInv, LinesOK, LineOrder, PathFifo
<1> QED
  BY PathInvariance, <1>1, PTL

-----------------------------------------------------------------------------
(***************************************************************************)
(* The refinement of CommandDelivery.                                      *)
(***************************************************************************)

\* The gateway has the command, in one of the places it can wait in.
Inside(c) ==
  \/ IsPending(c)
  \/ push.cmd = c
  \/ \E h \in Handler : InQueue(h, c)

Ended == \E h \in Handler : client[h] = "closed"

\* A command that was written waits nowhere else.
WrittenIsOut ==
  \A h \in Handler : \A i \in DOMAIN written[h] : ~Inside(written[h][i])

\* It is in no other place of a line, older than what is pending and older than
\* what push_command() holds.
LEMMA WrittenOnce == IndInv /\ PathInv => WrittenIsOut
<1> SUFFICES ASSUME IndInv, PathInv, NEW h \in Handler,
                    NEW i \in DOMAIN written[h], NEW c, c = written[h][i]
             PROVE  ~Inside(c)
  BY DEF WrittenIsOut
<1>0. TypeOK /\ LinesOK /\ HeldOK /\ PushCurrent
  BY DEF IndInv, PathInv
<1>1. i \in DOMAIN Line(h) /\ Line(h)[i] = c /\ i <= Len(written[h])
  BY <1>0, WrittenFirst, LenProperties DEF TypeOK
<1>2. c \in Settled /\ c \in Command
  BY <1>0, <1>1 DEF LinesOK, LineSettled, Settled
<1>3. ~IsPending(c)
  <2> SUFFICES ASSUME NEW k \in DOMAIN pending, pending[k] = c PROVE FALSE
    BY DEF IsPending
  <2>1. c \in held
    BY <1>0 DEF HeldOK
  <2>2. c < pending[k]
    BY <1>0, <1>1, <2>1 DEF LinesOK, LineSettled
  <2> QED
    BY <1>2, <2>2 DEF Command
<1>4. push.cmd # c
  BY <1>0, <1>2 DEF PushCurrent, Settled, Receiving, NoCommand, Command, TypeOK
<1>5. ASSUME NEW g \in Handler, InQueue(g, c) PROVE FALSE
  <2>1. PICK j \in DOMAIN queue[g] : queue[g][j] = c
    BY <1>5 DEF InQueue
  <2>2. /\ Len(written[g]) + j \in DOMAIN Line(g)
        /\ Line(g)[Len(written[g]) + j] = c
    BY <1>0, <2>1, WrittenFirst
  <2>3. g = h /\ i = Len(written[g]) + j
    BY <1>0, <1>1, <2>2 DEF LinesOK, LinesApart
  <2>4. queue[g] \in Seq(Command) /\ written[h] \in Seq(Command)
    BY <1>0 DEF TypeOK
  <2>5. j \in Nat \ {0} /\ Len(written[h]) \in Nat
    <3>1. DOMAIN queue[g] = 1..Len(queue[g]) /\ Len(queue[g]) \in Nat
      BY <2>4, LenProperties
    <3> QED
      BY <2>4, <3>1, LenProperties
  <2> QED
    BY <1>1, <2>3, <2>5
<1> QED
  BY <1>3, <1>4, <1>5 DEF Inside

\* The command path has nothing to show for this step.
LEMMA Stutters ==
  ASSUME \A c \in Command : Inside(c)' <=> Inside(c),
         UNCHANGED <<process, arrived, written>>, Ended' <=> Ended
  PROVE  [Delivery!Next]_Delivery!vars
<1>1. Waiting' = Waiting
  BY DEF Waiting, Inside, Alive, Dead
<1> QED
  BY <1>1 DEF Delivery!vars, Ended

\* Once a vehicle has left, commands may be lost.
LEMMA Loses ==
  ASSUME Ended, UNCHANGED <<client, arrived, written>>,
         Waiting' \subseteq Waiting
  PROVE  [Delivery!Next]_Delivery!vars
<1>1. Waiting \ Waiting' \in SUBSET Waiting
  OBVIOUS
<1>2. Waiting' = Waiting \ (Waiting \ Waiting')
  OBVIOUS
<1>3. Delivery!Lose(Waiting \ Waiting')
  BY <1>2 DEF Delivery!Lose, Ended
<1> QED
  BY <1>1, <1>3 DEF Delivery!Next

\* The sequence q has the command d in it.
Has(q, d) == \E i \in DOMAIN q : q[i] = d

\* What is in a queue is its head or is behind it.
LEMMA HeadHas ==
  ASSUME NEW q \in Seq(Command), q # <<>>, NEW c, c = Head(q)
  PROVE  \A d : Has(q, d) <=> d = c \/ Has(Tail(q), d)
<1>1. 1 \in DOMAIN q /\ q[1] = c
  OBVIOUS
<1>2. \A i \in DOMAIN Tail(q) : i + 1 \in DOMAIN q /\ Tail(q)[i] = q[i + 1]
  OBVIOUS
<1>3. ASSUME NEW i \in DOMAIN q, i # 1
      PROVE  \E k \in DOMAIN Tail(q) : Tail(q)[k] = q[i]
  <2>1. /\ DOMAIN q = 1..Len(q) /\ Len(q) \in Nat
        /\ Tail(q) \in Seq(Command) /\ Len(Tail(q)) = Len(q) - 1
        /\ DOMAIN Tail(q) = 1..Len(Tail(q))
    BY LenProperties, HeadTailProperties
  <2>2. PICK k \in DOMAIN Tail(q) : k = i - 1
    BY <1>3, <2>1
  <2>3. k + 1 = i
    BY <2>1, <2>2
  <2> QED
    BY <1>2, <2>2, <2>3
<1> QED
  BY <1>1, <1>2, <1>3, Zenon DEF Has

\* flush_write_queue_locked() delivers a command or, if a write runs or there is
\* none, leaves them all in their places.
LEMMA FlushDelivers ==
  ASSUME TypeOK, NEW h \in Handler, NEW q \in Seq(Command),
         NEW w \in SUBSET Handler, NEW n \in Nat, FlushWriteQueue(h, q, w, n),
         Alive, UNCHANGED <<process, arrived, client>>, WrittenIsOut',
         \A d \in Command :
           Inside(d) <=> \/ IsPending(d)'
                         \/ push'.cmd = d
                         \/ \E i \in DOMAIN q : q[i] = d
                         \/ \E g \in Handler \ {h} : InQueue(g, d)
  PROVE  [Delivery!Next]_Delivery!vars
<1>0. /\ written \in [Handler -> Seq(Command)]
      /\ queue \in [Handler -> Seq(Command)]
  BY DEF TypeOK
<1>1. CASE q = <<>> \/ h \in w
  <2>1. queue' = [queue EXCEPT ![h] = q] /\ written' = written
    BY <1>1, Zenon DEF FlushWriteQueue
  <2>2. \A d \in Command :
          /\ InQueue(h, d)' <=> \E i \in DOMAIN q : q[i] = d
          /\ \A g \in Handler \ {h} : InQueue(g, d)' <=> InQueue(g, d)
    BY <1>0, <2>1 DEF InQueue
  <2>3. \A d \in Command : Inside(d)' <=> Inside(d)
    BY <2>2 DEF Inside
  <2> QED
    BY <2>1, <2>3, Stutters DEF Ended
<1>2. CASE ~(q = <<>> \/ h \in w)
  <2>1. /\ queue' = [queue EXCEPT ![h] = Tail(q)]
        /\ written' = [written EXCEPT ![h] = Append(written[h], Head(q))]
    BY <1>2, Zenon DEF FlushWriteQueue
  <2>2. PICK c \in Command : c = Head(q)
    BY <1>2
  <2>3. \A d \in Command :
          (\E i \in DOMAIN q : q[i] = d)
            <=> d = c \/ \E i \in DOMAIN Tail(q) : Tail(q)[i] = d
    <3>1. q # <<>> /\ c = Head(q)
      BY <1>2, <2>2
    <3>2. \A d : Has(q, d) <=> d = c \/ Has(Tail(q), d)
      BY <3>1, HeadHas
    <3> QED
      BY <3>2, Zenon DEF Has
  <2>4. \A d \in Command :
          /\ InQueue(h, d)' <=> \E i \in DOMAIN Tail(q) : Tail(q)[i] = d
          /\ \A g \in Handler \ {h} : InQueue(g, d)' <=> InQueue(g, d)
    BY <1>0, <2>1 DEF InQueue
  <2>5. ~Inside(c)'
    <3>1. written'[h] = Append(written[h], c)
      BY <1>0, <2>1, <2>2
    <3>2. ASSUME NEW r \in Seq(Command)
          PROVE  /\ Len(r) + 1 \in DOMAIN Append(r, c)
                 /\ Append(r, c)[Len(r) + 1] = c
      BY <2>2
    <3>3. written[h] \in Seq(Command)
      BY <1>0
    <3>4. \E i \in DOMAIN written'[h] : written'[h][i] = c
      BY <3>1, <3>2, <3>3, Zenon
    <3> QED
      BY <3>4 DEF WrittenIsOut
  <2>6. \A d \in Command : Inside(d)' <=> Inside(d) /\ d # c
    BY <2>3, <2>4, <2>5 DEF Inside
  <2>7. c \in Waiting /\ Waiting' = Waiting \ {c}
    BY <2>3, <2>6 DEF Waiting, Inside, Alive, Dead
  <2>8. Delivery!Deliver(h, c)
    BY <1>0, <2>1, <2>2, <2>7 DEF Delivery!Deliver
  <2> QED
    BY <2>7, <2>8 DEF Delivery!Next
<1> QED
  BY <1>1, <1>2

\* Waiting in the words of these lemmas.
LEMMA WaitingIsInside ==
  /\ Waiting = {c \in Command : Alive /\ Inside(c)}
  /\ Waiting' = {c \in Command : Alive' /\ Inside(c)'}
BY DEF Waiting, Inside

\* A command that push_command() takes comes in from the cloud.
LEMMA LoadArrives ==
  ASSUME TypeOK, Alive, LoadActive PROVE Delivery!Arrive
<1>1. /\ arrived < MaxCommands /\ arrived' = arrived + 1
      /\ push'.cmd = arrived + 1 /\ push.cmd = NoCommand
      /\ UNCHANGED <<pending, queue, written, client, process>>
  BY DEF LoadActive, Receiving, streamVars
<1>2. arrived + 1 \in Command
  BY <1>1, BoundsAssumption DEF TypeOK, Command
<1>3. \A c \in Command : Inside(c)' <=> Inside(c) \/ c = arrived + 1
  BY <1>1 DEF Inside, IsPending, InQueue, NoCommand, Command
<1>4. Waiting' = Waiting \cup {arrived + 1}
  BY <1>1, <1>2, <1>3, WaitingIsInside DEF Alive, Dead
<1> QED
  BY <1>1, <1>4 DEF Delivery!Arrive

\* To append a command adds it to those in a queue.
LEMMA AppendHas ==
  ASSUME NEW s \in Seq(Command), NEW e \in Command
  PROVE  /\ Append(s, e) \in Seq(Command)
         /\ \A d : (\E i \in DOMAIN Append(s, e) : Append(s, e)[i] = d)
                     <=> d = e \/ \E i \in DOMAIN s : s[i] = d
<1>1. /\ \A i \in DOMAIN s :
           i \in DOMAIN Append(s, e) /\ Append(s, e)[i] = s[i]
      /\ Len(s) + 1 \in DOMAIN Append(s, e)
      /\ Append(s, e)[Len(s) + 1] = e
      /\ \A i \in DOMAIN Append(s, e) :
           i \in DOMAIN s \/ Append(s, e)[i] = e
  OBVIOUS
<1>2. Append(s, e) \in Seq(Command)
  OBVIOUS
<1> QED
  BY <1>1, <1>2, Zenon

\* A command that finds no stream stays inside, among the pending ones.
LEMMA PendingStutters ==
  ASSUME TypeOK, PushOK, PushPending PROVE [Delivery!Next]_Delivery!vars
<1>1. /\ pending' = Append(pending, push.cmd)
      /\ push.cmd \in Command /\ push'.cmd = NoCommand
      /\ UNCHANGED <<queue, written, client, process, arrived>>
  BY DEF PushPending, Receiving, streamVars, PushOK
<1>2. PICK e \in Command : e = push.cmd
  BY <1>1
<1>3. pending \in Seq(Command)
  BY DEF TypeOK
<1>4. \A c : (\E i \in DOMAIN Append(pending, e) : Append(pending, e)[i] = c)
              <=> c = e \/ \E i \in DOMAIN pending : pending[i] = c
  BY <1>3, AppendHas
<1>5. \A c \in Command : IsPending(c)' <=> IsPending(c) \/ c = e
  BY <1>1, <1>2, <1>4, Zenon DEF IsPending
<1>6. \A c \in Command : Inside(c)' <=> Inside(c)
  BY <1>1, <1>2, <1>5 DEF Inside, InQueue, NoCommand, Command
<1> QED
  BY <1>1, <1>6, Stutters DEF Ended

\* A command that finds a stream joins its write queue.
LEMMA EnqueueDelivers ==
  ASSUME IndInv, Alive, PushEnqueue, WrittenIsOut'
  PROVE  [Delivery!Next]_Delivery!vars
<1>0. TypeOK /\ PushOK
  BY DEF IndInv
<1>1. PICK h \in Handler, e \in Command : h = push.h /\ e = push.cmd
  BY <1>0 DEF PushEnqueue, TypeOK, PushOK
<1>2. /\ FlushWriteQueue(h, Append(queue[h], e), writing, inflight[h])
      /\ push'.cmd = NoCommand
      /\ UNCHANGED <<pending, process, arrived, client>>
  BY <1>1 DEF PushEnqueue, Enqueue, Receiving
<1>3. queue[h] \in Seq(Command) /\ writing \in SUBSET Handler
      /\ inflight[h] \in Nat
  BY <1>0 DEF TypeOK
<1>4. /\ Append(queue[h], e) \in Seq(Command)
      /\ \A d :
           (\E i \in DOMAIN Append(queue[h], e) : Append(queue[h], e)[i] = d)
             <=> d = e \/ \E i \in DOMAIN queue[h] : queue[h][i] = d
  <2>1. PICK s \in Seq(Command) : s = queue[h]
    BY <1>3
  <2> QED
    BY <2>1, AppendHas
<1>5. \A d \in Command :
        Inside(d) <=> \/ IsPending(d)'
                      \/ push'.cmd = d
                      \/ \E i \in DOMAIN Append(queue[h], e) :
                           Append(queue[h], e)[i] = d
                      \/ \E g \in Handler \ {h} : InQueue(g, d)
  <2>1. \A d \in Command : IsPending(d)' <=> IsPending(d)
    BY <1>2 DEF IsPending
  <2>2. \A d \in Command : push'.cmd # d
    BY <1>2 DEF NoCommand, Command
  <2>3. \A d \in Command : push.cmd = d <=> d = e
    BY <1>1
  <2> QED
    BY <1>4, <2>1, <2>2, <2>3, Zenon DEF Inside, InQueue
<1> QED
  BY <1>0, <1>2, <1>3, <1>4, <1>5, FlushDelivers

\* flush_pending() takes the head of the pending commands, and leaves the others.
LEMMA PendingHead ==
  ASSUME TypeOK, FlushOne, NEW e \in Command, e = Head(pending)
  PROVE  \A d : IsPending(d) <=> d = e \/ IsPending(d)'
<1>1. PICK p \in Seq(Command) : p = pending
  BY DEF TypeOK
<1>2. p # <<>> /\ e = Head(p)
  BY <1>1 DEF FlushOne
<1>3. \A d : Has(p, d) <=> d = e \/ Has(Tail(p), d)
  BY <1>2, HeadHas
<1>4. pending' = Tail(p)
  BY <1>1 DEF FlushOne
<1> QED
  BY <1>1, <1>3, <1>4, Zenon DEF IsPending, Has

\* flush_pending() moves the command that waited longest to the write queue.
LEMMA FlushOneDelivers ==
  ASSUME IndInv, Alive, FlushOne, WrittenIsOut'
  PROVE  [Delivery!Next]_Delivery!vars
<1>0. TypeOK /\ ThreadOK
  BY DEF IndInv
<1>1. PICK h \in Handler : h = cq.h
  BY <1>0 DEF FlushOne, ThreadOK
<1>2. /\ FlushWriteQueue(h, Append(queue[h], Head(pending)), writing,
                          inflight[h])
      /\ pending # <<>> /\ pending' = Tail(pending)
      /\ UNCHANGED <<push, process, arrived, client>>
  BY <1>1 DEF FlushOne, Enqueue
<1>3. /\ queue[h] \in Seq(Command) /\ writing \in SUBSET Handler
      /\ inflight[h] \in Nat /\ pending \in Seq(Command)
  BY <1>0 DEF TypeOK
<1>4. PICK e \in Command : e = Head(pending)
  BY <1>2, <1>3
<1>5. /\ Append(queue[h], e) \in Seq(Command)
      /\ \A d :
           (\E i \in DOMAIN Append(queue[h], e) : Append(queue[h], e)[i] = d)
             <=> d = e \/ \E i \in DOMAIN queue[h] : queue[h][i] = d
  <2>1. PICK s \in Seq(Command) : s = queue[h]
    BY <1>3
  <2> QED
    BY <2>1, AppendHas
<1>6. \A d : IsPending(d) <=> d = e \/ IsPending(d)'
  BY <1>0, <1>4, PendingHead
<1>7. \A d \in Command :
        Inside(d) <=> \/ IsPending(d)'
                      \/ push'.cmd = d
                      \/ \E i \in DOMAIN Append(queue[h], e) :
                           Append(queue[h], e)[i] = d
                      \/ \E g \in Handler \ {h} : InQueue(g, d)
  BY <1>2, <1>5, <1>6, Zenon DEF Inside, InQueue
<1>8. FlushWriteQueue(h, Append(queue[h], e), writing, inflight[h])
  BY <1>2, <1>4
<1> QED
  BY <1>0, <1>2, <1>3, <1>5, <1>7, <1>8, FlushDelivers

\* A finished write makes room for the next command of the queue.
LEMMA DoneDelivers ==
  ASSUME IndInv, Alive, NEW h \in Handler, OnWriteDone(h), WrittenIsOut'
  PROVE  [Delivery!Next]_Delivery!vars
<1>0. TypeOK
  BY DEF IndInv
<1>1. /\ queue[h] \in Seq(Command) /\ writing \ {h} \in SUBSET Handler
      /\ inflight[h] - 1 \in Nat
  BY <1>0, SMTT(30) DEF TypeOK, OnWriteDone
<1>2. /\ FlushWriteQueue(h, queue[h], writing \ {h}, inflight[h] - 1)
      /\ UNCHANGED <<pending, push, process, arrived, client>>
  BY DEF OnWriteDone
<1>3. \A d \in Command :
        Inside(d) <=> \/ IsPending(d)'
                      \/ push'.cmd = d
                      \/ \E i \in DOMAIN queue[h] : queue[h][i] = d
                      \/ \E g \in Handler \ {h} : InQueue(g, d)
  <2>1. push' = push /\ \A d \in Command : IsPending(d)' <=> IsPending(d)
    BY <1>2 DEF IsPending
  <2>2. \A d : (\E g \in Handler : InQueue(g, d))
                 <=> InQueue(h, d) \/ \E g \in Handler \ {h} : InQueue(g, d)
    OBVIOUS
  <2>3. \A d : InQueue(h, d) <=> \E i \in DOMAIN queue[h] : queue[h][i] = d
    BY DEF InQueue
  <2> QED
    BY <2>1, <2>2, <2>3, Zenon DEF Inside
<1> QED
  BY <1>0, <1>1, <1>2, <1>3, FlushDelivers

\* What a handler that deletes itself still has queued is lost.
LEMMA FinishLoses ==
  ASSUME IndInv, PathInv, NEW h \in Handler, FinishDone(h)
  PROVE  [Delivery!Next]_Delivery!vars
<1>1. Ended
  BY DEF FinishDone, PathInv, ClosedOK, IndInv, ClientOK, Ended
<1>2. /\ queue' = [queue EXCEPT ![h] = <<>>]
      /\ UNCHANGED <<pending, push, process, arrived, client, written>>
  BY DEF FinishDone, DeleteHandler
<1>3. \A g \in Handler : \A c : InQueue(g, c)' => InQueue(g, c)
  BY <1>2 DEF InQueue, IndInv, TypeOK
<1>4. Waiting' \subseteq Waiting
  BY <1>2, <1>3 DEF Waiting, IsPending, Alive, Dead
<1> QED
  BY <1>1, <1>2, <1>4, Loses

\* A handler that never had a stream has no commands to lose.
LEMMA RejectedStutters ==
  ASSUME IndInv, NEW h \in Handler, AcceptingFailed(h)
  PROVE  [Delivery!Next]_Delivery!vars
<1>1. queue[h] = <<>>
  BY DEF AcceptingFailed, IndInv, QueueOK
<1>2. /\ queue' = [queue EXCEPT ![h] = <<>>]
      /\ UNCHANGED <<pending, push, process, arrived, client, written>>
  BY DEF AcceptingFailed, DeleteHandler
<1>3. queue' = queue
  BY <1>1, <1>2 DEF IndInv, TypeOK
<1> QED
  BY <1>2, <1>3, Stutters DEF Inside, InQueue, IsPending, Ended

\* What reaches a deleted handler is lost, and the process with it perhaps.
LEMMA DanglingLoses ==
  ASSUME IndInv, PathInv, Alive,
         PushDangling \/ \E h \in Handler : OnWriteDoneDangling(h)
  PROVE  [Delivery!Next]_Delivery!vars
<1>1. Ended
  <2>1. CASE PushDangling
    BY <2>1 DEF PushDangling, IndInv, TypeOK, ClientOK, PathInv, ClosedOK, Ended
  <2>2. ASSUME NEW h \in Handler, OnWriteDoneDangling(h) PROVE Ended
    BY <2>2 DEF OnWriteDoneDangling, IndInv, TypeOK, QueueOK, PathInv, ClosedOK,
                Ended
  <2> QED
    BY <2>1, <2>2
<1>2. /\ UNCHANGED <<pending, queue, arrived, client, written>>
      /\ push'.cmd = push.cmd \/ push'.cmd = NoCommand
  BY DEF PushDangling, OnWriteDoneDangling, streamVars, Receiving
<1>3. Waiting' \subseteq Waiting
  BY <1>2 DEF Waiting, IsPending, InQueue, Alive, Command, NoCommand
<1> QED
  BY <1>1, <1>2, <1>3, Loses

\* Every step of the gateway is a step of the command path, or none.
LEMMA RefinementStep ==
  ASSUME IndInv, PathInv, IndInv', PathInv', [Next]_vars
  PROVE  [Delivery!Next]_Delivery!vars
<1>0. TypeOK /\ PushOK /\ WrittenIsOut'
  <2>1. WrittenIsOut'
    BY WrittenOnce, PTL
  <2> QED
    BY <2>1 DEF IndInv
<1>1. CASE UNCHANGED vars
  BY <1>1, Stutters DEF vars, Inside, InQueue, IsPending, Ended
<1>2. ASSUME Alive, CompletionQueueThread PROVE [Delivery!Next]_Delivery!vars
  <2>1. CASE FlushOne
    BY <1>2, <1>0, <2>1, FlushOneDelivers
  <2>2. ASSUME NEW h \in Handler, OnWriteDone(h)
        PROVE  [Delivery!Next]_Delivery!vars
    BY <1>0, <1>2, <2>2, DoneDelivers
  <2>3. CASE \/ FlushLock \/ FlushDone
             \/ \E h \in Handler :
                  \/ AcceptingOk(h) \/ ReadingFailed(h) \/ OnWriteFailed(h)
                  \/ \E ev \in VehicleEvent : ReadingOk(h, ev)
    <3>1. UNCHANGED <<pending, push, queue, process, arrived, client, written>>
      BY <2>3 DEF FlushLock, FlushDone, AcceptingOk, ReadingFailed,
                  OnWriteFailed, ReadingOk, streamVars
    <3> QED
      BY <3>1, Stutters DEF Inside, InQueue, IsPending, Ended
  <2> QED
    BY <1>2, <2>1, <2>2, <2>3, RejectedStutters, FinishLoses, DanglingLoses
    DEF CompletionQueueThread
<1>3. ASSUME Alive, MqttThread PROVE [Delivery!Next]_Delivery!vars
  <2>1. CASE LoadActive
    BY <1>0, <1>3, <2>1, LoadArrives DEF Delivery!Next
  <2> QED
    BY <1>0, <1>3, <2>1, PendingStutters, EnqueueDelivers, DanglingLoses
    DEF MqttThread
<1>4. ASSUME Environment PROVE [Delivery!Next]_Delivery!vars
  <2>1. UNCHANGED <<pending, push, queue, process, arrived, written>>
    BY <1>4 DEF Environment, VehicleConnect, VehicleClose, StopServer,
                streamVars
  <2>2. Waiting' = Waiting
    BY <2>1 DEF Waiting, InQueue, IsPending, Alive, Dead
  <2>3. ASSUME NEW h \in Handler, VehicleClose(h) PROVE Delivery!End
    <3>1. Ended'
      BY <1>0, <2>3 DEF VehicleClose, TypeOK, Ended
    <3> QED
      BY <2>1, <2>2, <3>1 DEF Delivery!End, Ended
  <2>4. ASSUME NEW h \in Handler, VehicleConnect(h) PROVE Ended' <=> Ended
    BY <1>0, <2>4 DEF VehicleConnect, TypeOK, Ended
  <2>5. CASE StopServer
    BY <2>1, <2>2, <2>5 DEF StopServer, Delivery!vars
  <2> QED
    BY <1>4, <2>1, <2>2, <2>3, <2>4, <2>5
    DEF Environment, Delivery!Next, Delivery!vars, Ended
<1> QED
  BY <1>1, <1>2, <1>3, <1>4 DEF Next, Quiescent

\* Whatever the two threads and the vehicles do, a command is handed to at most
\* one stream, at most once, and lost only after a vehicle's stream ended: the
\* command path implements CommandDelivery.
THEOREM Implements == Spec => DeliversAtMostOnce
<1>1. Init => Delivery!Init
  BY DEF Init, Delivery!Init, Waiting, IsPending, InQueue, Receiving,
         NoCommand, Command
<1>2. IndInv /\ PathInv /\ (IndInv /\ PathInv)' /\ [Next]_vars
        => [Delivery!Next]_Delivery!vars
  BY RefinementStep
<1> QED
  BY <1>1, <1>2, PathInvariance, PTL DEF Spec, Delivery!Spec, DeliversAtMostOnce

-----------------------------------------------------------------------------
(***************************************************************************)
(* Which commands a disconnection takes with it, and when a command may    *)
(* overtake another.                                                       *)
(***************************************************************************)

\* What flush_write_queue_locked() was given is on the stream afterwards, and
\* nothing else moved.
LEMMA FlushPlaces ==
  ASSUME TypeOK, NEW h \in Handler, NEW q \in Seq(Command),
         NEW w, NEW n, FlushWriteQueue(h, q, w, n)
  PROVE  /\ \A d : OnStream(h, d)' <=> \/ IsWritten(h, d)
                                       \/ \E i \in DOMAIN q : q[i] = d
         /\ \A g \in Handler \ {h} : \A d :
              /\ InQueue(g, d)' <=> InQueue(g, d)
              /\ OnStream(g, d)' <=> OnStream(g, d)
<1>0. /\ written \in [Handler -> Seq(Command)]
      /\ queue \in [Handler -> Seq(Command)]
  BY DEF TypeOK
<1>1. CASE q = <<>> \/ h \in w
  <2>1. queue' = [queue EXCEPT ![h] = q] /\ written' = written
    BY <1>1, Zenon DEF FlushWriteQueue
  <2>2. queue'[h] = q /\ \A g \in Handler \ {h} : queue'[g] = queue[g]
    BY <1>0, <2>1
  <2> QED
    BY <2>1, <2>2, Zenon DEF OnStream, InQueue, IsWritten
<1>2. CASE ~(q = <<>> \/ h \in w)
  <2>1. /\ queue' = [queue EXCEPT ![h] = Tail(q)]
        /\ written' = [written EXCEPT ![h] = Append(written[h], Head(q))]
    BY <1>2, Zenon DEF FlushWriteQueue
  <2>2. PICK c \in Command : c = Head(q)
    BY <1>2
  <2>3. PICK s \in Seq(Command) : s = written[h]
    BY <1>0
  <2>4. /\ queue'[h] = Tail(q) /\ written'[h] = Append(s, c)
        /\ \A g \in Handler \ {h} :
             queue'[g] = queue[g] /\ written'[g] = written[g]
    BY <1>0, <2>1, <2>2, <2>3
  <2>5. \A d : (\E i \in DOMAIN q : q[i] = d)
                 <=> d = c \/ \E i \in DOMAIN Tail(q) : Tail(q)[i] = d
    <3>1. q # <<>> /\ c = Head(q)
      BY <1>2, <2>2
    <3>2. \A d : Has(q, d) <=> d = c \/ Has(Tail(q), d)
      BY <3>1, HeadHas
    <3> QED
      BY <3>2, Zenon DEF Has
  <2>6. \A d : (\E i \in DOMAIN Append(s, c) : Append(s, c)[i] = d)
                 <=> d = c \/ \E i \in DOMAIN s : s[i] = d
    BY AppendHas
  <2>7. ASSUME NEW d
        PROVE  OnStream(h, d)' <=> \/ IsWritten(h, d)
                                   \/ \E i \in DOMAIN q : q[i] = d
    <3>1. InQueue(h, d)' <=> \E i \in DOMAIN Tail(q) : Tail(q)[i] = d
      BY <2>4 DEF InQueue
    <3>2. IsWritten(h, d)' <=> \E i \in DOMAIN Append(s, c) :
                                  Append(s, c)[i] = d
      BY <2>4 DEF IsWritten
    <3>3. IsWritten(h, d) <=> \E i \in DOMAIN s : s[i] = d
      BY <2>3 DEF IsWritten
    <3> QED
      BY <2>5, <2>6, <3>1, <3>2, <3>3, Zenon DEF OnStream
  <2>8. \A g \in Handler \ {h} : \A d :
          /\ InQueue(g, d)' <=> InQueue(g, d)
          /\ OnStream(g, d)' <=> OnStream(g, d)
    BY <2>4, Zenon DEF OnStream, InQueue, IsWritten
  <2> QED
    BY <2>7, <2>8, Zenon
<1> QED
  BY <1>1, <1>2

\* enqueue() adds one command to one stream.
LEMMA EnqueuePlaces ==
  ASSUME TypeOK, NEW h \in Handler, NEW e \in Command, Enqueue(h, e)
  PROVE  /\ \A d : OnStream(h, d)' <=> OnStream(h, d) \/ d = e
         /\ \A g \in Handler \ {h} : \A d :
              /\ InQueue(g, d)' <=> InQueue(g, d)
              /\ OnStream(g, d)' <=> OnStream(g, d)
<1>1. PICK s \in Seq(Command) : s = queue[h]
  BY DEF TypeOK
<1>2. FlushWriteQueue(h, Append(s, e), writing, inflight[h])
  BY <1>1 DEF Enqueue
<1>3. /\ Append(s, e) \in Seq(Command)
      /\ \A d : (\E i \in DOMAIN Append(s, e) : Append(s, e)[i] = d)
                  <=> d = e \/ \E i \in DOMAIN s : s[i] = d
  BY AppendHas
<1>4. PICK q \in Seq(Command) : q = Append(s, e)
  BY <1>3
<1>5. FlushWriteQueue(h, q, writing, inflight[h])
  BY <1>2, <1>4
<1>6. /\ \A d : OnStream(h, d)' <=> \/ IsWritten(h, d)
                                    \/ \E i \in DOMAIN q : q[i] = d
      /\ \A g \in Handler \ {h} : \A d :
           /\ InQueue(g, d)' <=> InQueue(g, d)
           /\ OnStream(g, d)' <=> OnStream(g, d)
  BY <1>5, FlushPlaces
<1> QED
  BY <1>1, <1>3, <1>4, <1>6, Zenon DEF OnStream, InQueue

\* on_write_done() moves a command along its stream.
LEMMA DonePlaces ==
  ASSUME TypeOK, NEW h \in Handler, OnWriteDone(h)
  PROVE  \A g \in Handler : \A d :
           /\ OnStream(g, d)' <=> OnStream(g, d)
           /\ g # h => (InQueue(g, d)' <=> InQueue(g, d))
<1>1. PICK q \in Seq(Command) : q = queue[h]
  BY DEF TypeOK
<1>2. FlushWriteQueue(h, q, writing \ {h}, inflight[h] - 1)
  BY <1>1 DEF OnWriteDone
<1>3. /\ \A d : OnStream(h, d)' <=> \/ IsWritten(h, d)
                                    \/ \E i \in DOMAIN q : q[i] = d
      /\ \A g \in Handler \ {h} : \A d :
           /\ InQueue(g, d)' <=> InQueue(g, d)
           /\ OnStream(g, d)' <=> OnStream(g, d)
  BY <1>2, FlushPlaces
<1>4. \A d : OnStream(h, d)' <=> OnStream(h, d)
  BY <1>1, <1>3, Zenon DEF OnStream, InQueue
<1> QED
  BY <1>3, <1>4, Zenon

\* The steps that leave every command where it is.
LEMMA PlacesKept ==
  ASSUME \/ FlushLock \/ FlushDone \/ Environment
         \/ \E h \in Handler :
              \/ AcceptingOk(h) \/ ReadingFailed(h) \/ OnWriteFailed(h)
              \/ \E ev \in VehicleEvent : ReadingOk(h, ev)
         \/ UNCHANGED vars
  PROVE  UNCHANGED <<pending, push, queue, written, process>>
BY DEF FlushLock, FlushDone, AcceptingOk, ReadingFailed, OnWriteFailed,
       ReadingOk, Environment, VehicleConnect, VehicleClose, StopServer,
       streamVars, vars

-----------------------------------------------------------------------------
\* What is on a stream arrived before the command in the hands of
\* push_command().
LEMMA OnStreamIsSettled ==
  ASSUME IndInv, PathInv, NEW h \in Handler, NEW c, OnStream(h, c)
  PROVE  c \in Settled
<1>0. TypeOK /\ LineSettled
  BY DEF IndInv, PathInv, LinesOK
<1>1. PICK i \in DOMAIN Line(h) : Line(h)[i] = c
  BY <1>0, WrittenFirst, Zenon DEF OnStream, InQueue, IsWritten
<1> QED
  BY <1>0, <1>1 DEF LineSettled

\* What OvertakingEndsWithFlush says of one step.
TakesNewer ==
  \A h \in Handler, c, d \in Command :
    /\ state[h] # "ACCEPTING"
    /\ OnStream(h, c) /\ ~OnStream(h, d) /\ OnStream(h, d)'
    => c < d

\* push_command() brings the newest command; flush_pending() runs before the
\* first read; nothing else puts a command on a stream.
LEMMA NewerStep == ASSUME IndInv, PathInv, Step PROVE TakesNewer
<1>0. TypeOK /\ ThreadOK /\ PushOK /\ PushCurrent
  BY DEF IndInv, PathInv
<1> USE DEF TakesNewer
<1>1. CASE PushEnqueue
  <2>1. PICK g \in Handler, e \in Command : g = push.h /\ e = push.cmd
    BY <1>0, <1>1 DEF PushEnqueue, TypeOK, PushOK
  <2>2. Enqueue(g, e) /\ push.at = "push"
    BY <1>1, <2>1 DEF PushEnqueue
  <2>3. e = arrived
    BY <1>0, <2>1, <2>2 DEF PushCurrent
  <2>4. \A c \in Settled : c < e
    BY <1>0, <2>2, <2>3 DEF Settled, Command, TypeOK
  <2>5. /\ \A d : OnStream(g, d)' <=> OnStream(g, d) \/ d = e
        /\ \A h \in Handler \ {g} : \A d : OnStream(h, d)' <=> OnStream(h, d)
    BY <1>0, <2>2, EnqueuePlaces
  <2>6. \A h \in Handler, c \in Command : OnStream(h, c) => c \in Settled
    BY OnStreamIsSettled
  <2> QED
    BY <2>4, <2>5, <2>6, Zenon
<1>2. CASE FlushOne
  <2>1. PICK g \in Handler : g = cq.h /\ state[g] = "ACCEPTING"
    BY <1>0, <1>2 DEF FlushOne, ThreadOK
  <2>2. PICK e \in Command : e = Head(pending)
    BY <1>0, <1>2 DEF FlushOne, TypeOK
  <2>3. Enqueue(g, e)
    BY <1>2, <2>1, <2>2 DEF FlushOne
  <2>4. \A h \in Handler \ {g} : \A d : OnStream(h, d)' <=> OnStream(h, d)
    BY <1>0, <2>3, EnqueuePlaces
  <2> QED
    BY <2>1, <2>4, Zenon
<1>3. ASSUME NEW h \in Handler, OnWriteDone(h) PROVE TakesNewer
  <2>1. \A g \in Handler : \A d : OnStream(g, d)' <=> OnStream(g, d)
    BY <1>0, <1>3, DonePlaces
  <2> QED
    BY <2>1, Zenon
<1>4. ASSUME NEW h \in Handler, FinishDone(h) \/ AcceptingFailed(h)
      PROVE  TakesNewer
  <2>1. queue' = [queue EXCEPT ![h] = <<>>] /\ written' = written
    BY <1>4 DEF FinishDone, AcceptingFailed, DeleteHandler
  <2>2. \A g \in Handler : \A d : OnStream(g, d)' => OnStream(g, d)
    BY <1>0, <2>1 DEF OnStream, InQueue, IsWritten, TypeOK
  <2> QED
    BY <2>2, Zenon
<1>5. ASSUME UNCHANGED <<queue, written>> PROVE TakesNewer
  BY <1>5, Zenon DEF OnStream, InQueue, IsWritten
<1>6. CASE LoadActive \/ PushPending \/ PushDangling
           \/ \E h \in Handler : OnWriteDoneDangling(h)
  <2>1. UNCHANGED <<queue, written>>
    BY <1>6 DEF LoadActive, PushPending, PushDangling, OnWriteDoneDangling,
                streamVars
  <2> QED
    BY <1>5, <2>1
<1> HIDE DEF TakesNewer
<1> QED
  BY <1>1, <1>2, <1>3, <1>4, <1>5, <1>6, PlacesKept
  DEF Step, CompletionQueueThread, MqttThread

\* Once a stream is read, no command reaches it that is older than one it already
\* took: overtaking is confined to the window of flush_pending().
THEOREM FlushEndsOvertaking == Spec => OvertakingEndsWithFlush
<1>1. IndInv /\ PathInv /\ [Next]_vars => [TakesNewer]_vars
  BY NextIsStep, NewerStep
<1> QED
  BY <1>1, PathInvariance, PTL DEF Spec, OvertakingEndsWithFlush, TakesNewer

-----------------------------------------------------------------------------
\* What LostWithItsStream says of one step.
LosesOnlyBound ==
  \A c \in Waiting :
    \/ c \in Waiting' \/ process' = "dead"
    \/ \E h \in Handler :
         \/ IsWritten(h, c)'
         \/ c \in Bound(h) /\ client[h] = "closed" /\ state'[h] = "deleted"

\* A command that is still inside, or on a stream, is not lost.
LEMMA NotLost ==
  ASSUME \A c \in Command :
           Inside(c) => \/ Inside(c)'
                        \/ \E h \in Handler : OnStream(h, c)'
                        \/ \E h \in Handler :
                             c \in Bound(h) /\ client[h] = "closed"
                             /\ state'[h] = "deleted"
  PROVE  LosesOnlyBound
<1>1. \A c \in Command, h \in Handler :
        OnStream(h, c)' => Inside(c)' \/ IsWritten(h, c)'
  BY DEF OnStream, Inside
<1>2. \A c \in Command : Inside(c)' => c \in Waiting' \/ process' = "dead"
  BY WaitingIsInside DEF Alive, Dead
<1>3. \A c \in Waiting : c \in Command /\ Inside(c)
  BY WaitingIsInside
<1> QED
  BY <1>1, <1>2, <1>3, Zenon DEF LosesOnlyBound

\* FinishDone drops the queue of its own handler and PushDangling one command;
\* every other step moves commands or leaves them.
LEMMA LossStep == ASSUME IndInv, PathInv, Step PROVE LosesOnlyBound
<1>0. TypeOK /\ ThreadOK /\ PushOK
  BY DEF IndInv
<1>1. CASE PushEnqueue
  <2>1. PICK g \in Handler, e \in Command : g = push.h /\ e = push.cmd
    BY <1>0, <1>1 DEF PushEnqueue, TypeOK, PushOK
  <2>2. Enqueue(g, e) /\ UNCHANGED pending
    BY <1>1, <2>1 DEF PushEnqueue
  <2>3. /\ \A d : OnStream(g, d)' <=> OnStream(g, d) \/ d = e
        /\ \A h \in Handler \ {g} : \A d : InQueue(h, d)' <=> InQueue(h, d)
    BY <1>0, <2>2, EnqueuePlaces
  <2>4. \A c \in Command : Inside(c) =>
          Inside(c)' \/ \E h \in Handler : OnStream(h, c)'
    BY <2>1, <2>2, <2>3, Zenon DEF Inside, IsPending, OnStream
  <2> QED
    BY <2>4, NotLost
<1>2. CASE FlushOne
  <2>1. PICK g \in Handler : g = cq.h
    BY <1>0, <1>2 DEF FlushOne, ThreadOK
  <2>2. PICK e \in Command : e = Head(pending)
    BY <1>0, <1>2 DEF FlushOne, TypeOK
  <2>3. Enqueue(g, e) /\ UNCHANGED push
    BY <1>2, <2>1, <2>2 DEF FlushOne
  <2>4. /\ \A d : OnStream(g, d)' <=> OnStream(g, d) \/ d = e
        /\ \A h \in Handler \ {g} : \A d : InQueue(h, d)' <=> InQueue(h, d)
    BY <1>0, <2>3, EnqueuePlaces
  <2>5. \A d : IsPending(d) => d = e \/ IsPending(d)'
    BY <1>0, <1>2, <2>2, PendingHead
  <2>6. \A c \in Command : Inside(c) =>
          Inside(c)' \/ \E h \in Handler : OnStream(h, c)'
    BY <2>3, <2>4, <2>5, Zenon DEF Inside, OnStream
  <2> QED
    BY <2>6, NotLost
<1>3. ASSUME NEW h \in Handler, OnWriteDone(h) PROVE LosesOnlyBound
  <2>1. /\ \A g \in Handler : \A d : OnStream(g, d)' <=> OnStream(g, d)
        /\ UNCHANGED <<pending, push>>
    BY <1>0, <1>3, DonePlaces DEF OnWriteDone
  <2>2. \A c \in Command : Inside(c) =>
          Inside(c)' \/ \E g \in Handler : OnStream(g, c)'
    BY <2>1, Zenon DEF Inside, IsPending, OnStream
  <2> QED
    BY <2>2, NotLost
<1>4. ASSUME NEW h \in Handler, FinishDone(h) PROVE LosesOnlyBound
  <2>1. client[h] = "closed" /\ state'[h] = "deleted"
    BY <1>0, <1>4 DEF FinishDone, DeleteHandler, TypeOK, PathInv, ClosedOK,
                      IndInv, ClientOK
  <2>2. /\ queue' = [queue EXCEPT ![h] = <<>>]
        /\ UNCHANGED <<pending, push>>
    BY <1>4 DEF FinishDone, DeleteHandler
  <2>3. \A g \in Handler \ {h} : \A d : InQueue(g, d)' <=> InQueue(g, d)
    BY <1>0, <2>2 DEF InQueue, TypeOK
  <2>4. \A c \in Command : Inside(c) => Inside(c)' \/ c \in Bound(h)
    BY <2>2, <2>3 DEF Inside, IsPending, Bound
  <2> QED
    BY <2>1, <2>4, NotLost
<1>5. ASSUME NEW h \in Handler, AcceptingFailed(h) PROVE LosesOnlyBound
  <2>1. queue[h] = <<>>
    BY <1>5 DEF AcceptingFailed, IndInv, QueueOK
  <2>2. /\ queue' = [queue EXCEPT ![h] = <<>>]
        /\ UNCHANGED <<pending, push>>
    BY <1>5 DEF AcceptingFailed, DeleteHandler
  <2>3. queue' = queue
    BY <1>0, <2>1, <2>2 DEF TypeOK
  <2> QED
    BY <2>2, <2>3, NotLost DEF Inside, InQueue, IsPending
<1>6. CASE PushDangling
  <2>1. PICK h \in Handler : h = push.h /\ state[h] = "deleted"
    BY <1>0, <1>6 DEF PushDangling, TypeOK
  <2>2. client[h] = "closed" /\ state'[h] = "deleted"
    BY <1>0, <1>6, <2>1 DEF PushDangling, TypeOK, PathInv, ClosedOK, IndInv,
                            ClientOK, NoHandler, Handler
  <2>3. UNCHANGED <<pending, queue>>
    BY <1>6 DEF PushDangling, streamVars
  <2>4. \A c \in Command : Inside(c) => Inside(c)' \/ c \in Bound(h)
    BY <2>1, <2>3 DEF Inside, IsPending, InQueue, Bound
  <2> QED
    BY <2>2, <2>4, NotLost
<1>7. CASE PushPending
  <2>1. PICK e \in Command, p \in Seq(Command) : e = push.cmd /\ p = pending
    BY <1>0, <1>7 DEF PushPending, PushOK, TypeOK
  <2>2. pending' = Append(p, e) /\ UNCHANGED queue
    BY <1>7, <2>1 DEF PushPending, streamVars
  <2>3. \A d : (\E i \in DOMAIN Append(p, e) : Append(p, e)[i] = d)
                 <=> d = e \/ \E i \in DOMAIN p : p[i] = d
    BY AppendHas
  <2>4. \A c \in Command : Inside(c) => Inside(c)'
    BY <2>1, <2>2, <2>3, Zenon DEF Inside, IsPending, InQueue
  <2> QED
    BY <2>4, NotLost
<1>8. CASE LoadActive
  <2>1. push.cmd = NoCommand /\ UNCHANGED <<pending, queue>>
    BY <1>8 DEF LoadActive, Receiving, streamVars
  <2>2. \A c \in Command : Inside(c) => Inside(c)'
    BY <2>1 DEF Inside, IsPending, InQueue, NoCommand, Command
  <2> QED
    BY <2>2, NotLost
<1>9. ASSUME UNCHANGED <<pending, push, queue>> PROVE LosesOnlyBound
  BY <1>9, NotLost DEF Inside, IsPending, InQueue
<1>10. ASSUME NEW h \in Handler, OnWriteDoneDangling(h) PROVE LosesOnlyBound
  BY <1>9, <1>10 DEF OnWriteDoneDangling
<1> QED
  BY <1>1, <1>2, <1>3, <1>4, <1>5, <1>6, <1>7, <1>8, <1>9, <1>10, PlacesKept
  DEF Step, CompletionQueueThread, MqttThread

\* A disconnection loses only what was bound to the stream that ended.
THEOREM LostOnlyBound == Spec => LostWithItsStream
<1>1. IndInv /\ PathInv /\ [Next]_vars => [LosesOnlyBound]_vars
  BY NextIsStep, LossStep
<1> QED
  BY <1>1, PathInvariance, PTL DEF Spec, LostWithItsStream, LosesOnlyBound
=============================================================================
