-------------------------- MODULE GatewayMainProofs --------------------------
(***************************************************************************)
(* The shutdown of the gateway, for every set of signals, every            *)
(* environment and every file of settings.                                 *)
(***************************************************************************)
EXTENDS GatewayMain, SequenceTheorems, TLAPS

(***************************************************************************)
(* The inductive invariant.                                                *)
(***************************************************************************)

\* main() before it has a queue, a server and a handler; when wait() returned;
\* and when the MQTT client is gone.
Early == {"config", "dotenv", "configured", "starting", "queueAdded",
          "serverUp"}
Returned == {"closeZenoh", "stopMqtt", "joinMqtt", "destroy", "destroying",
             "destroyed"}
Leaving == {"destroy", "destroying", "destroyed"}

\* wait() returns from a server that is down or never was, and a server that is
\* down has no streams and takes none.
ServerOK ==
  /\ main \in Early \ {"serverUp"} => server = "null"
  /\ main \in Returned => server \in {"null", "down"}
  /\ \A i \in DOMAIN calls :
       calls[i].at = "draining" => server \in {"stopping", "down"}
  /\ accept = "waiting" => server = "up"
  /\ stream # "none" => server \in {"up", "stopping"}
  /\ queueThread = "publish" => stream # "none"

\* main() closes the zenoh session first, then stops the MQTT client.
ClientsOK ==
  /\ main \in Returned \ {"closeZenoh"} => zenoh = "closed"
  /\ main \in Leaving <=> mqtt = "reset"
  /\ mqtt = "reset" => runner = "exited"
  /\ queueThread = "publish" \/ zenoh = "publish" => mqtt # "none"

\* A call of stop() runs on a thread that exists, the destructor's on main().
CallsOK ==
  \A i \in DOMAIN calls :
    /\ calls[i].thread = "queue" => queueThread \in {"next", "publish"}
    /\ calls[i].thread = "runner" => runner = "running"
    /\ calls[i].thread = "zenoh" => zenoh \in {"idle", "publish"}
    /\ calls[i].by = "destructor" =>
         calls[i].thread = "main" /\ main = "destroying"

\* The destructor's call of stop() leaves no thread behind.
JoinedOK ==
  /\ main \in {"destroying", "destroyed"}
  /\ \A i \in DOMAIN calls : calls[i].by # "destructor"
  => queueThread \in {"none", "joined"}

\* After the destructor nothing calls stop().
DestroyedOK == main = "destroyed" => calls = <<>>

\* As long as no signal came under odd circumstances, one call of stop() runs at
\* a time, never on the thread it joins, and never before start() is done.
NothingOddOK ==
  odd = {} =>
    /\ Len(calls) <= 1
    /\ \A i \in DOMAIN calls : calls[i].thread # "queue"
    /\ main \in Early => calls = <<>> /\ cq # "shut"
    /\ process # "dead"

IndInv ==
  /\ TypeOK
  /\ ServerOK
  /\ ClientsOK
  /\ CallsOK
  /\ JoinedOK
  /\ DestroyedOK
  /\ NothingOddOK

-----------------------------------------------------------------------------
(***************************************************************************)
(* What a step does to the calls in progress.                              *)
(***************************************************************************)
Place == {"shutdown", "draining", "cq", "join", "joining"}
Call == [by : Signals \cup {"destructor"}, thread : Thread, at : Place]

\* A call returns: the others stay as they are.
LEMMA RemoveAtKeeps ==
  ASSUME NEW S, NEW s \in Seq(S), NEW i \in DOMAIN s
  PROVE  /\ RemoveAt(s, i) \in Seq(S)
         /\ Len(RemoveAt(s, i)) = Len(s) - 1
         /\ \A j \in DOMAIN RemoveAt(s, i) :
              \E k \in DOMAIN s : RemoveAt(s, i)[j] = s[k]
<1>1. i \in 1..Len(s) /\ Len(s) \in Nat
  BY LenProperties
<1>2. /\ SubSeq(s, 1, i - 1) \in Seq(S)
      /\ Len(SubSeq(s, 1, i - 1)) = i - 1
      /\ \A j \in 1..(i - 1) : SubSeq(s, 1, i - 1)[j] = s[j]
  BY <1>1, SubSeqProperties
<1>3. /\ SubSeq(s, i + 1, Len(s)) \in Seq(S)
      /\ Len(SubSeq(s, i + 1, Len(s))) = Len(s) - i
      /\ \A j \in 1..(Len(s) - i) : SubSeq(s, i + 1, Len(s))[j] = s[i + j]
  BY <1>1, SubSeqProperties
<1>4. PICK a \in Seq(S), b \in Seq(S) :
        /\ RemoveAt(s, i) = a \o b
        /\ Len(a) = i - 1 /\ \A j \in 1..(i - 1) : a[j] = s[j]
        /\ Len(b) = Len(s) - i /\ \A j \in 1..(Len(s) - i) : b[j] = s[i + j]
  BY <1>2, <1>3 DEF RemoveAt
<1>5. /\ a \o b \in Seq(S)
      /\ Len(a \o b) = Len(s) - 1
      /\ \A j \in 1..Len(a \o b) :
           (a \o b)[j] = IF j <= Len(a) THEN a[j] ELSE b[j - Len(a)]
  <2>1. /\ a \o b \in Seq(S)
        /\ Len(a \o b) = Len(a) + Len(b)
        /\ \A j \in 1..Len(a \o b) :
             (a \o b)[j] = IF j <= Len(a) THEN a[j] ELSE b[j - Len(a)]
    BY ConcatProperties
  <2>2. Len(a) + Len(b) = Len(s) - 1
    BY <1>1, <1>4
  <2> QED
    BY <2>1, <2>2
<1>6. DOMAIN (a \o b) = 1..Len(a \o b) /\ DOMAIN s = 1..Len(s)
  BY <1>5, LenProperties
<1>7. ASSUME NEW j \in DOMAIN (a \o b)
      PROVE  \E k \in DOMAIN s : (a \o b)[j] = s[k]
  <2>1. CASE j <= i - 1
    BY <1>1, <1>4, <1>5, <1>6, <2>1, SMTT(30)
  <2>2. CASE ~(j <= i - 1)
    <3>1. PICK n \in 1..(Len(s) - i) : n = j - (i - 1)
      BY <1>1, <1>5, <1>6, <2>2, SMTT(30)
    <3>2. (a \o b)[j] = b[n]
      BY <1>4, <1>5, <1>6, <2>2, <3>1
    <3>3. b[n] = s[i + n]
      BY <1>4, <3>1
    <3>4. i + n \in DOMAIN s
      BY <1>1, <1>6, <3>1
    <3> QED
      BY <3>2, <3>3, <3>4
  <2> QED
    BY <2>1, <2>2
<1> QED
  BY <1>4, <1>5, <1>7

\* A call begins: it is the newest.
LEMMA AppendAdds ==
  ASSUME NEW S, NEW s \in Seq(S), NEW r \in S
  PROVE  /\ Append(s, r) \in Seq(S)
         /\ Len(Append(s, r)) = Len(s) + 1
         /\ \A j \in DOMAIN Append(s, r) :
              (j \in DOMAIN s /\ Append(s, r)[j] = s[j]) \/ Append(s, r)[j] = r
         /\ \A j \in DOMAIN s :
              j \in DOMAIN Append(s, r) /\ Append(s, r)[j] = s[j]
         /\ \E j \in DOMAIN Append(s, r) : Append(s, r)[j] = r
<1>1. Len(s) + 1 \in DOMAIN Append(s, r) /\ Append(s, r)[Len(s) + 1] = r
  OBVIOUS
<1> QED
  BY <1>1

\* A call goes on: the calls remain, made by whom and where they were.
LEMMA GotoMoves ==
  ASSUME calls \in Seq(Call), NEW i \in DOMAIN calls, NEW a \in Place,
         Goto(i, a)
  PROVE  /\ calls' \in Seq(Call)
         /\ Len(calls') = Len(calls)
         /\ DOMAIN calls' = DOMAIN calls
         /\ \A j \in DOMAIN calls :
              /\ calls'[j].by = calls[j].by
              /\ calls'[j].thread = calls[j].thread
              /\ calls'[j].at = IF j = i THEN a ELSE calls[j].at
<1>1. calls' = [calls EXCEPT ![i] = [calls[i] EXCEPT !.at = a]]
  BY DEF Goto
<1>2. calls[i] \in Call
  OBVIOUS
<1>3. PICK r \in Call : r = [calls[i] EXCEPT !.at = a]
  BY <1>2 DEF Call
<1>4. r.by = calls[i].by /\ r.thread = calls[i].thread /\ r.at = a
  BY <1>2, <1>3 DEF Call
<1>5. calls' = [calls EXCEPT ![i] = r]
  BY <1>1, <1>3
<1>6. /\ calls' \in Seq(Call)
      /\ Len(calls') = Len(calls)
      /\ DOMAIN calls' = DOMAIN calls
      /\ \A j \in DOMAIN calls : calls'[j] = IF j = i THEN r ELSE calls[j]
  BY <1>5, ExceptSeq
<1> QED
  BY <1>4, <1>6

\* A call runs on one of the threads.
LEMMA CallThread ==
  ASSUME TypeOK, NEW i \in DOMAIN calls PROVE calls[i].thread \in Thread
<1>1. calls \in Seq(Call)
  BY DEF TypeOK, Call, Place
<1>2. calls[i] \in Call
  BY <1>1
<1> QED
  BY <1>2 DEF Call

\* Without calls in progress there is nothing in the sequence.
LEMMA NoCalls ==
  ASSUME TypeOK, \A i \in DOMAIN calls : FALSE PROVE calls = <<>>
<1>1. calls \in Seq(Call)
  BY DEF TypeOK, Call, Place
<1>2. ASSUME NEW c \in Seq(Call), \A i \in DOMAIN c : FALSE PROVE c = <<>>
  <2>1. Len(c) \in Nat /\ DOMAIN c = 1..Len(c)
    BY LenProperties
  <2>2. 1 \notin DOMAIN c
    BY <1>2, Zenon
  <2>3. Len(c) = 0
    BY <2>1, <2>2
  <2> QED
    BY <2>3, EmptySeq
<1> QED
  BY <1>1, <1>2

-----------------------------------------------------------------------------
(***************************************************************************)
(* The steps.                                                              *)
(***************************************************************************)

\* Before main() there is nothing to shut down.
LEMMA InitIndInv == Init => IndInv
<1> SUFFICES ASSUME Init PROVE IndInv
  OBVIOUS
<1>1. TypeOK
  BY DEF Init, TypeOK
<1> QED
  BY <1>1 DEF Init, IndInv, ServerOK, ClientsOK, CallsOK, JoinedOK, DestroyedOK,
              NothingOddOK, Early, Returned, Leaving

\* main() from the configuration to its return, but for the destructor's call.
LEMMA MainStep == ASSUME IndInv, Main, ~Destroy PROVE IndInv'
<1> USE DEF IndInv, TypeOK, ServerOK, ClientsOK, CallsOK, JoinedOK, DestroyedOK,
            NothingOddOK, Early, Returned, Leaving, Thread, Undisturbed,
            config, grpc, others, signal
<1>1. CASE OpenDotenv \/ ReadLine \/ Configure
  <2>1. CASE Configure
    <3>1. DOMAIN cfg' = Setting
      BY <2>1 DEF Configure, FromEnv
    <3> QED
      BY <2>1, <3>1 DEF Configure
  <2>2. CASE OpenDotenv
    BY <2>2 DEF OpenDotenv
  <2>3. CASE ReadLine
    BY <2>3 DEF ReadLine
  <2> QED
    BY <1>1, <2>1, <2>2, <2>3
<1>2. CASE Wire
  BY <1>2 DEF Wire
<1>3. CASE AddQueue
  BY <1>3 DEF AddQueue
<1>4. CASE BuildAndStart
  BY <1>4 DEF BuildAndStart
<1>5. CASE Listen
  BY <1>5 DEF Listen
<1>6. CASE StartThread
  BY <1>6 DEF StartThread
<1>7. CASE WaitReturns
  BY <1>7 DEF WaitReturns
<1>8. CASE CloseZenoh
  BY <1>8 DEF CloseZenoh
<1>9. CASE StopMqtt
  BY <1>9 DEF StopMqtt
<1>10. CASE ResetMqtt
  BY <1>10 DEF ResetMqtt
<1>11. CASE Destroyed
  <2>1. calls = <<>>
    <3>1. ASSUME NEW i \in DOMAIN calls PROVE FALSE
      <4>1. calls[i].thread \in Thread
        BY CallThread
      <4> QED
        BY <1>11, <4>1 DEF Destroyed
    <3> QED
      BY <3>1, NoCalls, Zenon
  <2> QED
    BY <1>11, <2>1 DEF Destroyed
<1>12. CASE Exit
  BY <1>12 DEF Exit
<1> HIDE DEF IndInv
<1> QED
  BY <1>1, <1>2, <1>3, <1>4, <1>5, <1>6, <1>7,
     <1>8, <1>9, <1>10, <1>11, <1>12 DEF Main

\* ~GrpcServer calls stop(): unless a signal was odd, no other call is left.
LEMMA DestroyStep == ASSUME IndInv, Destroy PROVE IndInv'
<1> USE DEF IndInv
<1>1. PICK r \in Call :
        /\ r.by = "destructor" /\ r.thread = "main" /\ r.at = "shutdown"
        /\ calls' = Append(calls, r)
  BY DEF Destroy, Call, Thread, Place
<1>2. calls \in Seq(Call)
  BY DEF TypeOK, Call, Place
<1>3. /\ calls' \in Seq(Call)
      /\ Len(calls') = Len(calls) + 1
      /\ \A j \in DOMAIN calls' :
           (j \in DOMAIN calls /\ calls'[j] = calls[j]) \/ calls'[j] = r
      /\ \E j \in DOMAIN calls' : calls'[j] = r
  BY <1>1, <1>2, AppendAdds
<1>4. odd = {} => Len(calls) = 0
  <2> SUFFICES ASSUME odd = {} PROVE Len(calls) = 0
    OBVIOUS
  <2>1. ASSUME NEW i \in DOMAIN calls PROVE FALSE
    <3>1. calls[i].thread \in Thread
      BY CallThread
    <3> QED
      BY <3>1 DEF Destroy, Undisturbed, Thread, CallsOK, ClientsOK, Returned,
                  Leaving, NothingOddOK
  <2>2. calls = <<>>
    BY <2>1, NoCalls, Zenon
  <2> QED
    BY <2>2
<1>5. TypeOK'
  BY <1>3 DEF Destroy, TypeOK, Call, Place, config, grpc, others
<1>6. ServerOK' /\ ClientsOK'
  BY <1>1, <1>3 DEF Destroy, ServerOK, ClientsOK, Early, Returned, Leaving,
                    grpc, others
<1>7. CallsOK' /\ JoinedOK' /\ DestroyedOK'
  BY <1>1, <1>3 DEF Destroy, CallsOK, JoinedOK, DestroyedOK, grpc, others
<1>8. NothingOddOK'
  BY <1>1, <1>3, <1>4 DEF Destroy, NothingOddOK, Early
<1> QED
  BY <1>5, <1>6, <1>7, <1>8

\* The thread that handles a signal exists.
LEMMA ExistsIs ==
  ASSUME NEW t \in Thread, Exists(t)
  PROVE  /\ t = "queue" => queueThread \in {"next", "publish"}
         /\ t = "runner" => runner = "running"
         /\ t = "zenoh" => zenoh \in {"idle", "publish"}
BY DEF Exists, Thread

\* A signal that is not odd finds no other call of stop().
LEMMA DeliverStep ==
  ASSUME IndInv, NEW s \in Signals, NEW t \in Thread, Deliver(s, t)
  PROVE  IndInv'
<1> USE DEF IndInv
<1>1. CASE main = "destroyed"
  <2>1. /\ "late" \in odd'
        /\ odd' \subseteq {"early", "late", "second", "onQueueThread"}
    BY <1>1 DEF Deliver, Circumstances, TypeOK
  <2>2. /\ UNCHANGED <<calls, main, grpc, others, cfg>>
        /\ process' \in {"running", "dead"}
        /\ delivered' = delivered \cup {s}
    BY <1>1 DEF Deliver, config
  <2> QED
    BY <2>1, <2>2 DEF TypeOK, ServerOK, ClientsOK, CallsOK, JoinedOK,
                      DestroyedOK, NothingOddOK, grpc, others
<1>2. CASE main # "destroyed"
  <2>1. PICK r \in Call :
          /\ r.by = s /\ r.thread = t /\ r.at = "shutdown"
          /\ calls' = Append(calls, r)
    BY <1>2 DEF Deliver, Call, Place
  <2>2. calls \in Seq(Call)
    BY DEF TypeOK, Call, Place
  <2>3. /\ calls' \in Seq(Call)
        /\ Len(calls') = Len(calls) + 1
        /\ \A j \in DOMAIN calls' :
             (j \in DOMAIN calls /\ calls'[j] = calls[j]) \/ calls'[j] = r
        /\ \A j \in DOMAIN calls :
             j \in DOMAIN calls' /\ calls'[j] = calls[j]
    BY <2>1, <2>2, AppendAdds
  <2>4. /\ UNCHANGED <<main, grpc, others, cfg, process>>
        /\ delivered' = delivered \cup {s}
        /\ main \notin {"config", "dotenv", "configured"}
        /\ odd' = odd \cup Circumstances(t)
    BY <1>2 DEF Deliver, config, Handling
  <2>5. /\ t = "queue" => queueThread \in {"next", "publish"}
        /\ t = "runner" => runner = "running"
        /\ t = "zenoh" => zenoh \in {"idle", "publish"}
    BY ExistsIs DEF Deliver
  <2>6. odd' = {} => calls = <<>> /\ t # "queue" /\ main \notin Early
    BY <2>4 DEF Circumstances, Early
  <2>7. TypeOK'
    <3>1. odd' \subseteq {"early", "late", "second", "onQueueThread"}
      BY <2>4 DEF TypeOK, Circumstances
    <3> QED
      BY <2>3, <2>4, <3>1 DEF TypeOK, Call, Place, grpc, others
  <2>8. ServerOK' /\ ClientsOK'
    BY <2>1, <2>3, <2>4 DEF ServerOK, ClientsOK, grpc, others
  <2>9. CallsOK'
    BY <2>1, <2>3, <2>4, <2>5, SignalsAssumption DEF CallsOK, grpc, others
  <2>10. JoinedOK' /\ DestroyedOK'
    BY <1>2, <2>3, <2>4 DEF JoinedOK, DestroyedOK, grpc
  <2>11. NothingOddOK'
    BY <2>1, <2>3, <2>4, <2>6 DEF NothingOddOK, grpc
  <2> QED
    BY <2>7, <2>8, <2>9, <2>10, <2>11
<1> QED
  BY <1>1, <1>2

\* The completion-queue thread, the zenoh thread, runner_ and the vehicle.
LEMMA OthersStep ==
  ASSUME IndInv,
         \/ QueueThread \/ ZenohTests \/ ZenohPublishes \/ RunnerExits
         \/ VehicleLeaves
  PROVE  IndInv'
<1> USE DEF IndInv, TypeOK, ServerOK, ClientsOK, CallsOK, JoinedOK, DestroyedOK,
            NothingOddOK, Early, Returned, Leaving, Thread, Undisturbed, AtNext,
            config, grpc, others, signal
<1>1. CASE AcceptStream
  BY <1>1 DEF AcceptStream
<1>2. CASE EndStream
  BY <1>2 DEF EndStream
<1>3. CASE AcceptFails
  BY <1>3 DEF AcceptFails
<1>4. CASE QueueThreadExits
  BY <1>4 DEF QueueThreadExits
<1>5. CASE QueueTests
  BY <1>5 DEF QueueTests
<1>6. CASE QueuePublishes
  BY <1>6 DEF QueuePublishes
<1>7. CASE ZenohTests
  BY <1>7 DEF ZenohTests
<1>8. CASE ZenohPublishes
  BY <1>8 DEF ZenohPublishes
<1>9. CASE RunnerExits
  BY <1>9 DEF RunnerExits
<1>10. CASE VehicleLeaves
  BY <1>10 DEF VehicleLeaves
<1> HIDE DEF IndInv
<1> QED
  BY <1>1, <1>2, <1>3, <1>4, <1>5, <1>6, <1>7, <1>8, <1>9, <1>10
  DEF QueueThread

\* stop(), whoever calls it.
LEMMA StopStep ==
  ASSUME IndInv, NEW i \in DOMAIN calls, Stop(i) PROVE IndInv'
<1> USE DEF IndInv
<1>0. calls \in Seq(Call)
  BY DEF TypeOK, Call, Place
<1>1. ASSUME NEW a \in Place, Goto(i, a)
      PROVE  /\ calls' \in Seq(Call)
             /\ Len(calls') = Len(calls)
             /\ DOMAIN calls' = DOMAIN calls
             /\ \A j \in DOMAIN calls :
                  /\ calls'[j].by = calls[j].by
                  /\ calls'[j].thread = calls[j].thread
                  /\ calls'[j].at = IF j = i THEN a ELSE calls[j].at
             /\ calls # <<>> /\ calls' # <<>>
  <2>1. \A c \in Seq(Call) : i \in DOMAIN c => c # <<>>
    OBVIOUS
  <2> QED
    BY <1>0, <1>1, <2>1, GotoMoves
<1>2. ASSUME calls' = RemoveAt(calls, i)
      PROVE  /\ calls' \in Seq(Call)
             /\ Len(calls') = Len(calls) - 1
             /\ \A j \in DOMAIN calls' :
                  \E k \in DOMAIN calls : calls'[j] = calls[k]
             /\ calls # <<>>
  <2>1. \A c \in Seq(Call) : i \in DOMAIN c => c # <<>>
    OBVIOUS
  <2> QED
    BY <1>0, <1>2, <2>1, RemoveAtKeeps
<1> USE DEF TypeOK, Call, Place, ServerOK, ClientsOK, CallsOK, JoinedOK,
            DestroyedOK, NothingOddOK, Early, Returned, Leaving, At,
            config, grpc, others
<1>3. CASE StopNoServer(i)
  BY <1>1, <1>3, SMTT(30) DEF StopNoServer
<1>4. CASE StopServer(i)
  BY <1>1, <1>4 DEF StopServer
<1>5. CASE ServerDown(i)
  BY <1>1, <1>5 DEF ServerDown
<1>6. CASE StopQueue(i)
  BY <1>1, <1>6, SMTT(30) DEF StopQueue
<1>7. CASE JoinNothing(i)
  BY <1>2, <1>7 DEF JoinNothing
<1>8. CASE Join(i)
  BY <1>1, <1>8 DEF Join
<1>9. CASE Joined(i)
  BY <1>2, <1>9 DEF Joined
<1> HIDE DEF IndInv
<1> QED
  BY <1>3, <1>4, <1>5, <1>6, <1>7, <1>8, <1>9 DEF Stop

\* Together the parts are inductive.
LEMMA Invariance == Spec => []IndInv
<1>1. IndInv /\ [Next]_vars => IndInv'
  <2> SUFFICES ASSUME IndInv, [Next]_vars PROVE IndInv'
    OBVIOUS
  <2>1. CASE UNCHANGED vars
    BY <2>1 DEF vars, config, grpc, others, signal, IndInv, TypeOK, ServerOK,
                ClientsOK, CallsOK, JoinedOK, DestroyedOK, NothingOddOK
  <2>2. CASE Running
    BY <2>2, MainStep, DestroyStep, StopStep, OthersStep, DeliverStep
    DEF Running
  <2> QED
    BY <2>1, <2>2 DEF Next, Ended
<1> QED
  BY InitIndInv, <1>1, PTL DEF Spec

-----------------------------------------------------------------------------
\* main(), GrpcServer, MqttClient and the calls of stop() keep to their states.
THEOREM TypeCorrectness == Spec => []TypeOK
<1>1. IndInv => TypeOK
  BY DEF IndInv
<1> QED
  BY Invariance, <1>1, PTL

\* Whichever threads handle the signals, and whenever they come, publish() on
\* the completion-queue thread or on the zenoh thread never uses a client_ that
\* main() has reset.
THEOREM PublishSafe == Spec => []PublishHasClient
<1>1. IndInv => PublishHasClient
  BY DEF IndInv, TypeOK, ServerOK, ClientsOK, PublishHasClient, Returned,
         Leaving
<1> QED
  BY Invariance, <1>1, PTL

\* When ~GrpcServer has returned, cq_thread_ is joined or never ran, the streams
\* and runner_ are over and no thread is inside stop().
THEOREM DestroyedAlone == Spec => []NothingOutlives
<1>1. IndInv => NothingOutlives
  BY DEF IndInv, TypeOK, ServerOK, ClientsOK, JoinedOK, DestroyedOK,
         NothingOutlives, Returned, Leaving
<1> QED
  BY Invariance, <1>1, PTL

\* However many signals there are: unless one comes under odd circumstances,
\* stop() and the destructor between them join cq_thread_ once and nothing uses
\* a completion queue that was shut down.
THEOREM DiesOnlyIfOdd == Spec => []CleanShutdown
<1>1. IndInv => CleanShutdown
  BY DEF IndInv, NothingOddOK, CleanShutdown
<1> QED
  BY Invariance, <1>1, PTL

-----------------------------------------------------------------------------
(***************************************************************************)
(* The settings.  load_dotenv() is a loop over the lines of a file of any  *)
(* length: its invariant says what the lines read so far have set.         *)
(***************************************************************************)
Configuring == {"config", "dotenv", "configured"}

\* The environment is what the process was given, with the first value the lines
\* read so far have for every other key.
EnvOK ==
  /\ \A k \in DOMAIN given : k \in DOMAIN env /\ env[k] = given[k]
  /\ \A i \in 1..line : opened[i].key \in DOMAIN env \cup {""}
  /\ \A k \in DOMAIN env \ DOMAIN given :
       \E i \in 1..line :
         /\ opened[i].key = k /\ env[k] = LineValue(opened[i])
         /\ \A j \in 1..line : opened[j].key = k => i <= j

DotenvOK ==
  main \in Configuring =>
    /\ given \in Environments
    /\ files \in DotenvFiles
    /\ main = "config" => env = given /\ line = 0
    /\ main # "config" =>
         /\ opened = Lines
         /\ line \in 0..Len(opened)
         /\ EnvOK
    /\ main = "configured" => line = Len(opened) /\ cfg = FromEnv(env)

\* The file that is read is a sequence of lines.
LEMMA LinesType ==
  ASSUME given \in Environments, files \in DotenvFiles
  PROVE  Lines \in Seq(DotenvLine)
<1>1. files.dotenv \in Seq(DotenvLine) /\ files.named \in Seq(DotenvLine)
  BY ConfigAssumption
<1>2. <<>> \in Seq(DotenvLine)
  OBVIOUS
<1> QED
  BY <1>1, <1>2 DEF Lines, DotenvFile

\* One more line sets its variable if nothing has set it yet.
LEMMA ReadLineStep == ASSUME DotenvOK, ReadLine PROVE DotenvOK'
<1>1. /\ main = "dotenv" /\ main' = "dotenv"
      /\ given' = given /\ files' = files /\ opened' = opened
      /\ line' = line + 1 /\ line < Len(opened)
      /\ env' = Setenv(env, opened[line + 1])
  BY DEF ReadLine
<1>2. /\ given \in Environments /\ files \in DotenvFiles
      /\ opened = Lines /\ line \in 0..Len(opened) /\ EnvOK
  BY <1>1 DEF DotenvOK, Configuring
<1>3. opened \in Seq(DotenvLine) /\ Len(opened) \in Nat /\ line \in Nat
  BY <1>2, LinesType
<1>4. Lines' = Lines /\ line' \in 0..Len(opened)
  BY <1>1, <1>2, <1>3 DEF Lines
<1>5. line + 1 \in 1..line' /\ \A i \in 1..line' : i \in 1..line \/ i = line + 1
  BY <1>1, <1>3
<1>6. EnvOK'
  <2> DEFINE key == opened[line + 1].key
             v == LineValue(opened[line + 1])
  <2>1. CASE key \in DOMAIN env \cup {""}
    <3>1. env' = env
      BY <1>1, <2>1 DEF Setenv
    <3>2. \A i \in 1..line' : opened[i].key \in DOMAIN env' \cup {""}
      BY <1>2, <1>5, <2>1, <3>1 DEF EnvOK
    <3>3. ASSUME NEW k \in DOMAIN env' \ DOMAIN given
          PROVE  \E i \in 1..line' :
                   /\ opened[i].key = k /\ env'[k] = LineValue(opened[i])
                   /\ \A j \in 1..line' : opened[j].key = k => i <= j
      <4>1. PICK i \in 1..line :
              /\ opened[i].key = k /\ env[k] = LineValue(opened[i])
              /\ \A j \in 1..line : opened[j].key = k => i <= j
        BY <1>2, <3>1 DEF EnvOK
      <4>2. i \in 1..line' /\ i <= line + 1
        BY <1>1, <1>3
      <4> QED
        BY <1>5, <3>1, <4>1, <4>2
    <3>4. \A k \in DOMAIN given : k \in DOMAIN env' /\ env'[k] = given[k]
      BY <1>2, <3>1 DEF EnvOK
    <3> QED
      BY <1>1, <3>2, <3>3, <3>4, ZenonT(60) DEF EnvOK
  <2>2. CASE key \notin DOMAIN env \cup {""}
    <3>1. /\ DOMAIN env' = DOMAIN env \cup {key}
          /\ env'[key] = v
          /\ \A k \in DOMAIN env : env'[k] = env[k]
      BY <1>1, <2>2 DEF Setenv, Put
    <3> HIDE DEF v
    <3>2. \A i \in 1..line' : opened[i].key \in DOMAIN env' \cup {""}
      BY <1>2, <1>5, <3>1 DEF EnvOK
    <3>3. \A k \in DOMAIN given : k \in DOMAIN env' /\ env'[k] = given[k]
      BY <1>2, <3>1 DEF EnvOK
    <3>4. ASSUME NEW k \in DOMAIN env' \ DOMAIN given
          PROVE  \E i \in 1..line' :
                   /\ opened[i].key = k /\ env'[k] = LineValue(opened[i])
                   /\ \A j \in 1..line' : opened[j].key = k => i <= j
      <4>1. CASE k \in DOMAIN env
        <5>1. PICK i \in 1..line :
                /\ opened[i].key = k /\ env[k] = LineValue(opened[i])
                /\ \A j \in 1..line : opened[j].key = k => i <= j
          BY <1>2, <4>1 DEF EnvOK
        <5>2. i \in 1..line' /\ i <= line + 1
          BY <1>1, <1>3
        <5> QED
          BY <1>5, <3>1, <4>1, <5>1, <5>2
      <4>2. CASE k = key
        <5>1. \A j \in 1..line : opened[j].key # k
          BY <1>2, <2>2, <4>2 DEF EnvOK
        <5>2. \A j \in 1..line' : opened[j].key = k => line + 1 <= j
          BY <1>3, <1>5, <5>1
        <5> QED
          BY <1>5, <3>1, <4>2, <5>2 DEF v
      <4> QED
        BY <3>1, <4>1, <4>2
    <3> QED
      BY <1>1, <3>2, <3>3, <3>4, ZenonT(60) DEF EnvOK
  <2> QED
    BY <2>1, <2>2
<1> QED
  BY <1>1, <1>2, <1>4, <1>6 DEF DotenvOK, Configuring

\* The loop's invariant holds from the start of main() until from_env() returns.
LEMMA DotenvInvariance == Spec => []DotenvOK
<1>1. Init => DotenvOK
  BY DEF Init, DotenvOK, Configuring
<1>2. DotenvOK /\ [Next]_vars => DotenvOK'
  <2> SUFFICES ASSUME DotenvOK, [Next]_vars PROVE DotenvOK'
    OBVIOUS
  <2>1. CASE OpenDotenv
    <3>1. /\ main = "config" /\ main' = "dotenv"
          /\ given' = given /\ files' = files /\ env' = env /\ line' = line
          /\ opened' = DotenvFile(env, files)
      BY <2>1 DEF OpenDotenv
    <3>2. /\ given \in Environments /\ files \in DotenvFiles
          /\ env = given /\ line = 0
      BY <3>1 DEF DotenvOK, Configuring
    <3>3. opened' = Lines /\ Lines' = Lines
      BY <3>1, <3>2 DEF Lines
    <3>4. line' \in 0..Len(opened')
      BY <3>1, <3>2, <3>3, LinesType
    <3>5. EnvOK'
      BY <3>1, <3>2 DEF EnvOK
    <3> QED
      BY <3>1, <3>2, <3>3, <3>4, <3>5 DEF DotenvOK, Configuring
  <2>2. CASE ReadLine
    BY <2>2, ReadLineStep
  <2>3. CASE Configure
    BY <2>3, ZenonT(60) DEF Configure, DotenvOK, Configuring, EnvOK, Lines
  <2>4. ASSUME UNCHANGED <<config, main>> PROVE DotenvOK'
    BY <2>4, ZenonT(60) DEF config, DotenvOK, EnvOK, Lines
  <2>5. ASSUME main' \notin Configuring PROVE DotenvOK'
    BY <2>5 DEF DotenvOK
  <2>6. CASE Wire \/ AddQueue \/ BuildAndStart \/ Listen \/ StartThread
             \/ WaitReturns \/ CloseZenoh \/ StopMqtt \/ ResetMqtt \/ Destroy
             \/ Destroyed \/ Exit
    BY <2>4, <2>5, <2>6
       DEF Wire, AddQueue, BuildAndStart, Listen, StartThread, WaitReturns,
           CloseZenoh, StopMqtt, ResetMqtt, Destroy, Destroyed, Exit,
           Configuring
  <2>7. ASSUME NEW i \in DOMAIN calls, Stop(i) PROVE DotenvOK'
    BY <2>4, <2>7
       DEF Stop, StopNoServer, StopServer, ServerDown, StopQueue, JoinNothing,
           Join, Joined
  <2>8. CASE QueueThread \/ ZenohTests \/ ZenohPublishes \/ RunnerExits
             \/ VehicleLeaves
    BY <2>4, <2>8
       DEF QueueThread, AcceptStream, EndStream, AcceptFails, QueueThreadExits,
           QueueTests, QueuePublishes, ZenohTests, ZenohPublishes, RunnerExits,
           VehicleLeaves
  <2>9. ASSUME NEW s \in Signals, NEW t \in Thread, Deliver(s, t)
        PROVE  DotenvOK'
    BY <2>4, <2>9 DEF Deliver
  <2>10. CASE UNCHANGED vars
    BY <2>4, <2>10 DEF vars
  <2> QED
    BY <2>1, <2>2, <2>3, <2>6, <2>7, <2>8, <2>9, <2>10
       DEF Next, Running, Ended, Main
<1> QED
  BY <1>1, <1>2, PTL DEF Spec

\* Only one line is the first with its key.
LEMMA FirstUnique ==
  ASSUME NEW L, NEW k, NEW n \in Nat, NEW i \in 1..n, L[i].key = k,
         \A j \in 1..n : L[j].key = k => i <= j
  PROVE  i = CHOOSE x \in 1..n :
               L[x].key = k /\ \A j \in 1..n : L[j].key = k => x <= j
<1> DEFINE P(x) == L[x].key = k /\ \A j \in 1..n : L[j].key = k => x <= j
<1>1. PICK m \in 1..n : m = CHOOSE x \in 1..n : P(x)
  OBVIOUS
<1>2. P(m)
  BY <1>1
<1>3. m <= i /\ i <= m
  BY <1>2
<1> HIDE DEF P
<1>4. m = i
  BY <1>3
<1> QED
  BY <1>1, <1>4 DEF P

\* Every variable ends up as the environment and then the first line set it, and
\* that is a value the conversions know.
LEMMA SourceRead ==
  ASSUME DotenvOK, main = "configured", NEW k \in Setting
  PROVE  Getenv(env, k) = Source(k) /\ Source(k) \in Value
<1>1. /\ given \in Environments /\ files \in DotenvFiles
      /\ opened = Lines /\ line = Len(opened) /\ EnvOK
  BY DEF DotenvOK, Configuring
<1>2. /\ Lines \in Seq(DotenvLine)
      /\ Len(Lines) \in Nat /\ DOMAIN Lines = 1..Len(Lines)
  <2>1. Lines \in Seq(DotenvLine)
    BY <1>1, LinesType
  <2> QED
    BY <2>1, LenProperties
<1>3. CASE k \in DOMAIN given
  <2>1. given[k] \in Value
    BY <1>1, <1>3, ConfigAssumption
  <2> QED
    BY <1>1, <1>3, <2>1 DEF EnvOK, Getenv, Source
<1>4. CASE k \notin DOMAIN given /\ \E i \in DOMAIN Lines : Lines[i].key = k
  <2>1. PICK L \in Seq(DotenvLine), n \in Nat :
          L = Lines /\ n = Len(Lines) /\ DOMAIN L = 1..n
    BY <1>2
  <2>2. /\ \A i \in 1..n : L[i].key \in DOMAIN env \cup {""}
        /\ k \in DOMAIN env =>
             \E i \in 1..n :
               /\ L[i].key = k /\ env[k] = LineValue(L[i])
               /\ \A j \in 1..n : L[j].key = k => i <= j
    <3>1. opened = L /\ line = n
      BY <1>1, <2>1
    <3>2. \A i \in 1..line : opened[i].key \in DOMAIN env \cup {""}
      BY <1>1 DEF EnvOK
    <3>3. k \in DOMAIN env =>
            \E i \in 1..line :
              /\ opened[i].key = k /\ env[k] = LineValue(opened[i])
              /\ \A j \in 1..line : opened[j].key = k => i <= j
      BY <1>1, <1>4 DEF EnvOK
    <3> QED
      BY <3>1, <3>2, <3>3
  <2>3. k \in DOMAIN env
    <3>1. k \notin {""}
      BY DEF Setting, TextSetting, IntSetting, DoubleSetting
    <3> QED
      BY <1>4, <2>1, <2>2, <3>1
  <2>4. PICK i \in 1..n :
          /\ L[i].key = k /\ env[k] = LineValue(L[i])
          /\ \A j \in 1..n : L[j].key = k => i <= j
    BY <2>2, <2>3
  <2>5. PICK m : m = FirstLine(k)
    OBVIOUS
  <2>6. m = CHOOSE x \in 1..n :
              L[x].key = k /\ \A j \in 1..n : L[j].key = k => x <= j
    BY <2>1, <2>5 DEF FirstLine
  <2>7. m = i
    <3>1. i = CHOOSE x \in 1..n :
                L[x].key = k /\ \A j \in 1..n : L[j].key = k => x <= j
      BY <2>4, FirstUnique
    <3> QED
      BY <2>6, <3>1
  <2>8. LineValue(L[i]) \in Value
    <3>1. L[i] \in DotenvLine
      <4>1. i \in 1..Len(L)
        BY <2>1
      <4> QED
        BY <4>1, ElementOfSeq
    <3>2. Quoted \in Value
      BY DEF Quoted, Value
    <3> QED
      BY <3>1, <3>2 DEF LineValue, DotenvLine
  <2> QED
    BY <1>4, <2>1, <2>3, <2>4, <2>5, <2>7, <2>8 DEF Getenv, Source
<1>5. CASE k \notin DOMAIN given /\ ~\E i \in DOMAIN Lines : Lines[i].key = k
  <2>1. k \notin DOMAIN env
    BY <1>1, <1>2, <1>5 DEF EnvOK
  <2>2. Empty \in Value
    BY DEF Empty, Value
  <2> QED
    BY <1>5, <2>1, <2>2 DEF Getenv, Source
<1> QED
  BY <1>3, <1>4, <1>5

\* Whatever the environment, however long the file and whatever it repeats: every
\* text setting is that of the environment, else that of the first line with its
\* key, and the default if that is empty or missing.
THEOREM SettingsFromEnvironment == Spec => []EnvironmentWins
<1>1. DotenvOK => EnvironmentWins
  <2> SUFFICES ASSUME DotenvOK, main = "configured", NEW k \in TextSetting
               PROVE  cfg[k] = IF Source(k) = Empty THEN Default ELSE Source(k)
    BY DEF EnvironmentWins
  <2>1. cfg = FromEnv(env)
    BY DEF DotenvOK, Configuring
  <2>2. cfg[k] = EnvOr(env, k)
    BY <2>1 DEF FromEnv, Setting
  <2>3. Getenv(env, k) = Source(k)
    BY SourceRead DEF Setting
  <2> QED
    BY <2>2, <2>3 DEF EnvOr
<1> QED
  BY DotenvInvariance, <1>1, PTL

\* For every width of an int and of a port, stoi() and the cast to uint16_t keep
\* a port that is in range, and turn everything else into a valid port or the
\* default.
THEOREM PortKept == Spec => []PortExact
<1>1. DotenvOK => PortExact
  <2> SUFFICES ASSUME DotenvOK, main = "configured" PROVE PortExact
    BY DEF PortExact
  <2> DEFINE port == cfg["MQTT_PORT"]
             source == Source("MQTT_PORT")
  <2>1. cfg = FromEnv(env)
    BY DEF DotenvOK, Configuring
  <2>2. port = CastPort(EnvInt(env, "MQTT_PORT"))
    BY <2>1 DEF FromEnv, Setting, TextSetting, IntSetting
  <2>3. Getenv(env, "MQTT_PORT") = source /\ source \in Value
    BY SourceRead DEF Setting, IntSetting
  <2> HIDE DEF port, source
  <2>4. CASE source.kind = "number" /\ source.value \in -(IntMax + 1)..IntMax
    <3>1. source = Number(source.value) /\ source.value \in Int
      BY <2>3, <2>4 DEF Value, Number
    <3>2. source # Default
      BY <2>4 DEF Default
    <3>3. port = Number(source.value % PortRange)
      BY <2>2, <2>3, <2>4, <3>2 DEF EnvInt, CastPort
    <3>4. source.value % PortRange \in 0..(PortRange - 1)
      BY <3>1, WidthAssumption
    <3>5. source.value \in 0..(PortRange - 1)
            => source.value % PortRange = source.value
      BY WidthAssumption
    <3>6. port.value \in 0..(PortRange - 1)
      BY <3>3, <3>4 DEF Number
    <3>7. source.value \in 0..(PortRange - 1) => port = source
      BY <3>1, <3>3, <3>5
    <3> QED
      BY <2>4, <3>6, <3>7 DEF PortExact, port, source
  <2>5. CASE ~(source.kind = "number" /\ source.value \in -(IntMax + 1)..IntMax)
    <3>1. port = Default
      BY <2>2, <2>3, <2>5 DEF EnvInt, CastPort
    <3>2. ~(source.kind = "number" /\ source.value \in 0..(PortRange - 1))
      BY <2>5, WidthAssumption
    <3> QED
      BY <3>1, <3>2 DEF PortExact, port, source
  <2> QED
    BY <2>4, <2>5
<1> QED
  BY DotenvInvariance, <1>1, PTL
=============================================================================
