----------------------------- MODULE GatewayMain -----------------------------
(***************************************************************************)
(* main() from its first line to its return: the configuration, the start  *)
(* of GrpcServer, the signal handler, and the shutdown of GrpcServer, the  *)
(* zenoh session and MqttClient, whose publish() other threads call.       *)
(*                                                                         *)
(* Four threads act: main, the completion-queue thread ("queue"), the      *)
(* runner_ of MqttClient and the thread of the zenoh subscriber.  A signal *)
(* is handled on whichever thread the system picks, on top of what that    *)
(* thread is doing: the handler calls GrpcServer::stop(), and so does the  *)
(* destructor.  calls holds the calls of stop() in progress; a thread goes *)
(* on only when the newest call on it has returned.                        *)
(*                                                                         *)
(* External: Server::Shutdown() turns the waiting handler away and returns *)
(* once no stream is left; a second call waits for the first.  gRPC aborts *)
(* on an operation on a queue that was shut down.  Closing the zenoh       *)
(* session waits for a callback that is running.                           *)
(***************************************************************************)
EXTENDS Config

CONSTANTS
  Environments, \* process environments to start with
  DotenvFiles,  \* contents of ".env" and of a file GATEWAY_ENV_FILE names
  Signals       \* signals, each of which comes at most once

ASSUME SignalsAssumption == "destructor" \notin Signals

ASSUME ConfigAssumption ==
  /\ \A e \in Environments : \A k \in DOMAIN e : e[k] \in Value
  /\ DotenvFiles \subseteq [dotenv : Seq(DotenvLine), named : Seq(DotenvLine)]

Thread == {"main", "queue", "runner", "zenoh"}

VARIABLES
  env,         \* the process environment, the files and the one load_dotenv()
  files,       \* opened with the number of lines read, until from_env() returns
  opened,
  line,
  given,       \* history: the environment the process was started with
  cfg,         \* cfg
  main,        \* where main() is
  server,      \* server_
  cq,          \* cq_
  queueThread, \* cq_thread_
  accept,      \* the handler that waits for a stream
  stream,      \* the stream of a vehicle
  mqtt,        \* MqttClient: started_ and client_
  runner,      \* runner_ of MqttClient
  zenoh,       \* the subscriber's callback
  calls,       \* calls of stop() in progress, oldest first
  delivered,   \* signals delivered
  odd,         \* history: circumstances in which a signal was delivered
  process      \* the process

config == <<env, files, opened, line, given, cfg>>
grpc == <<server, cq, queueThread, accept, stream>>
others == <<mqtt, runner, zenoh>>
signal == <<calls, delivered, odd>>
vars == <<config, main, grpc, others, signal, process>>

TypeOK ==
  /\ \A k \in DOMAIN cfg : k \in Setting
  /\ main \in {"config", "dotenv", "configured", "starting", "queueAdded",
               "serverUp", "listening", "waiting", "closeZenoh", "stopMqtt",
               "joinMqtt", "destroy", "destroying", "destroyed"}
  /\ server \in {"null", "up", "stopping", "down"}
  /\ cq \in {"null", "open", "shut"}
  /\ queueThread \in {"none", "next", "publish", "exited", "joined"}
  /\ accept \in {"none", "waiting", "failed"}
  /\ stream \in {"none", "open", "left"}
  /\ mqtt \in {"none", "started", "stopping", "reset"}
  /\ runner \in {"none", "running", "exited"}
  /\ zenoh \in {"none", "idle", "publish", "closed"}
  /\ calls \in Seq([by : Signals \cup {"destructor"}, thread : Thread,
                    at : {"shutdown", "draining", "cq", "join", "joining"}])
  /\ delivered \subseteq Signals
  /\ odd \subseteq {"early", "late", "second", "onQueueThread"}
  /\ process \in {"running", "exited", "dead"}

Init ==
  /\ env \in Environments /\ given = env
  /\ files \in DotenvFiles /\ opened = <<>> /\ line = 0
  /\ cfg = <<>>
  /\ main = "config"
  /\ server = "null" /\ cq = "null" /\ queueThread = "none"
  /\ accept = "none" /\ stream = "none"
  /\ mqtt = "none" /\ runner = "none" /\ zenoh = "none"
  /\ calls = <<>> /\ delivered = {} /\ odd = {}
  /\ process = "running"

\* No call of stop() made by a signal has interrupted thread t.
Undisturbed(t) ==
  \A i \in DOMAIN calls : calls[i].thread = t => calls[i].by = "destructor"

-----------------------------------------------------------------------------
(***************************************************************************)
(* main(): start-up.                                                       *)
(***************************************************************************)

\* from_env() opens the file ...
OpenDotenv ==
  /\ main = "config"
  /\ main' = "dotenv"
  /\ opened' = DotenvFile(env, files)
  /\ UNCHANGED <<env, files, line, given, cfg, grpc, others, signal, process>>

\* ... reads it line by line ...
ReadLine ==
  /\ main = "dotenv" /\ line < Len(opened)
  /\ line' = line + 1
  /\ env' = Setenv(env, opened[line + 1])
  /\ UNCHANGED <<files, opened, given, cfg, main, grpc, others, signal,
                 process>>

\* ... and takes the settings from the environment.
Configure ==
  /\ main = "dotenv" /\ line = Len(opened)
  /\ main' = "configured"
  /\ cfg' = FromEnv(env)
  /\ UNCHANGED <<env, files, opened, line, given, grpc, others, signal,
                 process>>

\* The MQTT client is started, the zenoh subscriber declared, the vehicle logged
\* in (see AuthService), g_grpc_ptr set and the signal handler installed.
\* Nothing reads the environment again.
Wire ==
  /\ main = "configured"
  /\ main' = "starting"
  /\ env' = <<>> /\ files' = <<>> /\ opened' = <<>> /\ line' = 0
  /\ given' = <<>>
  /\ mqtt' = "started" /\ runner' = "running" /\ zenoh' = "idle"
  /\ UNCHANGED <<cfg, grpc, signal, process>>

\* start(): the completion queue is added ...
AddQueue ==
  /\ main = "starting" /\ Undisturbed("main")
  /\ main' = "queueAdded"
  /\ cq' = "open"
  /\ UNCHANGED <<config, server, queueThread, accept, stream, others, signal,
                 process>>

\* ... the server built, unless it cannot listen: then start() returns ...
BuildAndStart ==
  /\ main = "queueAdded" /\ Undisturbed("main")
  /\ \/ /\ cfg["GRPC_LISTEN"] # Word("unusable")
        /\ server' = "up" /\ main' = "serverUp"
     \/ server' = "null" /\ main' = "waiting"
  /\ UNCHANGED <<config, cq, queueThread, accept, stream, others, signal,
                 process>>

\* ... the stream handler constructed, which asks for the first stream ...
Listen ==
  /\ main = "serverUp" /\ Undisturbed("main")
  /\ main' = "listening"
  /\ accept' = IF server = "up" THEN "waiting" ELSE "failed"
  /\ process' = IF cq = "shut" THEN "dead" ELSE process
  /\ UNCHANGED <<config, server, cq, queueThread, stream, others, signal>>

\* ... and the thread started.  main() goes on to wait().
StartThread ==
  /\ main = "listening" /\ Undisturbed("main")
  /\ main' = "waiting"
  /\ queueThread' = "next"
  /\ UNCHANGED <<config, server, cq, accept, stream, others, signal, process>>

-----------------------------------------------------------------------------
(***************************************************************************)
(* main(): shutdown.                                                       *)
(***************************************************************************)

\* wait() returns when the server is down or was never built.
WaitReturns ==
  /\ main = "waiting" /\ Undisturbed("main")
  /\ server \in {"null", "down"}
  /\ main' = "closeZenoh"
  /\ UNCHANGED <<config, grpc, others, signal, process>>

\* Mutant: the session is left to the end of main().
SessionLeftOpen ==
  /\ main = "closeZenoh" /\ Undisturbed("main")
  /\ main' = "stopMqtt"
  /\ UNCHANGED <<config, grpc, others, signal, process>>

\* zsession.reset()
CloseZenoh ==
  /\ main = "closeZenoh" /\ Undisturbed("main")
  /\ zenoh = "idle" /\ Undisturbed("zenoh")
  /\ main' = "stopMqtt"
  /\ zenoh' = "closed"
  /\ UNCHANGED <<config, grpc, mqtt, runner, signal, process>>

\* mqtt.stop(): started_ is cleared, the disconnect started ...
StopMqtt ==
  /\ main = "stopMqtt" /\ Undisturbed("main")
  /\ main' = "joinMqtt"
  /\ mqtt' = "stopping"
  /\ UNCHANGED <<config, grpc, runner, zenoh, signal, process>>

\* ... and when runner_ has ended, client_ is reset.
ResetMqtt ==
  /\ main = "joinMqtt" /\ Undisturbed("main")
  /\ runner = "exited"
  /\ main' = "destroy"
  /\ mqtt' = "reset"
  /\ UNCHANGED <<config, grpc, runner, zenoh, signal, process>>

\* main() returns: ~GrpcServer calls stop() ...
Destroy ==
  /\ main = "destroy" /\ Undisturbed("main")
  /\ main' = "destroying"
  /\ calls' = Append(calls, [by |-> "destructor", thread |-> "main",
                             at |-> "shutdown"])
  /\ UNCHANGED <<config, grpc, others, delivered, odd, process>>

\* ... and the object is gone; g_grpc_ptr still names it ...
Destroyed ==
  /\ main = "destroying" /\ Undisturbed("main")
  /\ \A i \in DOMAIN calls : calls[i].by # "destructor"
  /\ main' = "destroyed"
  /\ UNCHANGED <<config, grpc, others, signal, process>>

\* ... until the process ends.
Exit ==
  /\ main = "destroyed"
  /\ process' = "exited"
  /\ UNCHANGED <<config, main, grpc, others, signal>>

-----------------------------------------------------------------------------
(***************************************************************************)
(* The signal handler, and GrpcServer::stop() for whoever calls it.        *)
(***************************************************************************)
Handling == main \notin {"config", "dotenv", "configured"}

Exists(t) ==
  CASE t = "main" -> TRUE
    [] t = "queue" -> queueThread \in {"next", "publish"}
    [] t = "runner" -> runner = "running"
    [] t = "zenoh" -> zenoh \in {"idle", "publish"}

\* What is odd about a signal on thread t: it comes before start() has a server,
\* a queue and a handler, during another call of stop(), after the server was
\* destroyed, or on the thread that stop() joins.
Circumstances(t) ==
  {c \in {"early", "second", "late", "onQueueThread"} :
     \/ c = "early" /\ main \in {"starting", "queueAdded", "serverUp"}
     \/ c = "second" /\ calls # <<>>
     \/ c = "late" /\ main = "destroyed"
     \/ c = "onQueueThread" /\ t = "queue"}

\* signal_handler() on thread t.  After ~GrpcServer it calls into an object that
\* is gone: the process dies, or nothing is seen to happen.
Deliver(s, t) ==
  /\ Handling /\ Exists(t)
  /\ s \notin delivered
  /\ delivered' = delivered \cup {s}
  /\ odd' = odd \cup Circumstances(t)
  /\ IF main = "destroyed"
     THEN process' \in {"running", "dead"} /\ UNCHANGED calls
     ELSE /\ calls' = Append(calls, [by |-> s, thread |-> t, at |-> "shutdown"])
          /\ UNCHANGED process
  /\ UNCHANGED <<config, main, grpc, others>>

\* Call i of stop() is at a, and nothing interrupts it.
At(i, a) ==
  /\ calls[i].at = a
  /\ \A j \in DOMAIN calls : j > i => calls[j].thread # calls[i].thread

Goto(i, a) == calls' = [calls EXCEPT ![i].at = a]

\* No server, or one that is down already.
StopNoServer(i) ==
  /\ At(i, "shutdown")
  /\ server \in {"null", "down"}
  /\ Goto(i, "cq")
  /\ UNCHANGED <<config, main, grpc, others, delivered, odd, process>>

\* server_->Shutdown() turns the waiting handler away ...
StopServer(i) ==
  /\ At(i, "shutdown")
  /\ server = "up"
  /\ server' = "stopping"
  /\ accept' = IF accept = "waiting" THEN "failed" ELSE accept
  /\ Goto(i, "draining")
  /\ UNCHANGED <<config, main, cq, queueThread, stream, others, delivered, odd,
                 process>>

\* ... and returns when no stream is left: it has no deadline.
ServerDown(i) ==
  /\ At(i, "draining")
  /\ stream = "none"
  /\ server' = "down"
  /\ Goto(i, "cq")
  /\ UNCHANGED <<config, main, cq, queueThread, accept, stream, others,
                 delivered, odd, process>>

\* Mutant: the queue is not shut down.
StopQueueForgotten(i) ==
  /\ At(i, "cq")
  /\ Goto(i, "join")
  /\ UNCHANGED <<config, main, grpc, others, delivered, odd, process>>

\* cq_->Shutdown()
StopQueue(i) ==
  /\ At(i, "cq")
  /\ cq' = IF cq = "open" THEN "shut" ELSE cq
  /\ Goto(i, "join")
  /\ UNCHANGED <<config, main, server, queueThread, accept, stream, others,
                 delivered, odd, process>>

\* Mutant: the thread is not joined.
JoinForgotten(i) ==
  /\ At(i, "join")
  /\ calls' = RemoveAt(calls, i)
  /\ UNCHANGED <<config, main, grpc, others, delivered, odd, process>>

\* Mutant: joinable() is not asked.
JoinAlways(i) ==
  /\ At(i, "join")
  /\ Goto(i, "joining")
  /\ process' = IF queueThread \in {"none", "joined"} THEN "dead" ELSE process
  /\ UNCHANGED <<config, main, grpc, others, delivered, odd>>

\* cq_thread_ is not joinable: it never ran or was joined.
JoinNothing(i) ==
  /\ At(i, "join")
  /\ queueThread \in {"none", "joined"}
  /\ calls' = RemoveAt(calls, i)
  /\ UNCHANGED <<config, main, grpc, others, delivered, odd, process>>

\* cq_thread_.join() throws, out of a signal handler, when the thread would join
\* itself or another call is joining it.
Join(i) ==
  /\ At(i, "join")
  /\ queueThread \in {"next", "publish", "exited"}
  /\ Goto(i, "joining")
  /\ process' = IF \/ calls[i].thread = "queue"
                   \/ \E j \in DOMAIN calls : calls[j].at = "joining"
                THEN "dead" ELSE process
  /\ UNCHANGED <<config, main, grpc, others, delivered, odd>>

Joined(i) ==
  /\ At(i, "joining")
  /\ queueThread = "exited"
  /\ queueThread' = "joined"
  /\ calls' = RemoveAt(calls, i)
  /\ UNCHANGED <<config, main, server, cq, accept, stream, others, delivered,
                 odd, process>>

-----------------------------------------------------------------------------
(***************************************************************************)
(* The completion-queue thread (see VehicleStream), the vehicle, runner_   *)
(* (see MqttClient), and publish() on the threads that call it: started_   *)
(* and client_ are tested, and then client_ is used.                       *)
(***************************************************************************)
AtNext == queueThread = "next" /\ Undisturbed("queue")

\* A vehicle connects; the handler's sibling waits for the next one.
AcceptStream ==
  /\ AtNext
  /\ accept = "waiting" /\ stream = "none"
  /\ stream' = "open"
  /\ UNCHANGED <<config, main, server, cq, queueThread, accept, others, signal,
                 process>>

VehicleLeaves ==
  /\ stream = "open"
  /\ stream' = "left"
  /\ UNCHANGED <<config, main, server, cq, queueThread, accept, others, signal,
                 process>>

\* The read fails, Finish completes, the handler is deleted.
EndStream ==
  /\ AtNext
  /\ stream = "left"
  /\ stream' = "none"
  /\ UNCHANGED <<config, main, server, cq, queueThread, accept, others, signal,
                 process>>

AcceptFails ==
  /\ AtNext
  /\ accept = "failed"
  /\ accept' = "none"
  /\ UNCHANGED <<config, main, server, cq, queueThread, stream, others, signal,
                 process>>

\* Next() returns false: the queue was shut down and has nothing left.
QueueThreadExits ==
  /\ AtNext
  /\ cq = "shut" /\ accept = "none" /\ stream = "none"
  /\ queueThread' = "exited"
  /\ UNCHANGED <<config, main, server, cq, accept, stream, others, signal,
                 process>>

\* A report of the vehicle is published: the test ...
QueueTests ==
  /\ AtNext
  /\ stream # "none" /\ mqtt = "started"
  /\ queueThread' = "publish"
  /\ UNCHANGED <<config, main, server, cq, accept, stream, others, signal,
                 process>>

\* ... and the use.
QueuePublishes ==
  /\ queueThread = "publish" /\ Undisturbed("queue")
  /\ queueThread' = "next"
  /\ process' = IF mqtt = "reset" THEN "dead" ELSE process
  /\ UNCHANGED <<config, main, server, cq, accept, stream, others, signal>>

\* A location from zenoh is published: the test ...
ZenohTests ==
  /\ zenoh = "idle" /\ Undisturbed("zenoh")
  /\ main # "closeZenoh" /\ mqtt = "started"
  /\ zenoh' = "publish"
  /\ UNCHANGED <<config, main, grpc, mqtt, runner, signal, process>>

\* ... and the use.
ZenohPublishes ==
  /\ zenoh = "publish" /\ Undisturbed("zenoh")
  /\ zenoh' = "idle"
  /\ process' = IF mqtt = "reset" THEN "dead" ELSE process
  /\ UNCHANGED <<config, main, grpc, mqtt, runner, signal>>

\* The disconnect completes and stops the io_context.
RunnerExits ==
  /\ mqtt = "stopping" /\ runner = "running" /\ Undisturbed("runner")
  /\ runner' = "exited"
  /\ UNCHANGED <<config, main, grpc, mqtt, zenoh, signal, process>>

-----------------------------------------------------------------------------
Main ==
  \/ OpenDotenv \/ ReadLine \/ Configure \/ Wire
  \/ AddQueue \/ BuildAndStart \/ Listen \/ StartThread
  \/ WaitReturns \/ CloseZenoh \/ StopMqtt \/ ResetMqtt
  \/ Destroy \/ Destroyed \/ Exit

Stop(i) ==
  \/ StopNoServer(i) \/ StopServer(i) \/ ServerDown(i)
  \/ StopQueue(i)
  \/ JoinNothing(i) \/ Join(i) \/ Joined(i)

QueueThread ==
  \/ AcceptStream \/ EndStream \/ AcceptFails \/ QueueThreadExits
  \/ QueueTests \/ QueuePublishes

Running ==
  \/ Main
  \/ \E i \in DOMAIN calls : Stop(i)
  \/ QueueThread
  \/ ZenohTests \/ ZenohPublishes
  \/ RunnerExits
  \/ VehicleLeaves
  \/ \E s \in Signals, t \in Thread : Deliver(s, t)

\* The process is over, or an odd signal has left threads waiting for ever.
Ended ==
  /\ process # "running" \/ odd # {}
  /\ UNCHANGED vars

Next == (process = "running" /\ Running) \/ Ended

Spec == Init /\ [][Next]_vars

\* A call of stop(), by whoever makes it.
StopBy(c) == \E i \in DOMAIN calls : calls[i].by = c /\ Stop(i)

\* Every thread runs, and a vehicle leaves once the server is shutting down.  The
\* queue hands out its events in turn, and a vehicle that left has sent finitely
\* many reports: its end is seen.  Signals, connections and samples need not come.
FairSpec ==
  /\ Spec
  /\ WF_vars(process = "running" /\ Main)
  /\ \A c \in Signals \cup {"destructor"} :
       WF_vars(process = "running" /\ StopBy(c))
  /\ SF_vars(process = "running" /\ EndStream)
  /\ SF_vars(process = "running" /\ AcceptFails)
  /\ WF_vars(process = "running" /\ (QueueThreadExits \/ QueuePublishes))
  /\ WF_vars(process = "running" /\ ZenohPublishes)
  /\ WF_vars(process = "running" /\ RunnerExits)
  /\ WF_vars(process = "running" /\ server = "stopping" /\ VehicleLeaves)

-----------------------------------------------------------------------------
\* What a setting should come from: the environment at the start, or else the
\* first line of the file with its key.
Lines == DotenvFile(given, files)

FirstLine(k) ==
  CHOOSE i \in DOMAIN Lines :
    Lines[i].key = k /\ \A j \in DOMAIN Lines : Lines[j].key = k => i <= j

Source(k) ==
  IF k \in DOMAIN given THEN given[k]
  ELSE IF \E i \in DOMAIN Lines : Lines[i].key = k
       THEN LineValue(Lines[FirstLine(k)])
       ELSE Empty

\* Every text setting comes from the environment if it is set there, else from
\* the first line that sets it, and an empty one means the default: "real
\* environment variables take precedence" (.env.example), whatever the file
\* repeats, leaves out or quotes.
EnvironmentWins ==
  main = "configured" =>
    \A k \in TextSetting :
      cfg[k] = IF Source(k) = Empty THEN Default ELSE Source(k)

\* A port that is given as a number in range arrives as it is; every other text
\* or number still ends in a valid port or in the default.
PortExact ==
  main = "configured" =>
    LET port == cfg["MQTT_PORT"]
        source == Source("MQTT_PORT")
    IN  /\ port = Default \/ port.value \in 0..(PortRange - 1)
        /\ source.kind = "number" /\ source.value \in 0..(PortRange - 1)
             => port = source
        /\ source.kind # "number" => port = Default

\* Unless a signal came under odd circumstances the process never dies: stop()
\* may be called by a handler on three of the four threads and again by the
\* destructor, nothing is joined twice, and no operation meets a closed queue.
CleanShutdown == odd = {} => process # "dead"

\* publish() never uses client_ after it was reset: between the test and the use
\* on the queue or the zenoh thread, main() does not get past mqtt.stop().
PublishHasClient ==
  queueThread = "publish" \/ zenoh = "publish" => mqtt \in {"started", "stopping"}

\* When GrpcServer is gone, so is everything that could call into it or into the
\* MQTT client: the threads are joined, the streams over, no stop() is running.
NothingOutlives ==
  main = "destroyed" =>
    /\ queueThread \in {"none", "joined"}
    /\ stream = "none"
    /\ runner = "exited"
    /\ zenoh = "closed"
    /\ calls = <<>>

\* After a signal, or when the server could not be built, the process ends: no
\* thread waits for another that waits for it.
ShutdownEnds ==
  delivered # {} \/ (main = "waiting" /\ server = "null")
    ~> process # "running" \/ odd # {}
=============================================================================
