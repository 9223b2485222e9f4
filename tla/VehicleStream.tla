---------------------------- MODULE VehicleStream ----------------------------
(***************************************************************************)
(* The bidirectional command stream between the gateway and the vehicle:   *)
(* VehicleStreamHandler and StreamWriter (services/vehicle_stream_handler) *)
(* driven by the completion-queue thread of GrpcServer::runCQ, while the   *)
(* MQTT thread hands it cloud commands through push_command().             *)
(*                                                                         *)
(* Two threads of the program act here.                                    *)
(*   - The completion-queue thread takes one finished gRPC operation at a  *)
(*     time and runs the handler it is tagged with.  cq says where it is.  *)
(*   - The MQTT thread runs push_command(), which first reads the atomic   *)
(*     active_ and then uses what it read.  push says where it is.         *)
(* A step of the model is what a thread does between two accesses to       *)
(* memory the other thread also uses.  A section under one of the two      *)
(* mutexes (mu_ of a handler, the static pending_mu_) is one step, except  *)
(* flush_pending(), which holds pending_mu_ while it calls enqueue()       *)
(* repeatedly and so lets the MQTT thread in between two enqueues.         *)
(*                                                                         *)
(* gRPC itself is external: which operations are outstanding on a stream   *)
(* follows from the state of its handler (accept, read, finish) and from   *)
(* inflight (writes); completions may come in any order.                   *)
(***************************************************************************)
EXTENDS Naturals, Sequences, FiniteSets

CONSTANTS
  MaxHandlers,   \* bound on the handler objects ever constructed
  MaxCommands,   \* bound on the commands that arrive from the cloud
  MaxEvents      \* bound on the events the vehicles send

ASSUME BoundsAssumption ==
  /\ MaxHandlers \in Nat \ {0}
  /\ MaxCommands \in Nat
  /\ MaxEvents \in Nat

\* Handler objects, in the order of their construction; nullptr is NoHandler.
Handler == 1..MaxHandlers
NoHandler == 0

\* Commands, numbered in the order of their arrival from the MQTT broker.
Command == 1..MaxCommands
NoCommand == 0

\* State::CREATE is left inside the constructor and is never seen by others.
HandlerState == {"unborn", "ACCEPTING", "READING", "FINISH", "deleted"}

\* The oneof of VehicleEvent, and the topic each event is published on.
AckEvent == {"trip_init_ack", "trip_move_ack", "trip_park_ack",
             "order_update_location_ack", "order_update_status_ack",
             "trip_cancel_ack"}
ReportEvent == {"eta", "status", "arrive", "location"}
VehicleEvent == AckEvent \cup ReportEvent

VARIABLES
  state,      \* state_ of every handler
  active,     \* the static active_
  pending,    \* the static pending_commands_
  queue,      \* write_queue_ of every handler
  writing,    \* the handlers whose writing_ is set
  inflight,   \* gRPC: writes started and not completed, per stream
  client,     \* gRPC: the vehicle's end of every stream
  server,     \* gRPC: "up" until Server::Shutdown is called
  cq,         \* the completion-queue thread
  push,       \* the MQTT thread inside push_command()
  arrived,    \* number of commands that arrived so far
  outbox,     \* topics handed to publish_, in order
  process,    \* "dead" once undefined behaviour has killed the process
  written,    \* history: the commands passed to stream_.Write, per stream
  held        \* history: the commands that were put into pending_commands_

streamVars == <<queue, writing, inflight, written>>
vars == <<state, active, pending, queue, writing, inflight, client, server,
          cq, push, arrived, outbox, process, written, held>>

\* The completion-queue thread waits in cq_->Next().
InNext == [at |-> "next", h |-> NoHandler]
\* The MQTT thread is outside push_command().
Receiving == [at |-> "receive", h |-> NoHandler, cmd |-> NoCommand]

Dead == process = "dead"
Alive == ~Dead

TypeOK ==
  /\ state \in [Handler -> HandlerState]
  /\ active \in Handler \cup {NoHandler}
  /\ pending \in Seq(Command)
  /\ queue \in [Handler -> Seq(Command)]
  /\ writing \subseteq Handler
  /\ inflight \in [Handler -> Nat]
  /\ client \in [Handler -> {"none", "open", "closed"}]
  /\ server \in {"up", "shutdown"}
  /\ cq \in [at : {"next", "flush", "flushing"}, h : Handler \cup {NoHandler}]
  /\ push \in [at : {"receive", "push"}, h : Handler \cup {NoHandler},
               cmd : Command \cup {NoCommand}]
  /\ arrived \in 0..MaxCommands
  /\ outbox \in Seq(ReportEvent)
  /\ process \in {"alive", "dead"}
  /\ written \in [Handler -> Seq(Command)]
  /\ held \in SUBSET Command

-----------------------------------------------------------------------------
\* GrpcServer::start constructs the first handler, whose constructor asks
\* gRPC for a stream, and then starts the completion-queue thread.
Init ==
  /\ state = [h \in Handler |-> IF h = 1 THEN "ACCEPTING" ELSE "unborn"]
  /\ active = NoHandler
  /\ pending = <<>>
  /\ queue = [h \in Handler |-> <<>>]
  /\ writing = {}
  /\ inflight = [h \in Handler |-> 0]
  /\ client = [h \in Handler |-> "none"]
  /\ server = "up"
  /\ cq = InNext
  /\ push = Receiving
  /\ arrived = 0
  /\ outbox = <<>>
  /\ process = "alive"
  /\ written = [h \in Handler |-> <<>>]
  /\ held = {}

-----------------------------------------------------------------------------
(***************************************************************************)
(* The vehicle and the operator: environment actions.                      *)
(***************************************************************************)

\* A vehicle opens VehicleCommandStream; gRPC matches it with the handler that
\* asked for a stream.  The bound MaxHandlers leaves room for its sibling.
VehicleConnect(h) ==
  /\ server = "up"
  /\ h < MaxHandlers
  /\ state[h] = "ACCEPTING"
  /\ client[h] = "none"
  /\ client' = [client EXCEPT ![h] = "open"]
  /\ UNCHANGED <<state, active, pending, streamVars, server, cq, push,
                 arrived, outbox, process, held>>

\* The vehicle half-closes its end, goes away, or the connection breaks.
VehicleClose(h) ==
  /\ client[h] = "open"
  /\ client' = [client EXCEPT ![h] = "closed"]
  /\ UNCHANGED <<state, active, pending, streamVars, server, cq, push,
                 arrived, outbox, process, held>>

\* GrpcServer::stop calls server_->Shutdown(): no stream is matched any more,
\* the ones that exist go on until they end.
StopServer ==
  /\ server = "up"
  /\ server' = "shutdown"
  /\ UNCHANGED <<state, active, pending, streamVars, client, cq, push,
                 arrived, outbox, process, held>>

-----------------------------------------------------------------------------
(***************************************************************************)
(* Writing to a stream.                                                    *)
(***************************************************************************)

\* flush_write_queue_locked() when write_queue_ holds q, writing_ is set for the
\* handlers w and n writes are outstanding: start one write unless there is
\* nothing to write or a write is running.
FlushWriteQueue(h, q, w, n) ==
  IF q = <<>> \/ h \in w
  THEN /\ queue' = [queue EXCEPT ![h] = q]
       /\ writing' = w
       /\ inflight' = [inflight EXCEPT ![h] = n]
       /\ UNCHANGED written
  ELSE /\ queue' = [queue EXCEPT ![h] = Tail(q)]
       /\ writing' = w \cup {h}
       /\ inflight' = [inflight EXCEPT ![h] = n + 1]
       /\ written' = [written EXCEPT ![h] = Append(@, Head(q))]

\* Mutant: enqueue() does not look at writing_.
EnqueueIgnoresWriting(h, c) ==
  FlushWriteQueue(h, Append(queue[h], c), writing \ {h}, inflight[h])

\* Mutant: enqueue() puts the command in front of the others.
EnqueueInFront(h, c) ==
  FlushWriteQueue(h, <<c>> \o queue[h], writing, inflight[h])

\* enqueue(): under mu_, append the command and write it if no write runs.
Enqueue(h, c) ==
  FlushWriteQueue(h, Append(queue[h], c), writing, inflight[h])

\* Mutant: a plain store of nullptr.
StoreNull(h) == active' = NoHandler

\* Mutant: active_ is left alone.
LeaveActive(h) == UNCHANGED active

\* compare_exchange_strong(this, nullptr) on active_.
ClearActive(h) == active' = IF active = h THEN NoHandler ELSE active

\* The queue of commands dies with its handler.
DeleteHandler(h) ==
  /\ state' = [state EXCEPT ![h] = "deleted"]
  /\ queue' = [queue EXCEPT ![h] = <<>>]
  /\ UNCHANGED <<writing, inflight, written>>

-----------------------------------------------------------------------------
(***************************************************************************)
(* The completion-queue thread: VehicleStreamHandler::Proceed(ok), one     *)
(* action per state and value of ok, and StreamWriter::Proceed(ok).        *)
(***************************************************************************)

\* Mutant: the sibling is forgotten.
NoSibling(h) == UNCHANGED state

\* Mutant: the constructor does not call Proceed().
SiblingLeftInCreate(h) == state' = [state EXCEPT ![h + 1] = "CREATE"]

\* new VehicleStreamHandler: its constructor asks gRPC for the next stream.
NewSibling(h) == state' = [state EXCEPT ![h + 1] = "ACCEPTING"]

\* ACCEPTING, ok: the sibling for the next connection is constructed and active_
\* is pointed at this handler.
AcceptingOk(h) ==
  /\ cq = InNext
  /\ state[h] = "ACCEPTING"
  /\ client[h] # "none"
  /\ NewSibling(h)
  /\ active' = h
  /\ cq' = [at |-> "flush", h |-> h]
  /\ UNCHANGED <<pending, streamVars, client, server, push, arrived, outbox,
                 process, held>>

\* Mutant: the first read is started before flush_pending().
FlushLockReading ==
  /\ cq.at = "flush"
  /\ cq' = [cq EXCEPT !.at = "flushing"]
  /\ state' = [state EXCEPT ![cq.h] = "READING"]
  /\ UNCHANGED <<active, pending, streamVars, client, server, push, arrived,
                 outbox, process, held>>

\* ACCEPTING, ok, continued: flush_pending() takes pending_mu_ ...
FlushLock ==
  /\ cq.at = "flush"
  /\ cq' = [cq EXCEPT !.at = "flushing"]
  /\ UNCHANGED <<state, active, pending, streamVars, client, server, push,
                 arrived, outbox, process, held>>

\* ... moves the pending commands to this handler, one enqueue() at a time ...
FlushOne ==
  /\ cq.at = "flushing"
  /\ pending # <<>>
  /\ Enqueue(cq.h, Head(pending))
  /\ pending' = Tail(pending)
  /\ UNCHANGED <<state, active, client, server, cq, push, arrived, outbox,
                 process, held>>

\* Mutant: only what one enqueue() took is flushed.
FlushDoneEarly ==
  /\ cq.at = "flushing"
  /\ state' = [state EXCEPT ![cq.h] = "READING"]
  /\ cq' = InNext
  /\ UNCHANGED <<active, pending, streamVars, client, server, push, arrived,
                 outbox, process, held>>

\* ... and releases pending_mu_.  Proceed() then starts the first read.
FlushDone ==
  /\ cq.at = "flushing"
  /\ pending = <<>>
  /\ state' = [state EXCEPT ![cq.h] = "READING"]
  /\ cq' = InNext
  /\ UNCHANGED <<active, pending, streamVars, client, server, push, arrived,
                 outbox, process, held>>

\* ACCEPTING, not ok: the server was shut down before a vehicle came.
AcceptingFailed(h) ==
  /\ cq = InNext
  /\ state[h] = "ACCEPTING"
  /\ client[h] = "none"
  /\ server = "shutdown"
  /\ DeleteHandler(h)
  /\ UNCHANGED <<active, pending, client, server, cq, push, arrived, outbox,
                 process, held>>

\* READING, ok: handle_incoming() publishes a report (an acknowledgement is at
\* most logged), and the next read is started.
ReadingOk(h, ev) ==
  /\ cq = InNext
  /\ state[h] = "READING"
  /\ Len(outbox) < MaxEvents
  /\ outbox' = IF ev \in ReportEvent THEN Append(outbox, ev) ELSE outbox
  /\ UNCHANGED <<state, active, pending, streamVars, client, server, cq, push,
                 arrived, process, held>>

\* Mutant: a disconnection also empties pending_commands_.
ReadingFailedDropsPending(h) ==
  /\ cq = InNext
  /\ state[h] = "READING"
  /\ client[h] = "closed"
  /\ ClearActive(h)
  /\ state' = [state EXCEPT ![h] = "FINISH"]
  /\ pending' = <<>>
  /\ UNCHANGED <<streamVars, client, server, cq, push, arrived, outbox, process,
                 held>>

\* READING, not ok: the vehicle is gone.  active_ is cleared if it still names
\* this handler, and Finish is started.
ReadingFailed(h) ==
  /\ cq = InNext
  /\ state[h] = "READING"
  /\ client[h] = "closed"
  /\ ClearActive(h)
  /\ state' = [state EXCEPT ![h] = "FINISH"]
  /\ UNCHANGED <<pending, streamVars, client, server, cq, push, arrived,
                 outbox, process, held>>

\* Mutant: the Finish completion is ignored.
FinishIgnored(h) ==
  /\ cq = InNext
  /\ state[h] = "FINISH"
  /\ UNCHANGED vars

\* FINISH: the handler deletes itself, whatever is still in its write queue.
FinishDone(h) ==
  /\ cq = InNext
  /\ state[h] = "FINISH"
  /\ ClearActive(h)
  /\ DeleteHandler(h)
  /\ UNCHANGED <<pending, client, server, cq, push, arrived, outbox, process,
                 held>>

\* Mutant: a finished write does not start the next one.
OnWriteDoneNoFlush(h) ==
  /\ cq = InNext
  /\ inflight[h] > 0
  /\ state[h] # "deleted"
  /\ writing' = writing \ {h}
  /\ inflight' = [inflight EXCEPT ![h] = @ - 1]
  /\ UNCHANGED <<state, active, pending, queue, written, client, server, cq,
                 push, arrived, outbox, process, held>>

\* on_write_done(true): under mu_, the next command is written.
OnWriteDone(h) ==
  /\ cq = InNext
  /\ inflight[h] > 0
  /\ state[h] # "deleted"
  /\ FlushWriteQueue(h, queue[h], writing \ {h}, inflight[h] - 1)
  /\ UNCHANGED <<state, active, pending, client, server, cq, push, arrived,
                 outbox, process, held>>

\* on_write_done(false): writing_ is reset, without mu_ and without a flush.
\* gRPC fails a write only when the call is over.
OnWriteFailed(h) ==
  /\ cq = InNext
  /\ inflight[h] > 0
  /\ state[h] # "deleted"
  /\ client[h] = "closed"
  /\ writing' = writing \ {h}
  /\ inflight' = [inflight EXCEPT ![h] = @ - 1]
  /\ UNCHANGED <<state, active, pending, queue, written, client, server, cq,
                 push, arrived, outbox, process, held>>

\* A write completes after its handler was deleted: on_write_done() runs on
\* freed memory.  The process dies, or nothing is seen to happen.
OnWriteDoneDangling(h) ==
  /\ cq = InNext
  /\ inflight[h] > 0
  /\ state[h] = "deleted"
  /\ inflight' = [inflight EXCEPT ![h] = @ - 1]
  /\ process' \in {"alive", "dead"}
  /\ UNCHANGED <<state, active, pending, queue, writing, written, client,
                 server, cq, push, arrived, outbox, held>>

-----------------------------------------------------------------------------
(***************************************************************************)
(* The MQTT thread: push_command(cmd).                                     *)
(***************************************************************************)

\* A command arrives and active_ is read.
LoadActive ==
  /\ push = Receiving
  /\ arrived < MaxCommands
  /\ arrived' = arrived + 1
  /\ push' = [at |-> "push", h |-> active, cmd |-> arrived + 1]
  /\ UNCHANGED <<state, active, pending, streamVars, client, server, cq,
                 outbox, process, held>>

\* Mutant: the command is dropped when no vehicle is connected.
PushDropped ==
  /\ push.at = "push"
  /\ push.h = NoHandler
  /\ cq.at # "flushing"
  /\ push' = Receiving
  /\ UNCHANGED <<state, active, pending, streamVars, client, server, cq,
                 arrived, outbox, process, held>>

\* active_ was null: the command is queued under pending_mu_.
PushPending ==
  /\ push.at = "push"
  /\ push.h = NoHandler
  /\ cq.at # "flushing"
  /\ pending' = Append(pending, push.cmd)
  /\ held' = held \cup {push.cmd}
  /\ push' = Receiving
  /\ UNCHANGED <<state, active, streamVars, client, server, cq, arrived,
                 outbox, process>>

\* active_ named a handler that still exists: h->enqueue(cmd).
PushEnqueue ==
  /\ push.at = "push"
  /\ push.h # NoHandler
  /\ state[push.h] # "deleted"
  /\ Enqueue(push.h, push.cmd)
  /\ push' = Receiving
  /\ UNCHANGED <<state, active, pending, client, server, cq, arrived, outbox,
                 process, held>>

\* active_ named a handler that was deleted meanwhile: enqueue() runs on freed
\* memory.  The process dies, or the command is lost without a trace.
PushDangling ==
  /\ push.at = "push"
  /\ push.h # NoHandler
  /\ state[push.h] = "deleted"
  /\ push' = Receiving
  /\ process' \in {"alive", "dead"}
  /\ UNCHANGED <<state, active, pending, streamVars, client, server, cq,
                 arrived, outbox, held>>

-----------------------------------------------------------------------------
\* Both threads wait for something to happen, or the process is gone.
Quiescent ==
  /\ Dead \/ (cq = InNext /\ push = Receiving)
  /\ UNCHANGED vars

CompletionQueueThread ==
  \/ FlushLock
  \/ FlushOne
  \/ FlushDone
  \/ \E h \in Handler :
       \/ AcceptingOk(h)
       \/ AcceptingFailed(h)
       \/ \E ev \in VehicleEvent : ReadingOk(h, ev)
       \/ ReadingFailed(h)
       \/ FinishDone(h)
       \/ OnWriteDone(h)
       \/ OnWriteFailed(h)
       \/ OnWriteDoneDangling(h)

MqttThread ==
  \/ LoadActive
  \/ PushPending
  \/ PushEnqueue
  \/ PushDangling

Environment ==
  \/ \E h \in Handler : VehicleConnect(h) \/ VehicleClose(h)
  \/ StopServer

Next ==
  \/ Alive /\ (CompletionQueueThread \/ MqttThread \/ Environment)
  \/ Quiescent

Spec == Init /\ [][Next]_vars

(***************************************************************************)
(* Fairness.  The completion-queue thread returns to cq_->Next() and gRPC  *)
(* reports every started operation once; the MQTT thread leaves            *)
(* push_command().  A write completes: the vehicle reads its stream.       *)
(***************************************************************************)
Fairness ==
  /\ WF_vars(Alive /\ (FlushLock \/ FlushOne \/ FlushDone))
  /\ WF_vars(Alive /\ (PushPending \/ PushEnqueue \/ PushDangling))
  /\ \A h \in Handler :
       /\ WF_vars(Alive /\ (AcceptingOk(h) \/ AcceptingFailed(h)))
       /\ WF_vars(Alive /\ ReadingFailed(h))
       /\ WF_vars(Alive /\ FinishDone(h))
       /\ WF_vars(Alive /\ (OnWriteDone(h) \/ OnWriteFailed(h)))

FairSpec == Spec /\ Fairness

-----------------------------------------------------------------------------
(***************************************************************************)
(* Safety.                                                                 *)
(***************************************************************************)

\* gRPC allows one outstanding Write per stream: the writing_ flag, set by the
\* MQTT thread and by the completion-queue thread, never lets a second start.
OneWriteInFlight == \A h \in Handler : inflight[h] <= 1

\* A command never waits in write_queue_ of an open stream without a write
\* running whose completion will send it: enqueue() and on_write_done() leave
\* no gap between them.
NoLostWakeup ==
  \A h \in Handler :
    /\ client[h] = "open"
    /\ queue[h] # <<>>
    => inflight[h] > 0

\* active_ never names a handler whose disconnection was already processed, let
\* alone a deleted one: what push_command() reads is usable when it reads it.
ActiveIsConnected ==
  active # NoHandler =>
    \/ state[active] = "READING"
    \/ state[active] = "ACCEPTING" /\ cq.h = active

\* The handlers whose ACCEPTING completion was processed.
Accepted(h) ==
  \/ state[h] \in {"READING", "FINISH"}
  \/ cq.h = h
  \/ state[h] = "deleted" /\ client[h] # "none"

\* While the stream accepted last is up, commands go to it: the late
\* disconnection of an older stream (ReadingFailed, FinishDone) never unhooks
\* the stream the vehicle reconnected with.
LatestStreamIsActive ==
  \A h \in Handler :
    /\ state[h] = "READING"
    /\ \A g \in Handler : g > h => ~Accepted(g)
    => active = h

\* Until the server is shut down exactly one handler waits for the next
\* connection, however many vehicles connect and disconnect.
OneHandlerListens ==
  server = "up" =>
    \E h \in Handler :
      /\ state[h] = "ACCEPTING" /\ cq.h # h
      /\ \A g \in Handler : state[g] = "ACCEPTING" /\ cq.h # g => g = h

\* Commands that took the same way to a stream (both held in pending_commands_
\* before, or both not) are written in the order in which they arrived.
PathFifo ==
  \A h \in Handler : \A i, j \in DOMAIN written[h] :
    /\ i < j
    /\ written[h][i] \in held <=> written[h][j] \in held
    => written[h][i] < written[h][j]

(***************************************************************************)
(* Liveness, under FairSpec.                                               *)
(***************************************************************************)
InQueue(h, c) == \E i \in DOMAIN queue[h] : queue[h][i] = c
IsPending(c) == \E i \in DOMAIN pending : pending[i] = c
IsWritten(h, c) == \E i \in DOMAIN written[h] : written[h][i] = c

\* A queued command is written to its stream, unless the vehicle closes it.
QueuedIsWritten ==
  \A h \in Handler, c \in Command :
    InQueue(h, c) ~> IsWritten(h, c) \/ client[h] = "closed" \/ Dead

\* A command that is pending when a vehicle is accepted moves to that stream.
PendingIsFlushed ==
  \A h \in Handler, c \in Command :
    cq = [at |-> "flushing", h |-> h] /\ IsPending(c)
      ~> InQueue(h, c) \/ IsWritten(h, c) \/ client[h] = "closed" \/ Dead

\* The handler of a vehicle that went away deletes itself.
ClosedIsDeleted ==
  \A h \in Handler : client[h] = "closed" ~> state[h] = "deleted" \/ Dead

(***************************************************************************)
(* What the repository says and the code does not do.                      *)
(***************************************************************************)

\* No thread calls into a deleted handler: not the MQTT thread with what it
\* read from active_, not the completion-queue thread with a write completion.
NoUseAfterDelete ==
  /\ push.h # NoHandler => state[push.h] # "deleted"
  /\ \A h \in Handler : inflight[h] > 0 => state[h] # "deleted"

\* A command in pending_commands_ leaves it while a vehicle is connected.
PendingIsDelivered ==
  \A c \in Command :
    IsPending(c) ~> ~IsPending(c) \/ active = NoHandler \/ Dead
=============================================================================
