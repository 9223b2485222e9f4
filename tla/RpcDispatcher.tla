---------------------------- MODULE RpcDispatcher ----------------------------
(***************************************************************************)
(* The unary calls (services/rpc_dispatcher) as GrpcServer runs them.      *)
(* start() constructs one call data object per method.  An object asks     *)
(* gRPC for a call in its first Proceed(), which is called by nobody: not  *)
(* by the constructor (that of VehicleStreamHandler does), not by start(), *)
(* and not by runCQ(), which only sees the tags of operations that were    *)
(* started.  The rest of Proceed() - publishing, answering, cloning, the   *)
(* delete - is reached only through that first call and is left out.       *)
(***************************************************************************)
EXTENDS Naturals, Sequences

CONSTANT MaxCalls   \* bound on the calls of vehicles

Method == {"SendEta", "SendStatus", "SendArrive", "UpdateVehicleLocation",
           "TripInit", "TripMove"}

VARIABLES
  requested, \* gRPC: methods whose object has asked for a call and got none
  calls,     \* gRPC: calls of vehicles, in order
  server,    \* gRPC: "up" until Server::Shutdown is called
  process    \* "dead" once undefined behaviour has killed the process

vars == <<requested, calls, server, process>>

TypeOK ==
  /\ requested \subseteq Method
  /\ calls \in Seq([method : Method, status : {"waiting", "taken", "gone"}])
  /\ server \in {"up", "shutdown"}
  /\ process \in {"alive", "dead"}

-----------------------------------------------------------------------------
\* GrpcServer::start() constructs the six objects, which stay in State::CREATE
\* and ask gRPC for nothing, and starts the completion-queue thread.
Init ==
  /\ requested = {}
  /\ calls = <<>>
  /\ server = "up"
  /\ process = "alive"

\* A vehicle calls a method of the service, which is registered as a whole.
VehicleCalls(m) ==
  /\ server = "up"
  /\ Len(calls) < MaxCalls
  /\ calls' = Append(calls, [method |-> m, status |-> "waiting"])
  /\ UNCHANGED <<requested, server, process>>

Waiting(c) == c \in DOMAIN calls /\ calls[c].status = "waiting"

\* A deadline of the vehicle passes, or its connection breaks.
VehicleGivesUp(c) ==
  /\ Waiting(c)
  /\ calls' = [calls EXCEPT ![c].status = "gone"]
  /\ UNCHANGED <<requested, server, process>>

\* gRPC gives a call to the object that asked for one, and runCQ() casts its tag
\* to an IStreamTag.  A call data object is none: the call of Proceed(ok) is
\* undefined, and does not get to CallDataBase::Proceed(), which is not virtual.
RunCQ(c) ==
  /\ Waiting(c)
  /\ calls[c].method \in requested
  /\ requested' = requested \ {calls[c].method}
  /\ calls' = [calls EXCEPT ![c].status = "taken"]
  /\ process' \in {"alive", "dead"}
  /\ UNCHANGED server

\* GrpcServer::stop(): gRPC turns away the calls that nothing has taken.
StopServer ==
  /\ server = "up"
  /\ server' = "shutdown"
  /\ calls' = [c \in DOMAIN calls |->
                 IF Waiting(c) THEN [calls[c] EXCEPT !.status = "gone"]
                 ELSE calls[c]]
  /\ UNCHANGED <<requested, process>>

Next ==
  \/ /\ process = "alive"
     /\ \/ \E m \in Method : VehicleCalls(m)
        \/ \E c \in DOMAIN calls : VehicleGivesUp(c) \/ RunCQ(c)
        \/ StopServer
  \/ UNCHANGED vars

\* gRPC gives a waiting call to an object that asked for one, and the
\* completion-queue thread runs.  Vehicles and signals may do as they please.
FairSpec ==
  /\ Init /\ [][Next]_vars
  /\ \A c \in 1..MaxCalls : WF_vars(process = "alive" /\ RunCQ(c))

-----------------------------------------------------------------------------
\* A comment in start() keeps the "existing point-to-point handlers", one of
\* which is to take every call: no call waits for ever on a server that is up
\* and for a vehicle that does not give up.
UnaryCallsTaken ==
  \A c \in 1..MaxCalls : Waiting(c) ~> ~Waiting(c) \/ process = "dead"
=============================================================================
