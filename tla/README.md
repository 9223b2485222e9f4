# A verification project for the Vehicle Cloud Gateway

TLA+ models of the gateway's concurrent and failure-prone parts, the TLC runs
that check them on small instances, and TLAPS proofs of the most important
invariants for instances of every size. Paths below are relative to the
repository, whose sources are in its `src/` directory; `PROJECT.json` maps every
definition to the lines it models.

## The system

The gateway is one process between a cloud backend (MQTT and HTTP) and a vehicle
computer (gRPC and Zenoh). Four kinds of threads run in it:

| thread | runs |
|---|---|
| main | wiring, start-up, `GrpcServer::wait`, shutdown |
| MQTT `runner_` | the handlers of `MqttClient`'s `io_context`, and through the message callback the router, the orchestrator and `push_command()` |
| completion queue | `GrpcServer::runCQ`, and with it every `Proceed()` of a stream handler |
| Zenoh | the location subscriber, which calls `MqttClient::publish` |

| component | state | operations | talks to |
|---|---|---|---|
| `VehicleStreamHandler`, `StreamWriter` | per handler `state_`, `write_queue_`, `writing_`; static `active_`, `pending_commands_` | `Proceed`, `enqueue`, `on_write_done`, `push_command`, `flush_pending`, `handle_incoming` | called by the MQTT thread (commands) and by the completion queue (gRPC events); publishes reports |
| `GrpcServer` | `server_`, `cq_`, `cq_thread_` | `start`, `stop`, `wait`, `runCQ` | owns the completion queue |
| `RpcDispatcher` (`CallDataBase` and six subclasses) | `state_`, request, response | `Proceed` and its hooks | the older unary calls; constructed by `GrpcServer::start`, then called by nobody |
| `MqttClient` | `started_`, `stopped_`, `client_`, `ioc_`, `runner_`, `pending_topics_`, `cb_` | `start`, `stop`, `subscribe`, `publish`, `arm_receive` | the broker; calls the router |
| `MqttRouter` | `handlers_` | `on`, `dispatch` | calls the orchestrator |
| `TripOrchestrator` | `trip_id_`, `request_id_`, callbacks | six `handle_*` | calls lambdas of `main`, which call `push_command` |
| `AuthService` | `token_`, `vehicle_registered_`, API key and secret, access token, credentials file | `setup`, `create_vehicle`, `vechile_login` and their parts | the backend, through `HttpClient` |
| `HttpClient` | options | `Get` ... `Head`, redirects | the backend |
| `Config` | all settings | `from_env` | read by everybody |
| Zenoh bridge | none | one subscriber lambda | `MqttClient::publish` |

What is hard about it:

- **Two threads and a self-deleting object.** Commands come on the MQTT thread;
  streams live and die on the completion-queue thread. They meet in an atomic
  pointer, two mutexes and an atomic flag. A vehicle that reconnects has two
  streams for a while, the newer of which counts.
- **Credentials that exist once.** The backend hands the vehicle's key and
  secret out in one answer. Lost answers, kills, disk errors and two kinds of
  retries meet there.
- **A client that outlives its connection.** `MqttClient` can be started,
  stopped and started again, and the library below it reconnects on its own.
- **A shutdown driven from a signal handler.** `signal_handler()` runs
  `GrpcServer::stop()`, with its `join`, on whichever thread the signal reaches,
  and the destructor runs it again, while other threads publish.
- **Plain data on its way through many hands.** Positional arguments, ids that
  change type, exceptions in the middle of handlers.

`PROJECT.json` lists each of these hazards at the line where it bites, with the
properties that would catch it going wrong.

What makes each component correct, in a sentence:

- stream: a command reaches at most one vehicle, once, in order along its way,
  as long as a vehicle stays; there is always one handler for the next vehicle;
- `MqttClient`: one receive at a time, every topic reaches the broker, `stop()`
  returns and leaves nothing running;
- router and orchestrator: every subscribed topic has a handler, a bad payload
  changes nothing, every value ends in the field of its name;
- `AuthService`: start-up ends, retries are bounded, credentials survive;
- `HttpClient`: redirects are bounded and keep or change the method as said;
- `GrpcServer` and `main`: shutdown ends, and nothing is used after it is gone.

## Modules

| module | models | composed with |
|---|---|---|
| `VehicleStream` | `services/vehicle_stream_handler`, `GrpcServer::start`, `runCQ`, `Server::Shutdown` | |
| `CommandDelivery` | the abstract promise of the command path | implemented by `VehicleStream` |
| `MCVehicleStream` | TLC instance of `VehicleStream`, refinement mapping | `INSTANCE CommandDelivery` |
| `VehicleStreamProofs` | theorems about `VehicleStream`, and that it implements `CommandDelivery` | `EXTENDS MCVehicleStream, TLAPS` |
| `CommandDeliveryProofs` | theorem about `CommandDelivery` | `EXTENDS CommandDelivery, TLAPS` |
| `GatewayMain` | `main()` from its first line to its return, the signal handler, `GrpcServer::start`, `stop`, `wait` and destructor, `MqttClient::publish` against `stop`, the Zenoh bridge | `EXTENDS Config` |
| `Config` | the conversions of `infra/config.h`, as operators | used by `GatewayMain` |
| `MCGatewayMain` | TLC instance of `GatewayMain` | `EXTENDS GatewayMain` |
| `GatewayMainProofs` | theorems about `GatewayMain` and `Config` | `EXTENDS GatewayMain, TLAPS` |
| `RpcDispatcher` | what `GrpcServer` does with the unary calls of `services/rpc_dispatcher` | |
| `AuthService` | `services/auth_services`, driven as `main` does | |
| `AuthServiceProofs` | theorems about `AuthService` | `EXTENDS AuthService, TLAPS` |
| `MqttClient` | `transport/mqtt_client` | |
| `MqttClientProofs` | theorems about `MqttClient` | `EXTENDS MqttClient, TLAPS` |
| `HttpClient` | `transport/http_client` | its answers are those `AuthService` chooses from |
| `HttpClientProofs` | theorems about `HttpClient` | `EXTENDS HttpClient, TLAPS` |
| `TripRouting` | `services/mqtt_router`, `application/trip_orchestrator`, wiring and lambdas in `main.cpp` | |
| `TripRoutingProofs` | theorems about `TripRouting` | `EXTENDS TripRouting, TLAPS` |

Operators whose comment starts with "Mutant" are plausible bugs in the code;
each property is shown to fail when one of them takes the place of the
definition it follows.

### VehicleStream

Handlers are numbered in the order of their construction, commands in the order
of their arrival. `state`, `active`, `pending`, `queue` and `writing` are the
members of the same names in the code. `inflight` (writes gRPC has not reported)
and `client` (the vehicle's end) are gRPC's. `cq` and `push` are the program
counters of the two threads, `written` and `held` are history.

A step is what a thread does between two accesses to memory shared with the
other. Accordingly

- `push_command()` is two steps: `LoadActive`, and then `PushPending`,
  `PushEnqueue` or `PushDangling`, depending on what was read and on whether the
  handler still exists;
- the `ACCEPTING` case is `AcceptingOk` (sibling constructed, `active_` stored),
  `FlushLock`, one `FlushOne` per pending command, and `FlushDone`. The MQTT
  thread may run between any two of them, but `PushPending` not while
  `flush_pending()` holds `pending_mu_`;
- the other cases of `Proceed` and `on_write_done` are a step each.

Constructing the sibling, storing `active_` and leaving `State::CREATE` are one
step: no other thread can see the sibling before gRPC reports an event for it,
on this same thread.

A use of a deleted handler is undefined behaviour, so `PushDangling` and
`OnWriteDoneDangling` choose: the process dies, or nothing is seen to happen
(the command is lost). Completions are reported in any order, which is more than
gRPC does. A read may still succeed after the vehicle closed its end (messages
already received), and a write fails only then.

### Config and GatewayMain

`Config` reduces a value to what the three conversions tell apart: empty, a
number, or a word on which `stoi` and `stod` throw, such as a number after a
quote that nothing closes. `Setenv` does not overwrite, so the first line with a
key wins and the environment wins over the file; the port goes through `stoi`
and a cast to 16 bits. `from_env()` is the beginning of `main()` in
`GatewayMain`: `OpenDotenv` chooses the file, by the environment alone,
`ReadLine` is one round of the loop of `load_dotenv()`, and `Configure` applies
the conversions. `given` remembers the environment the process started with.

`GatewayMain` then has four threads: `main`, the completion-queue thread, the
`runner_` of `MqttClient` and the thread of the Zenoh subscriber. A signal is
delivered to any thread that exists, on top of what that thread is doing:
`Deliver` appends a call of `GrpcServer::stop()` to `calls`, the destructor
appends another, and a thread goes on only when the newest call on it has
returned (`Undisturbed`, `At`). `stop()` is one step per blocking call:
`StopServer` and `ServerDown` for `Shutdown()`, `StopQueue`, `Join` and `Joined`.
`publish()` is a test of `started_` and `client_` and a later use, on the two
threads that call it.

A signal may come under odd circumstances, recorded in `odd`: before `start()`
has built everything (`early`), while another `stop()` runs (`second`), after
the destructor (`late`), or on the thread that `stop()` joins
(`onQueueThread`). In each of them the code can deadlock or die, and the model
lets it; the properties claim what holds without them. They are listed as
hazards.

External: `Server::Shutdown()` waits for the streams that are open, and a second
call waits for the first; gRPC aborts on an operation on a queue that was shut
down; closing the Zenoh session waits for the callback that is running.

### RpcDispatcher

A call data object asks gRPC for a call in its first `Proceed()`, and nothing in
the program makes that call: the constructor does not (that of
`VehicleStreamHandler` does), nor does `GrpcServer::start`, and `runCQ()` sees
only the tags of operations that were started. `requested`, the methods whose
object asked for a call, is therefore empty in `Init` and stays so; gRPC, the
vehicle's calls and `runCQ()` are modelled around it. `RunCQ` is what would
happen to an object that had asked: its tag is cast to `IStreamTag`, which it is
not, so that `CallDataBase::Proceed()` would still not run. Everything behind
the first `Proceed()` - publishing, answering, cloning, the payloads of the six
subclasses - is unreachable and left out. Anyone who wires these handlers up
again should first give `runCQ()` tags it can tell apart.

### AuthService

A request to the backend is two steps, the backend's (`Backend*`, external) and
the gateway's handling of the answer; `End` can come between any two steps and
keeps only the backend and the file. Answers are reduced to what the code tells
apart. A "200" without a body is among them also because `send_and_receive()`
treats a connection closed before the first byte as a default response, with
status 200. Saving is two steps, open (which truncates) and write, each of which
may fail; the results are ignored, as in the code. `faults` records what may
have lost the credentials, so that `CredentialsSurvive` can say that nothing
else does.

### MqttClient

The owner's thread calls `start`, `subscribe` and `stop`; the `runner_` thread
runs handlers one at a time. The two loops over `pending_topics_` and the
`clear()` that follows are separate steps, since `subscribe()` may run in
between: that is a data race, and `Subscribe` then chooses whether the process
survives it. External: the MQTT library reconnects by itself, and reports a lost
session as an error of the running `async_receive`.

### HttpClient

One call, from `Get` ... `Head` to the response. Each blocking operation of
Beast is a step that succeeds (`Resolve`, `SetUpTls`, `Connect`, `Handshake`,
`WriteRequest`, `ReadAnswer`), fails (`Fail`) or never ends: `expires_after` has
no effect on synchronous operations, so it appears as no action at all. The
recursion over redirects is `Follow`, with a fresh response each time. A URL is
an origin and a path split at its slashes; the query is part of the last pieces,
as it is for `find_last_of('/')` in `resolve_redirect()`. Location headers come
in three spellings, of which the code finds two.

### TripRouting

`Wiring` is the sequence of calls in `main()`. A payload is the set of its
readable keys; a value is the name of its key, so that a pushed command shows
where each field came from. Only ids have numbers, because `request_id_` is a
`double`; `Precision` (53 in the build) scales that down, and `ToDouble` rounds.
No property is about the rounding: nothing in the repository says which ids occur
or what `active_request_id()` owes its caller above the precision. `SetTripId` is
the setter that other code may call between two messages.

## Runs

Passing runs:

| run | instance | checks |
|---|---|---|
| `stream_safety` | 4 handlers (3 vehicle streams and the sibling of the last), 3 commands | the invariants and action properties below and the refinement of `CommandDelivery` |
| `stream_liveness` | 3 handlers, 2 commands, 1 report, under `FairSpec` | `QueuedIsWritten`, `PendingIsFlushed`, `ClosedIsDeleted` |
| `auth_startup` | 3 starts | bounded retries, surviving credentials, `StartupEnds` |
| `mqtt_client` | 2 topics, 2 starts, 3 subscriptions, 2 messages, 1 lost session | one receive, topics issued, `stop()` returns |
| `http_client` | 2 origins, one of them https, 2 redirects | bounded hops, method and body over a chain, origin, `RequestEnds` |
| `gateway_main` | environments and `.env` files around each conversion, 2 signals, under `FairSpec` | precedence and conversion of settings, clean shutdown, `publish()` against `stop()`, nothing left running, `ShutdownEnds` |
| `trip_routing` | ids up to twice a 2-bit precision, 2 messages | routing, field order, atomicity of rejection |

The invariants of `stream_safety`: `OneWriteInFlight` and `NoLostWakeup` are the
two halves of the hand-over between `enqueue()` and `on_write_done()`;
`ActiveIsConnected` and `LatestStreamIsActive` say what `active_` is worth while
streams overlap; `OneHandlerListens` follows the chain of siblings; `PathFifo`
is about order. Order holds only per way to
the stream: a command pushed between `active_.store(this)` and
`flush_pending(this)` overtakes older pending ones, which is why `PathFifo`
distinguishes the two. `OvertakingEndsWithFlush` says how long that can last: what
a stream takes once it is read is newer than all it took before.
`DeliversAtMostOnce` is the refinement: every step of the
stream is a step of `CommandDelivery` or leaves it alone, so that a command is
delivered at most once, and none is lost before some vehicle's stream has ended.
`LostWithItsStream` says which are lost then: those in the queue of the handler
that deletes itself, and the one `push_command()` was about to put there. Pending
commands and the queues of other streams survive.

`stream_safety` explores 542594 states and `gateway_main` 357965 in about a minute
each, `http_client` 1018550 in about a minute and a half. In `gateway_main`,
`CleanShutdown` is about a `stop()` that a handler runs on any of three threads
and the destructor runs again; `PublishHasClient` holds because `main()` resets
`client_` only after the server is down, with no stream left whose report could
be on its way, and after the Zenoh session was closed; `NothingOutlives` is what makes the
destructors at the end of `main()` safe.

Runs that find a disagreement between the code and what the repository says of
it (details under `findings` in `PROJECT.json`):

| run | counterexample |
|---|---|
| `stream_use_after_delete` | a vehicle connects and leaves while `push_command()` holds what it read from `active_` |
| `stream_stranded_command` | `push_command()` read null, the vehicle connected and flushed, and the command was put into `pending_commands_` afterwards |
| `mqtt_session_lost` | a lost session, and no topic is subscribed to again |
| `http_timeout` | a server that takes the request and never answers |
| `unary_calls` | any unary call: no object has asked gRPC for one, so it waits until the vehicle gives up or the server stops |

Others came up while modelling and have no run of their own. All are modelled as
the code has them:

- `create_vehicle()` says "retry once after network failure"
  (`auth_services.cc`, 157), but the call after a new login, at line 142, resets
  that flag: network failure, 401, network failure gives two network retries
  (`Relogin`; `AtMostFourPosts` is the bound that results, and three would not
  hold).
- `subscribe()` appends to `pending_topics_` while the `runner_` thread may be
  walking through it (`mqtt_client.cpp`, 112).
- `is_redirect()` leaves out 303, which a comment in `do_request()` lists among
  the redirects it converts (`IsRedirect`), and `get_headers()` announces a
  case-insensitive fallback that compares case-sensitively (`HasLocation`).
- The payloads of `SendEta` and `SendStatus` spell some keys in snake case where
  the other unary calls use camel case; as none is ever served, nothing comes of
  it.
- `Shutdown()` without a deadline hangs for as long as a vehicle stays connected
  (`ServerDown`, and the fairness of `VehicleLeaves`).
- Signals under odd circumstances: see `GatewayMain` above.

### Bounds, and why they are enough

- `MaxHandlers = 4`: overlaps of streams are pairwise (old against new); the
  third stream lets a second reconnection happen while both are ending. The
  theorems hold for any number.
- `MaxCommands = 3`: one command being written, one queued behind it, one in
  `push_command()` or pending. Two are enough for liveness: one outstanding and
  one that waits for it.
- `MaxEvents`: reports touch only `outbox`, so one shows what there is.
- `MaxStarts = 3` of the process: one that creates the vehicle, one that loads
  the file and rewrites it, one that sees what that left.
- `MaxPosts = 5` in `AuthService` saturates a history counter one above the
  bound that is claimed.
- `MqttClient`: two starts, so that topics stored while stopped meet a second
  client; three subscriptions, so that the same topic can be given twice.
- `HttpClient`: two redirects are a chain with a first, a middle and a last
  request, so that what the first redirect changed has to survive the second.
- `GatewayMain`: a two-line `.env` lets lines repeat and contradict each other
  and the environment, and name another file, too late; values lie on both sides of the 16-bit range and of the
  range of an int. `PortRange` is the build's, `IntMax` is scaled down to 100000
  so that numbers past it stay within TLC's own. Two signals are enough for a
  second one during the first and for one on each side of the destructor.
- `RpcDispatcher`: one call refutes the property; a second one makes it plain that
  neither order nor method matters.
- `Precision = 2`: ids 0 to 8 hold both directions of rounding.

### Fairness

- Completion-queue thread: weak fairness of its steps. `cq_->Next` returns every
  event once, and weak fairness per handler is less than the order of the queue
  guarantees.
- A started write is reported: this assumes that the vehicle reads its stream or
  leaves. The code has no timeout for a vehicle that does neither.
- MQTT thread: it leaves `push_command()`. No fairness on arriving commands,
  on vehicles that connect or leave, or on shutdown.
- `AuthService`: the gateway's thread runs, and every request is answered or
  fails. The code does not enforce the latter: Beast's `expires_after` does not
  apply to synchronous calls.
- `HttpClient`: `FairSpec` lets every blocking operation end; `LocalFairSpec`
  only those that do not wait for the server, which is what `http_timeout` uses.
- `GatewayMain`: every thread runs. Strong fairness for `EndStream` and
  `AcceptFails`: the queue hands out its events in turn, and a vehicle that left
  has sent finitely many reports, so its end is seen although publishing keeps
  leading away from `Next()`. A vehicle leaves once the server is shutting down;
  the code does not enforce this. Signals, connections and samples need not come.
- `RpcDispatcher`: gRPC gives a waiting call to an object that asked for one, and
  the completion-queue thread runs. Vehicles need not give up and the server need
  not stop.
- `MqttClient`: the `runner_` thread runs its handlers, `async_disconnect`
  completes (the library bounds it in time), `join` returns. Messages and errors
  need not come.

## Proofs

Every safety invariant that a passing run checks is also a theorem, for every
value of the constants; so are the refinement `DeliversAtMostOnce` and the action
properties `LostWithItsStream`, `OvertakingEndsWithFlush` and
`RejectedHasNoEffect`. The inductive invariants were model-checked
before they were proved.

`VehicleStreamProofs` proves for every `MaxHandlers >= 1`, `MaxCommands` and
`MaxEvents` (`BoundsAssumption`, the only assumption) that `Spec` implies
always `TypeOK`, `OneWriteInFlight`, `NoLostWakeup`, `ActiveIsConnected`,
`LatestStreamIsActive`, `OneHandlerListens` and `PathFifo`, that its steps satisfy
`LostWithItsStream` and `OvertakingEndsWithFlush`, and that it implements
`CommandDelivery`.

None of these is inductive alone. `IndInv` adds

- `ThreadOK`: where the completion-queue thread stands. Needed because `active_`
  names a handler that is still `ACCEPTING` from the store until the flush ends;
- `FrontierOK`: handlers behind the one that waits for a stream are not
  constructed. Without it a new sibling might overwrite a live handler, and the
  stream being accepted might not be the newest;
- `ClientOK`: whatever `active_` names or `push_command()` read has a stream,
  so nothing is ever queued at a handler without one;
- `FlagOK`: `writing_` is set exactly while a write is outstanding. This ties
  the flag the code tests to the writes gRPC counts, and gives
  `OneWriteInFlight`. It is only claimed for handlers that exist: afterwards
  the completion of a write has no flag to reset;
- `QueueOK`: nothing is queued at a deleted handler or one without a stream.
  `NoLostWakeup` needs it when a vehicle connects;
- `PushOK`: `push_command()` holds a command while it runs.

Each `...Step` lemma shows that one part survives a step, action by action for
the actions that can disturb it. `FlushTypes` and `FlushFlag` say once what
`flush_write_queue_locked()` does, for the four places that call it.
`NoLostWakeup` is about open streams only: after a failed write
`on_write_done(false)` resets `writing_` without starting the next one, which is
harmless because gRPC fails a write only when the call is over.

`PathFifo` and the refinement are about where commands are, and need a second
invariant on top of the first, `PathInv`. Its subject is `Line(h)`, everything
written at handler `h` followed by what still waits in its queue: a write moves
a command within the line and leaves the line alone.

- `PushCurrent`: `push_command()` holds the command that arrived last, so what it
  adds to a line is newer than all that went the same way;
- `HeldOK`: pending commands wait in the order of their arrival, so what
  `flush_pending()` adds is newer than what it added before (`LineSettled`);
- `LineOrder` is `PathFifo` for whole lines, and `LinesApart` says that no command
  is in two places. The latter is what at-most-once rests on;
- `ClosedOK`: a queue is dropped only after the vehicle left, which is the one way
  `CommandDelivery` allows a command to be lost.

`RefinementStep` then takes the actions one by one: most leave the abstract state
alone, the others are an arrival, a delivery or a loss.

The two action properties follow from the same invariants. `EnqueuePlaces` and
`DonePlaces` say once where `enqueue()` and `on_write_done()` leave commands.
`NewerStep` needs that all on a line arrived before the command `push_command()`
holds (`OnStreamIsSettled`) and that `flush_pending()` runs at a handler that is
still `ACCEPTING` (`ThreadOK`); `LossStep` needs `ClosedOK` for the two steps that
drop commands, `FinishDone` and `PushDangling`.

`CommandDeliveryProofs` proves that `CommandDelivery` keeps its promise,
`AtMostOnce`, for every set of streams and without assumptions: a delivered
command no longer waits (`DeliveredIsGone`), and one that arrives has a new
number. With the refinement, which is proved too, this is at-most-once delivery
of `VehicleStream`.

`MqttClientProofs` proves `TypeOK`, `HandlersHaveClient` and `OneReceive` for
every set of topics and all bounds (`ClientBounds`). `IndInv` adds `LifecycleOK`,
how the two flags, the owner and the `runner_` thread may combine, since a
handler that still runs must imply a `stop()` that has not joined yet; and
`ReceiveOK`, which says exactly when no receive is outstanding.

`AuthServiceProofs` proves `AtMostFourPosts`, `CredentialsSurvive`,
`LoginHasCredentials` and `AccessIsOnFile` for any number of starts
(`StartsAssumption`). `IndInv` adds `PostsOK`, which charges every POST to the
retry flag that pays for it; `SourceOK`, by which credentials in memory or on
file come from a vehicle the backend knows; `FileOK`, `CredentialsSurvive` for
all places of `main()` outside of the save; `AnswerOK` and `AuthenticatedOK`.

`HttpClientProofs` proves `HopsBounded`, `MethodFollowsStatus` and
`OriginFollowsLocation` for every `max_redirects` and every set of origins and
path segments (`HttpAssumption`). `ChainOK` relates `redirects_remaining`, the
redirects followed and the requests written at every step; `RequestsOK` says of
every request written, and of the one being prepared, what the redirects so far
make of the caller's; `OriginsOK` says the same of the origins, in terms of
`Leads`, which needs no maximum and so goes from one redirect to the next
(`LeadsOn`).

`GatewayMainProofs` proves `PublishHasClient`, `NothingOutlives` and
`CleanShutdown` for every set of signals. `SignalsAssumption` only keeps the
name of the destructor's call apart from theirs. `IndInv` adds

- `ServerOK`: `wait()` returns from a server that is down or never was, and a
  server that is down has no stream. So nothing on the completion-queue thread is
  between the test and the use in `publish()` when `main()` goes on to reset
  `client_`;
- `ClientsOK`: the order of the shutdown, the Zenoh session before the MQTT
  client;
- `CallsOK`: a call of `stop()` runs on a thread that exists. With it, the threads
  that are over by the time of the destructor cannot hold up its `stop()`;
- `JoinedOK` and `DestroyedOK`: what the destructor's call leaves;
- `NothingOddOK`: without odd signals one call of `stop()` runs at a time, and not
  on the thread it joins. `CleanShutdown` alone does not exclude two calls that
  would join the same thread.

The same module proves `EnvironmentWins` and `PortExact` for environments and
files of any content and length and for all widths of an int and of a port
(`WidthAssumption`, of which the build's are an instance; `ConfigAssumption` only
says that files are sequences of lines and values are values). What a loop
computes is out of the prover's reach as a recursive definition, but not as
steps: `DotenvOK` is the invariant of the loop in `load_dotenv()`. It says that a
variable is as the environment had it, or else as the first line read so far with
its key says (`EnvOK`), and that the file was chosen before any line was read.

`TripRoutingProofs` proves `EveryMessageRouted`, `FieldsMatchKeys` and
`RejectedHasNoEffect` for every precision and any number of
messages (`RoutingAssumption`). `StartedLast` reads off `Wiring` that all
handlers are registered when the client starts; `ParametersFit` compares
parameters and arguments of the six callbacks.

Only model-checked: liveness, which is stated under fairness and out of the
prover's reach (`QueuedIsWritten`, `PendingIsFlushed`, `ClosedIsDeleted`,
`StartupEnds`, `TopicsAreIssued`, `StopReturns`, `RequestEnds`, `ShutdownEnds`).

## Plan

Done: the stream, the start-up, the MQTT and HTTP clients, the routing, the life
of `main()` with its shutdown and the settings. In order of
importance, what is left:

1. Proofs: what the liveness properties need of the safety side, as invariants.
2. `HttpClient` composed with `AuthService`, in place of its nondeterministic
   answers.
3. MQTT message to router to orchestrator to stream, composing `TripRouting`
   with `VehicleStream` under `CommandDelivery`.

## Not modelled

- What `main()` publishes once after the login, and the fields the Zenoh
  subscriber copies into its message: data that no other part reads.
- The text of topics: a topic is a model value.
- What the unary call data objects would do after their first `Proceed()`: it
  cannot be reached.
- gRPC, Boost.MQTT5, Beast, the backend, the broker and the vehicle are
  environment, modelled from how the code uses them.
- Texts, logging, JSON syntax, the generated protocol code, build files,
  container and CI.
