----------------------------- MODULE TripRouting -----------------------------
(***************************************************************************)
(* From an MQTT message to a command for the vehicle: main() wires the     *)
(* router, the orchestrator and the subscriptions together, MqttRouter     *)
(* dispatches by topic, TripOrchestrator reads the payload, keeps the ids  *)
(* and calls back into main(), whose lambdas build the GatewayCommand for  *)
(* push_command().                                                         *)
(*                                                                         *)
(* A payload is the set of its keys that can be read with the right type;  *)
(* the value of a key other than the id is the key itself, so that a       *)
(* command shows which key each of its fields was filled from.             *)
(***************************************************************************)
EXTENDS Naturals, Sequences

CONSTANTS
  Precision,   \* bits of a double's significand: 53 in the build
  MaxMessages  \* bound on the messages from the broker

ASSUME RoutingAssumption ==
  /\ Precision \in Nat \ {0}
  /\ MaxMessages \in Nat

Topic == {"init", "move", "park", "update_location", "update_status", "cancel"}

\* Ids up to the first power of two past the precision of a double.
Id == 0..2^(Precision + 1)

VARIABLES
  wired,      \* number of steps of Wiring that main() has taken
  handlers,   \* handlers_: topics with a handler
  subscribed, \* topics subscribed to
  tripId,     \* trip_id_
  requestId,  \* request_id_
  pushed,     \* commands given to push_command(), in order
  unrouted,   \* messages the router had no handler for
  received    \* number of messages so far

vars == <<wired, handlers, subscribed, tripId, requestId, pushed, unrouted,
          received>>

-----------------------------------------------------------------------------
(***************************************************************************)
(* main(): router.on, set_message_handler, subscribe and start, in order.  *)
(***************************************************************************)
On(t) == [call |-> "on", topic |-> t]
SubscribeTo(t) == [call |-> "subscribe", topic |-> t]
SetMessageHandler == [call |-> "set_message_handler", topic |-> "none"]
StartClient == [call |-> "start", topic |-> "none"]

\* Mutant: the handler for cancellations is registered after start().
WiringCancelLate ==
  <<On("init"), On("move"), On("park"), On("update_location"),
    On("update_status"), SetMessageHandler, SubscribeTo("init"),
    SubscribeTo("move"), SubscribeTo("park"), SubscribeTo("update_location"),
    SubscribeTo("update_status"), SubscribeTo("cancel"), StartClient,
    On("cancel")>>

Wiring ==
  <<On("init"), On("move"), On("park"), On("update_location"),
    On("update_status"), SetMessageHandler, On("cancel"), SubscribeTo("init"),
    SubscribeTo("move"), SubscribeTo("park"), SubscribeTo("update_location"),
    SubscribeTo("update_status"), SubscribeTo("cancel"), StartClient>>

\* Messages come once the client is started, and reach the router once it is
\* the message handler.
Receiving ==
  {SetMessageHandler, StartClient} \subseteq {Wiring[i] : i \in 1..wired}

-----------------------------------------------------------------------------
(***************************************************************************)
(* The payloads and the arguments made of them.                            *)
(***************************************************************************)

\* The keys each handler reads, all of them before it does anything else.
Keys ==
  [init |-> {"vinNumber", "requestId", "startLong", "startLat", "endLong",
             "endLat"},
   move |-> {"vinNumber", "tripId", "longitude", "latitude"},
   park |-> {"vinNumber", "longitude", "latitude"},
   update_location |-> {"vinNumber"},
   update_status |-> {"vinNumber"},
   cancel |-> {"vinNumber", "requestId"}]

\* The arguments each handler passes to its callback.
Arguments ==
  [init |-> <<"vinNumber", "requestId", "startLat", "startLong", "endLat",
              "endLong">>,
   move |-> <<"vinNumber", "tripId", "latitude", "longitude">>,
   park |-> <<"vinNumber", "longitude", "latitude">>,
   update_location |-> <<"vinNumber">>,
   update_status |-> <<"vinNumber">>,
   cancel |-> <<"vinNumber", "requestId">>]

\* Mutant: the lambda for TripPark takes its arguments as the one for TripMove.
ParkParametersSwapped == <<"vin_number", "latitude", "longitude">>

ParkParameters == <<"vin_number", "longitude", "latitude">>

\* The field of the command that main()'s lambda sets from each parameter.
Parameters ==
  [init |-> <<"vin_number", "request_id", "start_lat", "start_long",
              "end_lat", "end_long">>,
   move |-> <<"vin_number", "trip_id", "latitude", "longitude">>,
   park |-> ParkParameters,
   update_location |-> <<"vin_number">>,
   update_status |-> <<"vin_number">>,
   cancel |-> <<"vin_number", "request_id">>]

\* The command pushed for a message: its fields, each with the key it is from.
GatewayCommand(t, id) ==
  [topic |-> t, id |-> id,
   fields |-> {<<Parameters[t][i], Arguments[t][i]>> :
                 i \in DOMAIN Parameters[t]}]

\* request_id_ is a double: an odd number past its precision is rounded to the
\* neighbour with an even significand.
ToDouble(n) ==
  IF n <= 2^Precision \/ n % 2 = 0 THEN n
  ELSE IF ((n - 1) \div 2) % 2 = 0 THEN n - 1 ELSE n + 1

-----------------------------------------------------------------------------
TypeOK ==
  /\ wired \in 0..Len(Wiring)
  /\ handlers \subseteq Topic
  /\ subscribed \subseteq Topic
  /\ tripId \in Id
  /\ requestId \in Id
  /\ \A i \in DOMAIN pushed :
       pushed[i].topic \in Topic /\ pushed[i].id \in Id
  /\ unrouted \in 0..MaxMessages
  /\ received \in 0..MaxMessages

Init ==
  /\ wired = 0
  /\ handlers = {}
  /\ subscribed = {}
  /\ tripId = 0
  /\ requestId = 0
  /\ pushed = <<>>
  /\ unrouted = 0
  /\ received = 0

Wire ==
  /\ wired < Len(Wiring)
  /\ wired' = wired + 1
  /\ LET w == Wiring[wired'] IN
       /\ handlers' = IF w.call = "on" THEN handlers \cup {w.topic}
                      ELSE handlers
       /\ subscribed' = IF w.call = "subscribe" THEN subscribed \cup {w.topic}
                        ELSE subscribed
  /\ UNCHANGED <<tripId, requestId, pushed, unrouted, received>>

\* Mutant: handle_trip_move() stores the id before it reads the coordinates.
StoreIdsEarly(t, keys, id) ==
  /\ tripId' = IF t = "move" /\ "tripId" \in keys THEN id ELSE tripId
  /\ requestId' = IF t = "init" /\ Keys[t] \subseteq keys THEN ToDouble(id)
                  ELSE requestId

\* handle_trip_init() and handle_trip_move() store their id once every key was
\* read; a key that is missing or of the wrong type throws before.
StoreIds(t, keys, id) ==
  /\ tripId' = IF t = "move" /\ Keys[t] \subseteq keys THEN id ELSE tripId
  /\ requestId' = IF t = "init" /\ Keys[t] \subseteq keys THEN ToDouble(id)
                  ELSE requestId

\* A message arrives: dispatch() finds the handler, which runs to the end or
\* throws; dispatch() catches what it throws.
Dispatch(t, keys, id) ==
  /\ Receiving
  /\ t \in subscribed
  /\ received < MaxMessages
  /\ received' = received + 1
  /\ IF t \notin handlers
     THEN /\ unrouted' = unrouted + 1
          /\ UNCHANGED <<tripId, requestId, pushed>>
     ELSE /\ StoreIds(t, keys, id)
          /\ pushed' = IF Keys[t] \subseteq keys
                       THEN Append(pushed, GatewayCommand(t, id)) ELSE pushed
          /\ UNCHANGED unrouted
  /\ UNCHANGED <<wired, handlers, subscribed>>

\* set_trip_id(), which sets the id without any message.
SetTripId(id) ==
  /\ tripId' = id
  /\ UNCHANGED <<wired, handlers, subscribed, requestId, pushed, unrouted,
                 received>>

\* The payloads of a topic: every key, all but one, or no JSON at all.
Payload(t) == {Keys[t], {}} \cup {Keys[t] \ {k} : k \in Keys[t]}

Next ==
  \/ Wire
  \/ \E t \in Topic : \E keys \in Payload(t), id \in Id : Dispatch(t, keys, id)
  \/ \E id \in Id : SetTripId(id)
  \/ wired = Len(Wiring) /\ UNCHANGED vars

Spec == Init /\ [][Next]_vars

-----------------------------------------------------------------------------
\* Once messages come in, each finds its handler: main() has registered every
\* handler before it starts the client, for every topic it subscribes to.
EveryMessageRouted == unrouted = 0

\* The field of a command each key belongs in.
FieldOf ==
  [vinNumber |-> "vin_number", requestId |-> "request_id",
   tripId |-> "trip_id", longitude |-> "longitude", latitude |-> "latitude",
   startLong |-> "start_long", startLat |-> "start_lat",
   endLong |-> "end_long", endLat |-> "end_lat"]

\* A command carries every key of its message in the field of that name: the
\* positional arguments of the callbacks are not mixed up, though TripPark has
\* them in another order than TripMove.
FieldsMatchKeys ==
  \A i \in DOMAIN pushed :
    pushed[i].fields = {<<FieldOf[k], k>> : k \in Keys[pushed[i].topic]}

\* A payload that pushes no command has no other effect either: an exception
\* never leaves trip_id_ or request_id_ changed.
RejectedHasNoEffect ==
  [][received' # received /\ pushed' = pushed
       => UNCHANGED <<tripId, requestId>>]_vars
=============================================================================
