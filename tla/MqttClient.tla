----------------------------- MODULE MqttClient -----------------------------
(***************************************************************************)
(* MqttClient (transport/mqtt_client): start(), stop() and subscribe() on  *)
(* the thread that owns the client, and the handlers that its io_context   *)
(* runs on the runner_ thread: the posted flush of pending_topics_, posted *)
(* subscriptions, the completions of async_receive and async_disconnect.   *)
(*                                                                         *)
(* External: the boost::mqtt5 client reconnects by itself; when it comes   *)
(* back to a broker that kept no session, the subscriptions are gone and   *)
(* the running async_receive completes with an error.                      *)
(***************************************************************************)
EXTENDS Naturals, Sequences, SequencesExt

CONSTANTS
  Topic,         \* topic names
  MaxStarts,     \* bound on the calls of start()
  MaxSubscribes, \* bound on the calls of subscribe()
  MaxMessages,   \* bound on the messages received
  MaxLosses      \* bound on the sessions lost

ASSUME ClientBounds ==
  /\ MaxStarts \in Nat
  /\ MaxSubscribes \in Nat
  /\ MaxMessages \in Nat
  /\ MaxLosses \in Nat

VARIABLES
  flags,      \* those of started_ and stopped_ that are set
  owner,      \* the owner's thread: "idle", or "joining" inside stop()
  client,     \* client_ and ioc_: both there or both reset
  runner,     \* the runner_ thread
  io,         \* what the runner_ thread is in the middle of
  posted,     \* handlers posted to the io_context: a topic, or "flush"
  armed,      \* number of async_receive operations outstanding
  disconnect, \* TRUE while async_disconnect is outstanding
  pending,    \* pending_topics_
  issued,     \* topics passed to async_subscribe on this client
  session,    \* external: topics the broker's session is subscribed to
  wanted,     \* history: topics ever passed to subscribe()
  process,    \* "dead" once a data race has killed the process
  count       \* number of starts, subscribes, messages and losses so far

vars == <<flags, owner, client, runner, io, posted, armed, disconnect, pending,
          issued, session, wanted, process, count>>

Started == "started" \in flags
Stopped == "stopped" \in flags
Dead == process = "dead"

TypeOK ==
  /\ flags \subseteq {"started", "stopped"}
  /\ owner \in {"idle", "joining"}
  /\ client \in {"none", "there"}
  /\ runner \in {"none", "running", "exited"}
  /\ io \in {"idle", "flushing", "receiveFlushing", "received"}
  /\ posted \in Seq(Topic \cup {"flush"})
  /\ armed \in 0..1
  /\ disconnect \in BOOLEAN
  /\ pending \in Seq(Topic)
  /\ issued \subseteq Topic
  /\ session \subseteq Topic
  /\ wanted \subseteq Topic
  /\ process \in {"alive", "dead"}
  /\ count \in [starts : 0..MaxStarts, subscribes : 0..MaxSubscribes,
                messages : 0..MaxMessages, losses : 0..MaxLosses]

Init ==
  /\ flags = {}
  /\ owner = "idle"
  /\ client = "none"
  /\ runner = "none"
  /\ io = "idle"
  /\ posted = <<>>
  /\ armed = 0
  /\ disconnect = FALSE
  /\ pending = <<>>
  /\ issued = {}
  /\ session = {}
  /\ wanted = {}
  /\ process = "alive"
  /\ count = [starts |-> 0, subscribes |-> 0, messages |-> 0, losses |-> 0]

-----------------------------------------------------------------------------
(***************************************************************************)
(* The owner's thread.                                                     *)
(***************************************************************************)

\* start(): a second call returns at once.
Start ==
  /\ owner = "idle"
  /\ ~Started
  /\ count.starts < MaxStarts
  /\ flags' = {"started"}
  /\ client' = "there"
  /\ posted' = <<"flush">>
  /\ armed' = 1
  /\ runner' = "running"
  /\ issued' = {}
  /\ count' = [count EXCEPT !.starts = @ + 1]
  /\ UNCHANGED <<owner, io, disconnect, pending, session, wanted, process>>

\* Mutant: a topic is stored, and not posted to a client that runs.
SubscribeStoresOnly(t) ==
  /\ owner = "idle"
  /\ count.subscribes < MaxSubscribes
  /\ pending' = Append(pending, t)
  /\ wanted' = wanted \cup {t}
  /\ count' = [count EXCEPT !.subscribes = @ + 1]
  /\ UNCHANGED <<flags, owner, client, runner, io, posted, armed, disconnect,
                 issued, session, process>>

\* subscribe(): the topic is stored, and posted to a client that runs.  If the
\* runner_ thread walks through pending_topics_ at the same time, that is a data
\* race: the vector may be reallocated under it.
Subscribe(t) ==
  /\ owner = "idle"
  /\ count.subscribes < MaxSubscribes
  /\ pending' = Append(pending, t)
  /\ wanted' = wanted \cup {t}
  /\ posted' = IF Started /\ client = "there" THEN Append(posted, t) ELSE posted
  /\ process' \in IF io \in {"flushing", "receiveFlushing"}
                  THEN {"alive", "dead"} ELSE {"alive"}
  /\ count' = [count EXCEPT !.subscribes = @ + 1]
  /\ UNCHANGED <<flags, owner, client, runner, io, armed, disconnect, issued,
                 session>>

\* stop(): a call while not started returns at once.  Otherwise async_disconnect
\* is started and the runner_ thread joined.
Stop ==
  /\ owner = "idle"
  /\ Started
  /\ flags' = {"stopped"}
  /\ disconnect' = TRUE
  /\ owner' = "joining"
  /\ UNCHANGED <<client, runner, io, posted, armed, pending, issued, session,
                 wanted, process, count>>

\* Mutant: stop() does not wait for the runner_ thread.
StopWithoutJoin ==
  /\ owner = "joining"
  /\ owner' = "idle"
  /\ client' = "none"
  /\ UNCHANGED <<flags, runner, io, posted, armed, disconnect, pending, issued,
                 session, wanted, process, count>>

\* stop(), after the join: client_ and ioc_ are reset, and with them every
\* handler that has not run.
StopJoined ==
  /\ owner = "joining"
  /\ runner = "exited"
  /\ owner' = "idle"
  /\ client' = "none"
  /\ runner' = "none"
  /\ posted' = <<>>
  /\ armed' = 0
  /\ UNCHANGED <<flags, io, disconnect, pending, issued, session, wanted,
                 process, count>>

-----------------------------------------------------------------------------
(***************************************************************************)
(* The runner_ thread.                                                     *)
(***************************************************************************)
IoIdle == runner = "running" /\ io = "idle"

\* do_subscribe() for every topic of T.
DoSubscribe(T) ==
  /\ issued' = issued \cup T
  /\ session' = session \cup T

\* The handler posted by start() subscribes to the pending topics ...
FlushLoop ==
  /\ IoIdle
  /\ posted # <<>> /\ Head(posted) = "flush"
  /\ posted' = Tail(posted)
  /\ DoSubscribe(ToSet(pending))
  /\ io' = "flushing"
  /\ UNCHANGED <<flags, owner, client, runner, armed, disconnect, pending,
                 wanted, process, count>>

\* ... and then clears them.
FlushClear ==
  /\ io = "flushing"
  /\ pending' = <<>>
  /\ io' = "idle"
  /\ UNCHANGED <<flags, owner, client, runner, posted, armed, disconnect,
                 issued, session, wanted, process, count>>

\* The handler posted by subscribe().
PostedSubscribe ==
  /\ IoIdle
  /\ posted # <<>> /\ Head(posted) # "flush"
  /\ posted' = Tail(posted)
  /\ DoSubscribe({Head(posted)})
  /\ UNCHANGED <<flags, owner, client, runner, io, armed, disconnect, pending,
                 wanted, process, count>>

\* async_receive completes with a message: pending topics are subscribed to ...
Receive ==
  /\ IoIdle
  /\ armed > 0
  /\ session # {}
  /\ count.messages < MaxMessages
  /\ armed' = armed - 1
  /\ DoSubscribe(ToSet(pending))
  /\ io' = IF pending = <<>> THEN "received" ELSE "receiveFlushing"
  /\ count' = [count EXCEPT !.messages = @ + 1]
  /\ UNCHANGED <<flags, owner, client, runner, posted, disconnect, pending,
                 wanted, process>>

\* ... and cleared ...
ReceiveClear ==
  /\ io = "receiveFlushing"
  /\ pending' = <<>>
  /\ io' = "received"
  /\ UNCHANGED <<flags, owner, client, runner, posted, armed, disconnect,
                 issued, session, wanted, process, count>>

\* arm_receive(), unless stop() was called.
Rearm == armed' = IF Stopped THEN armed ELSE armed + 1

\* ... cb_ routes the message, and the next receive is armed.
ReceiveDone ==
  /\ io = "received"
  /\ Rearm
  /\ io' = "idle"
  /\ UNCHANGED <<flags, owner, client, runner, posted, disconnect, pending,
                 issued, session, wanted, process, count>>

\* Mutant: an error ends the receiving.
ReceiveErrorGivesUp ==
  /\ IoIdle
  /\ armed > 0
  /\ count.losses < MaxLosses
  /\ session' = {}
  /\ armed' = armed - 1
  /\ count' = [count EXCEPT !.losses = @ + 1]
  /\ UNCHANGED <<flags, owner, client, runner, io, posted, disconnect, pending,
                 issued, wanted, process>>

\* Mutant: the error branch does not return, so that the receive is armed there
\* and again at the end of the handler.
ReceiveErrorFallsThrough ==
  /\ IoIdle
  /\ armed > 0
  /\ count.losses < MaxLosses
  /\ session' = {}
  /\ armed' = IF Stopped THEN armed - 1 ELSE armed + 1
  /\ count' = [count EXCEPT !.losses = @ + 1]
  /\ UNCHANGED <<flags, owner, client, runner, io, posted, disconnect, pending,
                 issued, wanted, process>>

\* async_receive completes with an error because the session was lost: the error
\* is logged and the next receive armed.
ReceiveError ==
  /\ IoIdle
  /\ armed > 0
  /\ count.losses < MaxLosses
  /\ session' = {}
  /\ armed' = IF Stopped THEN armed - 1 ELSE armed
  /\ count' = [count EXCEPT !.losses = @ + 1]
  /\ UNCHANGED <<flags, owner, client, runner, io, posted, disconnect, pending,
                 issued, wanted, process>>

\* The disconnect cancels the receive: its error is ignored after stop().
ReceiveCancelled ==
  /\ IoIdle
  /\ disconnect /\ armed > 0
  /\ armed' = armed - 1
  /\ UNCHANGED <<flags, owner, client, runner, io, posted, disconnect, pending,
                 issued, session, wanted, process, count>>

\* Mutant: the io_context is not stopped.
DisconnectedRunsOn ==
  /\ IoIdle
  /\ disconnect
  /\ disconnect' = FALSE
  /\ session' = {}
  /\ UNCHANGED <<flags, owner, client, runner, io, posted, armed, pending,
                 issued, wanted, process, count>>

\* async_disconnect completes and stops the io_context: the runner_ thread ends,
\* whatever is still posted.
Disconnected ==
  /\ IoIdle
  /\ disconnect
  /\ disconnect' = FALSE
  /\ session' = {}
  /\ runner' = "exited"
  /\ UNCHANGED <<flags, owner, client, io, posted, armed, pending, issued,
                 wanted, process, count>>

-----------------------------------------------------------------------------
Owner ==
  \/ Start
  \/ \E t \in Topic : Subscribe(t)
  \/ Stop
  \/ StopJoined

Runner ==
  \/ FlushLoop
  \/ FlushClear
  \/ PostedSubscribe
  \/ Receive
  \/ ReceiveClear
  \/ ReceiveDone
  \/ ReceiveError
  \/ ReceiveCancelled
  \/ Disconnected

Quiescent ==
  /\ Dead \/ owner = "idle"
  /\ UNCHANGED vars

Next == (~Dead /\ (Owner \/ Runner)) \/ Quiescent

Spec == Init /\ [][Next]_vars

\* The runner_ thread runs its handlers in turn, a disconnect completes, and
\* the owner's join returns.  Messages and lost sessions need not come.
FairSpec ==
  /\ Spec
  /\ WF_vars(~Dead /\ (FlushLoop \/ PostedSubscribe))
  /\ WF_vars(~Dead /\ (FlushClear \/ ReceiveClear \/ ReceiveDone))
  /\ WF_vars(~Dead /\ Disconnected)
  /\ WF_vars(~Dead /\ StopJoined)

-----------------------------------------------------------------------------
\* From start() to stop() exactly one receive is outstanding whenever the
\* runner_ thread is between handlers: messages, errors, restarts and
\* subscriptions neither stop the receiving nor double it.
OneReceive == Started /\ IoIdle => armed = 1

\* No handler ever runs without a client, and none survives stop(): client_ and
\* ioc_ are reset only after the runner_ thread ended.
HandlersHaveClient ==
  runner = "running" \/ io # "idle" => client = "there"

\* Every topic given to subscribe(), before start() or after it, is passed on to
\* the broker unless the client is stopped first.
TopicsAreIssued ==
  \A t \in Topic :
    Started /\ t \in ToSet(pending) ~> t \in issued \/ ~Started \/ Dead

\* stop() returns.
StopReturns == owner = "joining" ~> owner = "idle" \/ Dead

\* subscribe() says of pending_topics_ "always store": a client that runs is, or
\* will again be, subscribed to every topic it was given.
StaysSubscribed ==
  \A t \in Topic :
    Started /\ t \in wanted ~> t \in session \/ ~Started \/ Dead
=============================================================================
