-------------------------- MODULE TripRoutingProofs --------------------------
(***************************************************************************)
(* The way from an MQTT message to a command, for every precision of the   *)
(* ids and any number of messages.                                         *)
(***************************************************************************)
EXTENDS TripRouting, TLAPS

(***************************************************************************)
(* The inductive invariant.                                                *)
(***************************************************************************)
Command == {GatewayCommand(t, id) : t \in Topic, id \in Id}

TypesOK ==
  /\ wired \in 0..Len(Wiring)
  /\ pushed \in Seq(Command)
  /\ unrouted \in Nat
  /\ received \in Nat

\* main() has made the first calls of Wiring.
WiredOK ==
  \A i \in 1..wired : Wiring[i].call = "on" => Wiring[i].topic \in handlers

IndInv ==
  /\ TypesOK
  /\ WiredOK
  /\ EveryMessageRouted
  /\ FieldsMatchKeys

-----------------------------------------------------------------------------
(***************************************************************************)
(* The tables of main() and of the orchestrator.                           *)
(***************************************************************************)

\* Once the client is started, main() has registered a handler for every topic.
LEMMA StartedLast ==
  ASSUME TypesOK, WiredOK, Receiving PROVE Topic \subseteq handlers
<1>1. Len(Wiring) = 14
  BY DEF Wiring
<1>2. PICK i \in 1..wired : Wiring[i] = StartClient
  BY DEF Receiving
<1>3. i \in 1..14 /\ wired \in 0..14
  BY <1>1 DEF TypesOK
<1>4. i = 14
  BY <1>2, <1>3 DEF Wiring, StartClient, On, SubscribeTo, SetMessageHandler
<1>5. wired = 14
  BY <1>3, <1>4
<1>6. /\ Wiring[1] = On("init") /\ Wiring[2] = On("move")
      /\ Wiring[3] = On("park") /\ Wiring[4] = On("update_location")
      /\ Wiring[5] = On("update_status") /\ Wiring[7] = On("cancel")
  BY DEF Wiring
<1> QED
  BY <1>5, <1>6 DEF WiredOK, On, Topic

\* Each lambda of main() sets every field of its command from the key of that
\* name: parameters and arguments are in the same order.
LEMMA ParametersFit ==
  ASSUME NEW t \in Topic
  PROVE  {<<Parameters[t][i], Arguments[t][i]>> : i \in DOMAIN Parameters[t]}
           = {<<FieldOf[k], k>> : k \in Keys[t]}
<1>1. CASE t = "init"
  BY <1>1 DEF Parameters, Arguments, FieldOf, Keys
<1>2. CASE t = "move"
  BY <1>2 DEF Parameters, Arguments, FieldOf, Keys
<1>3. CASE t = "park"
  BY <1>3 DEF Parameters, Arguments, FieldOf, Keys, ParkParameters
<1>4. CASE t = "update_location"
  BY <1>4 DEF Parameters, Arguments, FieldOf, Keys
<1>5. CASE t = "update_status"
  BY <1>5 DEF Parameters, Arguments, FieldOf, Keys
<1>6. CASE t = "cancel"
  BY <1>6 DEF Parameters, Arguments, FieldOf, Keys
<1> QED
  BY <1>1, <1>2, <1>3, <1>4, <1>5, <1>6 DEF Topic

-----------------------------------------------------------------------------
(***************************************************************************)
(* The steps.                                                              *)
(***************************************************************************)

\* Nothing is wired and no message has come.
LEMMA InitIndInv == Init => IndInv
<1> SUFFICES ASSUME Init PROVE IndInv
  OBVIOUS
<1>1. TypesOK
  BY DEF Init, TypesOK, Wiring
<1> QED
  BY <1>1 DEF Init, IndInv, WiredOK, EveryMessageRouted, FieldsMatchKeys

\* main() registers, subscribes and starts.
LEMMA WireStep == ASSUME IndInv, Wire PROVE IndInv'
<1>1. TypesOK'
  BY DEF IndInv, TypesOK, Wire
<1>2. WiredOK'
  BY DEF IndInv, TypesOK, WiredOK, Wire
<1> QED
  BY <1>1, <1>2 DEF IndInv, Wire, EveryMessageRouted, FieldsMatchKeys

\* The command of a message has the fields of its keys.
LEMMA CommandFits ==
  ASSUME NEW t \in Topic, NEW id \in Id
  PROVE  /\ GatewayCommand(t, id) \in Command
         /\ GatewayCommand(t, id).topic = t
         /\ GatewayCommand(t, id).fields = {<<FieldOf[k], k>> : k \in Keys[t]}
<1>1. GatewayCommand(t, id) \in Command
  BY DEF Command
<1>2. /\ GatewayCommand(t, id).topic = t
      /\ GatewayCommand(t, id).fields
           = {<<Parameters[t][i], Arguments[t][i]>> : i \in DOMAIN Parameters[t]}
  BY DEF GatewayCommand
<1> QED
  BY <1>1, <1>2, ParametersFit

\* A message is routed and either pushes its command or has no effect.
LEMMA DispatchStep ==
  ASSUME IndInv, NEW t \in Topic, NEW keys, NEW id \in Id,
         Dispatch(t, keys, id)
  PROVE  IndInv'
<1>0. TypesOK /\ WiredOK /\ EveryMessageRouted /\ FieldsMatchKeys
  BY DEF IndInv
<1>1. t \in handlers
  BY <1>0, StartedLast DEF Dispatch
<1>2. /\ StoreIds(t, keys, id)
      /\ pushed' = IF Keys[t] \subseteq keys
                   THEN Append(pushed, GatewayCommand(t, id)) ELSE pushed
      /\ UNCHANGED <<unrouted, wired, handlers>>
      /\ received' = received + 1
  BY <1>1 DEF Dispatch
<1>3. PICK c \in Command :
        /\ c = GatewayCommand(t, id)
        /\ c.fields = {<<FieldOf[k], k>> : k \in Keys[c.topic]}
  BY CommandFits
<1>4. pushed \in Seq(Command)
  BY <1>0 DEF TypesOK
<1>5. /\ pushed' \in Seq(Command)
      /\ \A i \in DOMAIN pushed' :
           (i \in DOMAIN pushed /\ pushed'[i] = pushed[i]) \/ pushed'[i] = c
  <2>1. ASSUME NEW s \in Seq(Command)
        PROVE  /\ Append(s, c) \in Seq(Command)
               /\ \A i \in DOMAIN Append(s, c) :
                    \/ i \in DOMAIN s /\ Append(s, c)[i] = s[i]
                    \/ Append(s, c)[i] = c
    OBVIOUS
  <2> QED
    BY <1>2, <1>3, <1>4, <2>1
<1>6. TypesOK'
  BY <1>0, <1>2, <1>5 DEF TypesOK
<1>7. FieldsMatchKeys'
  BY <1>0, <1>3, <1>5 DEF FieldsMatchKeys
<1> QED
  BY <1>0, <1>2, <1>6, <1>7 DEF IndInv, WiredOK, EveryMessageRouted

\* Together the parts are inductive.
LEMMA Invariance == Spec => []IndInv
<1>1. ASSUME IndInv, [Next]_vars PROVE IndInv'
  <2>1. CASE Wire
    BY <1>1, <2>1, WireStep
  <2>2. ASSUME NEW t \in Topic, NEW keys \in Payload(t), NEW id \in Id,
               Dispatch(t, keys, id)
        PROVE  IndInv'
    BY <1>1, <2>2, DispatchStep
  <2>3. ASSUME NEW id \in Id, SetTripId(id) PROVE IndInv'
    BY <1>1, <2>3 DEF SetTripId, IndInv, TypesOK, WiredOK,
                      EveryMessageRouted, FieldsMatchKeys
  <2>4. CASE UNCHANGED vars
    BY <1>1, <2>4 DEF vars, IndInv, TypesOK, WiredOK,
                      EveryMessageRouted, FieldsMatchKeys
  <2> QED
    BY <1>1, <2>1, <2>2, <2>3, <2>4 DEF Next
<1> QED
  BY InitIndInv, <1>1, PTL DEF Spec

-----------------------------------------------------------------------------
\* However early the first message comes after start(), dispatch() finds a
\* handler for it.
THEOREM AllRouted == Spec => []EveryMessageRouted
<1>1. IndInv => EveryMessageRouted
  BY DEF IndInv
<1> QED
  BY Invariance, <1>1, PTL

\* Whatever messages come, the lambdas of main() put the value of every key into
\* the field of that name.
THEOREM FieldsRight == Spec => []FieldsMatchKeys
<1>1. IndInv => FieldsMatchKeys
  BY DEF IndInv
<1> QED
  BY Invariance, <1>1, PTL

\* A message whose payload cannot be read changes neither trip_id_ nor
\* request_id_, whatever was stored before.
THEOREM RejectedLeavesIds == Spec => RejectedHasNoEffect
<1>1. ASSUME IndInv, [Next]_vars, received' # received, pushed' = pushed
      PROVE  UNCHANGED <<tripId, requestId>>
  <2>0. PICK t \in Topic :
          \E keys \in Payload(t), id \in Id : Dispatch(t, keys, id)
    BY <1>1 DEF Next, Wire, SetTripId, vars
  <2>1. PICK keys \in Payload(t), id \in Id : Dispatch(t, keys, id)
    BY <2>0
  <2>2. ~(Keys[t] \subseteq keys) \/ t \notin handlers
    <3> SUFFICES ASSUME Keys[t] \subseteq keys, t \in handlers PROVE FALSE
      OBVIOUS
    <3>1. pushed' = Append(pushed, GatewayCommand(t, id))
      BY <2>1 DEF Dispatch
    <3>2. PICK c \in Command : c = GatewayCommand(t, id)
      BY CommandFits
    <3>3. PICK s \in Seq(Command) : s = pushed
      BY <1>1 DEF IndInv, TypesOK
    <3>4. Append(s, c) # s
      <4>1. Len(Append(s, c)) = Len(s) + 1 /\ Len(s) \in Nat
        OBVIOUS
      <4> QED
        BY <4>1
    <3> QED
      BY <1>1, <3>1, <3>2, <3>3, <3>4
  <2> QED
    BY <2>1, <2>2 DEF Dispatch, StoreIds
<1>2. IndInv /\ [Next]_vars
        => [received' # received /\ pushed' = pushed
              => UNCHANGED <<tripId, requestId>>]_vars
  BY <1>1
<1> QED
  BY Invariance, <1>2, PTL DEF Spec, RejectedHasNoEffect
=============================================================================
