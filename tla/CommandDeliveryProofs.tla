------------------------ MODULE CommandDeliveryProofs ------------------------
(***************************************************************************)
(* What CommandDelivery promises, for every set of streams and any number  *)
(* of commands.                                                            *)
(***************************************************************************)
EXTENDS CommandDelivery, TLAPS

TypeOK ==
  /\ arrived \in Nat
  /\ waiting \subseteq 1..arrived
  /\ delivered \in [Stream -> Seq(1..arrived)]

\* A command that was delivered no longer waits.
DeliveredIsGone ==
  \A s \in Stream :
    \A i \in DOMAIN delivered[s] : delivered[s][i] \notin waiting

IndInv == TypeOK /\ DeliveredIsGone /\ AtMostOnce

\* Nothing was delivered yet.
LEMMA InitIndInv == Init => IndInv
BY DEF Init, IndInv, TypeOK, DeliveredIsGone, AtMostOnce

\* A command that arrives has a number no earlier one had.
LEMMA ArriveStep == ASSUME IndInv, Arrive PROVE IndInv'
<1> USE DEF IndInv, TypeOK, Arrive
<1>1. 1..arrived \subseteq 1..arrived'
  OBVIOUS
<1>2. \A s \in Stream : delivered[s] \in Seq(1..arrived')
  BY <1>1
<1>3. TypeOK'
  BY <1>1, <1>2
<1>4. \A s \in Stream :
        \A i \in DOMAIN delivered[s] : delivered[s][i] # arrived'
  OBVIOUS
<1>5. DeliveredIsGone' /\ AtMostOnce'
  BY <1>4 DEF DeliveredIsGone, AtMostOnce
<1> QED
  BY <1>3, <1>5

\* A delivered command leaves the set it is delivered from.
LEMMA DeliverStep ==
  ASSUME IndInv, NEW s \in Stream, NEW c \in waiting, Deliver(s, c)
  PROVE  IndInv'
<1> USE DEF IndInv, TypeOK
<1> DEFINE d == delivered[s]
<1>1. /\ d \in Seq(1..arrived) /\ c \in 1..arrived
      /\ arrived' = arrived /\ waiting' = waiting \ {c}
      /\ delivered' = [delivered EXCEPT ![s] = Append(d, c)]
  BY DEF Deliver
<1>2. TypeOK'
  BY <1>1
<1>3. /\ delivered'[s] = Append(d, c)
      /\ \A t \in Stream \ {s} : delivered'[t] = delivered[t]
  BY <1>1
<1>4. /\ DOMAIN delivered'[s] = DOMAIN d \cup {Len(d) + 1}
      /\ delivered'[s][Len(d) + 1] = c
      /\ \A i \in DOMAIN d : delivered'[s][i] = d[i] /\ i # Len(d) + 1
  BY <1>1, <1>3
<1>5. DeliveredIsGone'
  BY <1>1, <1>3, <1>4 DEF DeliveredIsGone
<1>6. \A t \in Stream : \A i \in DOMAIN delivered[t] : delivered[t][i] # c
  BY DEF DeliveredIsGone
<1>7. AtMostOnce'
  <2> SUFFICES ASSUME NEW t \in Stream, NEW u \in Stream,
                      NEW i \in DOMAIN delivered'[t],
                      NEW j \in DOMAIN delivered'[u],
                      delivered'[t][i] = delivered'[u][j]
               PROVE  t = u /\ i = j
    BY DEF AtMostOnce
  <2> DEFINE last(v, k) == v = s /\ k = Len(d) + 1
  <2>1. \A v \in Stream : \A k \in DOMAIN delivered'[v] :
          IF last(v, k)
          THEN delivered'[v][k] = c
          ELSE k \in DOMAIN delivered[v] /\ delivered'[v][k] = delivered[v][k]
    BY <1>3, <1>4
  <2> HIDE DEF last
  <2>2. CASE last(t, i) <=> last(u, j)
    BY <2>1, <2>2 DEF AtMostOnce, last
  <2>3. CASE ~(last(t, i) <=> last(u, j))
    BY <2>1, <2>3, <1>6
  <2> QED
    BY <2>2, <2>3
<1> QED
  BY <1>2, <1>5, <1>7

\* However arrivals, deliveries and losses alternate over any number of streams,
\* no command is delivered twice: what VehicleStream promises by implementing
\* CommandDelivery.
THEOREM DeliveredOnce == Spec => []AtMostOnce
<1>1. ASSUME IndInv, [Next]_vars PROVE IndInv'
  <2>1. CASE Arrive
    BY <1>1, <2>1, ArriveStep
  <2>2. CASE \E s \in Stream, c \in waiting : Deliver(s, c)
    BY <1>1, <2>2, DeliverStep
  <2>3. CASE waiting' \subseteq waiting /\ UNCHANGED <<arrived, delivered>>
    BY <1>1, <2>3 DEF IndInv, TypeOK, DeliveredIsGone, AtMostOnce
  <2> QED
    BY <1>1, <2>1, <2>2, <2>3 DEF Next, End, Lose, vars
<1>2. IndInv => AtMostOnce
  BY DEF IndInv
<1> QED
  BY InitIndInv, <1>1, <1>2, PTL DEF Spec
=============================================================================
