--------------------------- MODULE HttpClientProofs ---------------------------
(***************************************************************************)
(* How far a call of HttpClient follows redirects, to which servers and    *)
(* with which method and body, for every max_redirects and every set of    *)
(* servers and paths.                                                      *)
(***************************************************************************)
EXTENDS HttpClient, TLAPS

(***************************************************************************)
(* The inductive invariant.                                                *)
(***************************************************************************)

\* One request per redirect followed, and the first; redirects_remaining counts
\* the redirects down.
ChainOK ==
  /\ remaining + Len(followed) = MaxRedirects
  /\ pc = "idle" => Len(followed) = 0
  /\ pc \in {"idle", "parse", "resolve", "tls", "connect", "handshake",
             "write"} => Len(sent) = Len(followed)
  /\ pc \in {"read", "answered"} => Len(sent) = Len(followed) + 1
  /\ pc = "done" => Len(sent) <= Len(followed) + 1

\* The first i of the redirects R all preserve the method.
Kept(R, i) == \A j \in 1..i : R[j].status \in {307, 308}

\* Request r is what a chain that began with first should have come to, with or
\* without the method kept.
Conforms(r, first, kept) ==
  /\ r.body = IF kept THEN first.body ELSE "empty"
  /\ r.method = IF kept \/ first.method \in {"GET", "DELETE", "HEAD"}
                THEN first.method ELSE "GET"

\* The requests written conform, and so does the current one.
RequestsOK ==
  /\ \A i \in 1..Len(sent) : Conforms(sent[i], sent[1], Kept(followed, i - 1))
  /\ Len(sent) > 0 /\ pc # "done" =>
       Conforms(request, sent[1], Kept(followed, Len(followed)))

IndInv == TypeOK /\ ChainOK /\ RequestsOK

-----------------------------------------------------------------------------
\* The location of an answer, whatever its kind, has a URL.
LEMMA LocationTypes ==
  ASSUME NEW l \in Location \cup {NoLocation}
  PROVE  l.kind \in {"absolute", "rooted", "relative"} /\ l.url \in Url
<1>1. <<>> \in Seq(Segment) /\ \A s \in Segment : <<s>> \in Seq(Segment)
  OBVIOUS
<1>2. CASE l = NoLocation
  BY <1>1, <1>2 DEF NoLocation, NoUrl, Url
<1>3. CASE l \in [name : {"Location"}, kind : {"absolute"},
                 url : [origin : Origin, path : {<<s>> : s \in Segment}]
                       \cup {InvalidUrl}]
  <2>1. InvalidUrl \in Url
    BY <1>1 DEF InvalidUrl, Url
  <2>2. [origin : Origin, path : {<<s>> : s \in Segment}] \subseteq Url
    BY <1>1 DEF Url
  <2> QED
    BY <1>3, <2>1, <2>2
<1>4. CASE l \in [name : {"location", "LOCATION"}, kind : {"rooted", "relative"},
                 url : [origin : {"none"}, path : {<<s>> : s \in Segment}]]
  <2>1. [origin : {"none"}, path : {<<s>> : s \in Segment}] \subseteq Url
    BY <1>1 DEF Url
  <2> QED
    BY <1>4, <2>1
<1> QED
  BY <1>2, <1>3, <1>4 DEF Location

\* What a caller gives for a URL is one, or the invalid one.
LEMMA GivenTypes == ASSUME NEW u \in GivenUrl PROVE u \in Url
<1>1. InvalidUrl \in Url
  BY DEF InvalidUrl, Url
<1>2. ASSUME NEW p \in {<<s>> : s \in Segment} PROVE p \in Seq(Segment)
  <2>1. PICK s \in Segment : p = <<s>>
    OBVIOUS
  <2>2. <<s>> \in Seq(Segment)
    OBVIOUS
  <2> QED
    BY <2>1, <2>2
<1>3. ASSUME NEW p \in Segment \X Segment PROVE p \in Seq(Segment)
  <2>1. p = <<p[1], p[2]>> /\ p[1] \in Segment /\ p[2] \in Segment
    OBVIOUS
  <2>2. <<p[1], p[2]>> \in Seq(Segment)
    BY <2>1
  <2> QED
    BY <2>1, <2>2
<1>4. CASE u # InvalidUrl
  <2>1. u \in [origin : Origin,
               path : {<<s>> : s \in Segment} \cup (Segment \X Segment)]
    BY <1>4 DEF GivenUrl
  <2>2. u.path \in Seq(Segment)
    BY <1>2, <1>3, <2>1
  <2> QED
    BY <2>1, <2>2 DEF Url
<1> QED
  BY <1>1, <1>4

\* Redirects that agree up to n keep the method together.
LEMMA KeptSame ==
  ASSUME NEW R, NEW S, NEW n, \A j \in 1..n : S[j] = R[j]
  PROVE  Kept(S, n) <=> Kept(R, n)
BY DEF Kept

\* resolve_redirect() makes a URL of a URL and a location.
LEMMA ResolveTypes ==
  ASSUME NEW base \in Url, NEW l \in Location \cup {NoLocation}
  PROVE  ResolveRedirect(base, l) \in Url
<1>1. l.kind \in {"absolute", "rooted", "relative"} /\ l.url \in Url
  BY LocationTypes
<1>2. Front(base.path) \in Seq(Segment)
  BY DEF Front, Url
<1>3. Front(base.path) \o l.url.path \in Seq(Segment)
  BY <1>1, <1>2 DEF Url
<1> QED
  BY <1>1, <1>3 DEF ResolveRedirect, Url

\* A call has not begun.
LEMMA InitIndInv == Init => IndInv
<1> SUFFICES ASSUME Init PROVE IndInv
  OBVIOUS
<1>1. request \in Request
  BY DEF Init, Request, NoUrl, Url, Method, Body
<1>2. resp \in [status : Status, success : BOOLEAN,
                location : Location \cup {NoLocation}]
  BY DEF Init, NoResponse, Status
<1>3. sent \in Seq(Request) /\ followed \in Seq(Redirect)
  BY DEF Init
<1>4. TypeOK
  BY HttpAssumption, <1>1, <1>2, <1>3 DEF Init, TypeOK
<1>5. ChainOK /\ RequestsOK
  BY HttpAssumption DEF Init, ChainOK, RequestsOK
<1> QED
  BY <1>4, <1>5 DEF IndInv

\* A response that no operation has filled is a response.
LEMMA NoResponseType ==
  NoResponse \in [status : Status, success : BOOLEAN,
                  location : Location \cup {NoLocation}]
BY DEF NoResponse, Status

\* Every step keeps the types.
LEMMA TypeStep == ASSUME IndInv, [Next]_vars PROVE TypeOK'
<1> USE DEF IndInv, TypeOK
<1>1. ASSUME NEW m \in Method, NEW u \in GivenUrl, NEW b \in Body, Call(m, u, b)
      PROVE  TypeOK'
  <2>1. u \in Url
    BY GivenTypes
  <2>2. request' \in Request
    BY <1>1, <2>1 DEF Call, Request
  <2> QED
    BY <1>1, <2>2 DEF Call
<1>2. CASE ParseUrl \/ Fail
  BY <1>2, NoResponseType DEF ParseUrl, Fail, Blocking
<1>3. CASE Resolve \/ SetUpTls \/ Connect \/ Handshake
  BY <1>3 DEF Resolve, SetUpTls, Connect, Handshake, Proceed, Blocking
<1>4. CASE WriteRequest
  BY <1>4 DEF WriteRequest, Proceed, Blocking
<1>5. CASE ReadNothing
  BY <1>5 DEF ReadNothing, Status
<1>6. ASSUME NEW s \in Status \ {NoStatus},
             NEW l \in Location \cup {NoLocation}, ReadAnswer(s, l)
      PROVE  TypeOK'
  <2>1. (200 <= s /\ s < 300) \in BOOLEAN
    OBVIOUS
  <2>2. resp' \in [status : Status, success : BOOLEAN,
                   location : Location \cup {NoLocation}]
    BY <1>6, <2>1 DEF ReadAnswer
  <2> QED
    BY <1>6, <2>2 DEF ReadAnswer
<1>7. CASE Follow
  <2>1. /\ resp.location.kind \in {"absolute", "rooted", "relative"}
        /\ resp.location.url \in Url
    BY LocationTypes
  <2>2. [status |-> resp.status, kind |-> resp.location.kind,
         url |-> resp.location.url] \in Redirect
    BY <2>1 DEF Redirect
  <2>3. followed' \in Seq(Redirect)
    BY <1>7, <2>2 DEF Follow
  <2>4. ResolveRedirect(request.url, resp.location) \in Url
    BY ResolveTypes DEF Request
  <2>5. RedirectMethod(request.method, resp.status) \in Method
    BY DEF RedirectMethod, Request, Method
  <2>6. RedirectBody(request.body, resp.status) \in Body
    BY DEF RedirectBody, Request, Body
  <2>7. request' \in Request
    BY <1>7, <2>4, <2>5, <2>6 DEF Follow, Request
  <2>8. remaining' \in 0..MaxRedirects
    BY <1>7, HttpAssumption DEF Follow, MayFollow, CountDown
  <2> QED
    BY <1>7, <2>3, <2>7, <2>8, NoResponseType DEF Follow
<1>8. CASE Return
  BY <1>8 DEF Return
<1>9. CASE UNCHANGED vars
  BY <1>9 DEF vars
<1> QED
  BY <1>1, <1>2, <1>3, <1>4, <1>5, <1>6, <1>7, <1>8, <1>9
     DEF Next, Client, Operation

\* Every step keeps count of the requests and the redirects.
LEMMA ChainStep == ASSUME IndInv, [Next]_vars PROVE ChainOK'
<1> USE HttpAssumption DEF IndInv, TypeOK, ChainOK
<1>1. ASSUME NEW m \in Method, NEW u \in GivenUrl, NEW b \in Body, Call(m, u, b)
      PROVE  ChainOK'
  BY <1>1 DEF Call
<1>2. CASE ParseUrl \/ Fail
  BY <1>2 DEF ParseUrl, Fail, Blocking
<1>3. CASE Resolve \/ SetUpTls \/ Connect \/ Handshake
  BY <1>3 DEF Resolve, SetUpTls, Connect, Handshake, Proceed
<1>4. CASE WriteRequest
  <2>1. Len(sent') = Len(sent) + 1
    BY <1>4 DEF WriteRequest
  <2> QED
    BY <1>4, <2>1 DEF WriteRequest, Proceed
<1>5. CASE ReadNothing
  BY <1>5 DEF ReadNothing
<1>6. ASSUME NEW s \in Status \ {NoStatus},
             NEW l \in Location \cup {NoLocation}, ReadAnswer(s, l)
      PROVE  ChainOK'
  BY <1>6 DEF ReadAnswer
<1>7. CASE Follow
  <2>1. Len(followed') = Len(followed) + 1
    BY <1>7 DEF Follow
  <2>2. Len(followed) \in Nat /\ Len(sent) \in Nat /\ remaining \in Int
    OBVIOUS
  <2>3. /\ pc = "answered" /\ pc' = "parse"
        /\ remaining' = remaining - 1 /\ sent' = sent
    BY <1>7 DEF Follow, CountDown
  <2> QED
    BY <2>1, <2>2, <2>3
<1>8. CASE Return
  BY <1>8 DEF Return
<1>9. CASE UNCHANGED vars
  BY <1>9 DEF vars
<1> QED
  BY <1>1, <1>2, <1>3, <1>4, <1>5, <1>6, <1>7, <1>8, <1>9
     DEF Next, Client, Operation

\* Every step keeps the requests as the redirects before them demand.
LEMMA RequestsStep == ASSUME IndInv, [Next]_vars PROVE RequestsOK'
<1> USE DEF IndInv, TypeOK
<1>1. ASSUME NEW m \in Method, NEW u \in GivenUrl, NEW b \in Body, Call(m, u, b)
      PROVE  RequestsOK'
  <2>1. Len(followed) = Len(sent) /\ Len(sent) = 0
    BY <1>1 DEF Call, ChainOK
  <2> QED
    BY <1>1, <2>1 DEF Call, RequestsOK
<1>2. ASSUME UNCHANGED <<request, sent, followed>>, pc = "done" => pc' = "done"
      PROVE  RequestsOK'
  BY <1>2 DEF RequestsOK
<1>3. CASE WriteRequest
  <2>1. /\ sent' = Append(sent, request)
        /\ request' = request /\ followed' = followed
        /\ pc = "write" /\ pc' = "read"
    BY <1>3 DEF WriteRequest, Proceed
  <2>2. Len(sent) = Len(followed) /\ Len(sent) \in Nat
    BY <2>1 DEF ChainOK
  <2>3. /\ Len(sent') = Len(sent) + 1
        /\ sent'[Len(sent) + 1] = request
        /\ \A i \in 1..Len(sent) : sent'[i] = sent[i]
    BY <2>1, <2>2
  <2>4. CASE Len(sent) = 0
    <3>1. Kept(followed, 0)
      BY DEF Kept
    <3>2. sent'[1] = request /\ Len(sent') = 1
      BY <2>3, <2>4
    <3>3. Conforms(request, request, Kept(followed, 0))
      BY <3>1 DEF Conforms
    <3>4. \A i \in 1..Len(sent') : i = 1 /\ i - 1 = 0
      BY <3>2
    <3>5. Len(followed) = 0
      BY <2>2, <2>4
    <3> QED
      BY <2>1, <3>2, <3>3, <3>4, <3>5 DEF RequestsOK
  <2>5. CASE Len(sent) > 0
    <3>1. sent'[1] = sent[1]
      BY <2>2, <2>3, <2>5
    <3>2. Conforms(request, sent[1], Kept(followed, Len(followed)))
      BY <2>1, <2>5 DEF RequestsOK
    <3>3. \A i \in 1..Len(sent) :
            Conforms(sent'[i], sent'[1], Kept(followed, i - 1))
      BY <2>3, <3>1 DEF RequestsOK
    <3>4. \A i \in 1..Len(sent') :
            i \in 1..Len(sent) \/ (i = Len(sent) + 1 /\ i - 1 = Len(followed))
      BY <2>2, <2>3
    <3>5. \A i \in 1..Len(sent') :
            Conforms(sent'[i], sent'[1], Kept(followed, i - 1))
      BY <2>3, <3>1, <3>2, <3>3, <3>4
    <3> QED
      BY <2>1, <3>1, <3>2, <3>5 DEF RequestsOK
  <2> QED
    BY <2>2, <2>4, <2>5
<1>4. CASE Follow
  <2>1. /\ sent' = sent
        /\ followed' = Append(followed, [status |-> resp.status,
                                         kind |-> resp.location.kind,
                                         url |-> resp.location.url])
        /\ request'.method = RedirectMethod(request.method, resp.status)
        /\ request'.body = RedirectBody(request.body, resp.status)
        /\ pc = "answered"
    BY <1>4 DEF Follow
  <2>2. Len(followed) \in Nat /\ Len(sent) = Len(followed) + 1
    BY <2>1 DEF ChainOK
  <2>3. /\ Len(followed') = Len(followed) + 1
        /\ followed'[Len(followed) + 1].status = resp.status
        /\ \A j \in 1..Len(followed) : followed'[j] = followed[j]
    BY <2>1, <2>2
  <2>4. \A i \in 1..Len(sent) : Kept(followed', i - 1) <=> Kept(followed, i - 1)
    <3> SUFFICES ASSUME NEW i \in 1..Len(sent)
                 PROVE  Kept(followed', i - 1) <=> Kept(followed, i - 1)
      OBVIOUS
    <3>1. \A j \in 1..(i - 1) : followed'[j] = followed[j]
      BY <2>2, <2>3
    <3> QED
      BY <3>1, KeptSame
  <2>5. Kept(followed', Len(followed'))
          <=> Kept(followed, Len(followed)) /\ resp.status \in {307, 308}
    BY <2>2, <2>3 DEF Kept
  <2>6. Conforms(request, sent[1], Kept(followed, Len(followed)))
    BY <2>1, <2>2 DEF RequestsOK
  <2>7. sent[1] \in Request
    BY <2>2
  <2>8. Conforms(request', sent[1], Kept(followed', Len(followed')))
    BY <2>1, <2>5, <2>6, <2>7
       DEF Conforms, RedirectBody, RedirectMethod, Request, Method
  <2>9. \A i \in 1..Len(sent) :
          Conforms(sent[i], sent[1], Kept(followed', i - 1))
    <3> SUFFICES ASSUME NEW i \in 1..Len(sent)
                 PROVE  Conforms(sent[i], sent[1], Kept(followed', i - 1))
      OBVIOUS
    <3>1. Conforms(sent[i], sent[1], Kept(followed, i - 1))
      BY DEF RequestsOK
    <3>2. Kept(followed', i - 1) <=> Kept(followed, i - 1)
      BY <2>4
    <3> QED
      BY <3>1, <3>2 DEF Conforms
  <2> QED
    BY <2>1, <2>8, <2>9 DEF RequestsOK
<1>5. CASE ParseUrl \/ Fail \/ Return
  BY <1>2, <1>5 DEF ParseUrl, Fail, Return
<1>6. CASE Resolve \/ SetUpTls \/ Connect \/ Handshake
  BY <1>2, <1>6 DEF Resolve, SetUpTls, Connect, Handshake, Proceed
<1>7. ASSUME NEW s \in Status \ {NoStatus},
             NEW l \in Location \cup {NoLocation},
             ReadNothing \/ ReadAnswer(s, l)
      PROVE  RequestsOK'
  BY <1>2, <1>7 DEF ReadNothing, ReadAnswer
<1>8. CASE ReadNothing
  BY <1>2, <1>8 DEF ReadNothing
<1>9. CASE UNCHANGED vars
  BY <1>2, <1>9 DEF vars
<1> QED
  BY <1>1, <1>3, <1>4, <1>5, <1>6, <1>7, <1>8, <1>9
     DEF Next, Client, Operation

\* The invariant holds in every reachable state.
LEMMA Invariance == Spec => []IndInv
<1>1. IndInv /\ [Next]_vars => IndInv'
  BY TypeStep, ChainStep, RequestsStep DEF IndInv
<1> QED
  BY InitIndInv, <1>1, PTL DEF Spec

-----------------------------------------------------------------------------
\* However servers redirect, a call of the client writes at most max_redirects
\* requests after the first, for every max_redirects.
THEOREM RedirectsBounded == Spec => []HopsBounded
<1>1. IndInv => HopsBounded
  <2> SUFFICES ASSUME IndInv PROVE HopsBounded
    OBVIOUS
  <2>1. Len(sent) <= Len(followed) + 1 /\ Len(followed) <= MaxRedirects
    BY HttpAssumption DEF IndInv, TypeOK, ChainOK, Blocking
  <2>2. Len(sent) \in Nat /\ Len(followed) \in Nat
    BY DEF IndInv, TypeOK
  <2> QED
    BY <2>1, <2>2, HttpAssumption DEF HopsBounded
<1> QED
  BY Invariance, <1>1, PTL

\* Over a chain of redirects of any length, method and body of every request
\* are the caller's as long as only 307 and 308 came before, and those of a GET
\* or of a request without a body afterwards.
THEOREM MethodPreserved == Spec => []MethodFollowsStatus
<1>1. IndInv => MethodFollowsStatus
  <2> SUFFICES ASSUME IndInv, NEW i \in DOMAIN sent
               PROVE  LET kept == \A j \in DOMAIN Before(i) :
                                    Before(i)[j].status \in {307, 308}
                          first == sent[1]
                      IN /\ sent[i].body = IF kept THEN first.body ELSE "empty"
                         /\ sent[i].method =
                              IF \/ kept
                                 \/ first.method \in {"GET", "DELETE", "HEAD"}
                              THEN first.method ELSE "GET"
    BY DEF MethodFollowsStatus
  <2>1. i \in 1..Len(sent) /\ Len(sent) \in Nat /\ Len(followed) \in Nat
    BY DEF IndInv, TypeOK
  <2>2. Len(sent) <= Len(followed) + 1
    BY <2>1 DEF IndInv, TypeOK, ChainOK, Blocking
  <2>3. /\ DOMAIN Before(i) = 1..(i - 1)
        /\ \A j \in 1..(i - 1) : Before(i)[j] = followed[j]
    BY <2>1, <2>2 DEF Before, IndInv, TypeOK
  <2>4. (\A j \in DOMAIN Before(i) : Before(i)[j].status \in {307, 308})
          <=> Kept(followed, i - 1)
    BY <2>3 DEF Kept
  <2>5. Conforms(sent[i], sent[1], Kept(followed, i - 1))
    BY <2>1 DEF IndInv, RequestsOK
  <2> QED
    BY <2>4, <2>5 DEF Conforms
<1> QED
  BY Invariance, <1>1, PTL

-----------------------------------------------------------------------------
(***************************************************************************)
(* Where the requests go.                                                  *)
(***************************************************************************)

\* The first i of the redirects R, met by a call to the origin first, lead to
\* origin org: that of the last absolute one, if any.
Leads(R, i, first, org) ==
  \/ /\ \A j \in 1..i : R[j].kind # "absolute"
     /\ org = first
  \/ \E j \in 1..i :
       /\ R[j].kind = "absolute"
       /\ \A k \in 1..i : j < k => R[k].kind # "absolute"
       /\ org = R[j].url.origin

\* The redirects lead to where the requests went, and to where the current one
\* goes.
OriginsOK ==
  /\ \A i \in 1..Len(sent) :
       Leads(followed, i - 1, sent[1].url.origin, sent[i].url.origin)
  /\ Len(sent) > 0 /\ pc # "done" =>
       Leads(followed, Len(followed), sent[1].url.origin, request.url.origin)

\* Redirects that agree up to n lead to the same origin.
LEMMA LeadsSame ==
  ASSUME NEW R, NEW S, NEW n, NEW f, NEW g, \A j \in 1..n : S[j] = R[j],
         Leads(R, n, f, g)
  PROVE  Leads(S, n, f, g)
BY DEF Leads

\* One more redirect leads to its own origin or leaves the request where it was.
LEMMA LeadsOn ==
  ASSUME NEW R, NEW S, NEW n \in Nat, NEW f, NEW g, NEW h,
         \A j \in 1..n : S[j] = R[j], Leads(R, n, f, g),
         h = IF S[n + 1].kind = "absolute" THEN S[n + 1].url.origin ELSE g
  PROVE  Leads(S, n + 1, f, h)
<1>1. \A j \in 1..(n + 1) : j \in 1..n \/ j = n + 1
  OBVIOUS
<1>2. CASE S[n + 1].kind = "absolute"
  <2>1. n + 1 \in 1..(n + 1) /\ \A k \in 1..(n + 1) : ~(n + 1 < k)
    OBVIOUS
  <2> QED
    BY <1>2, <2>1 DEF Leads
<1>3. CASE S[n + 1].kind # "absolute"
  <2>1. CASE /\ \A j \in 1..n : R[j].kind # "absolute"
             /\ g = f
    <3>1. \A j \in 1..(n + 1) : S[j].kind # "absolute"
      BY <1>1, <1>3, <2>1
    <3> QED
      BY <1>3, <2>1, <3>1 DEF Leads
  <2>2. ASSUME NEW j \in 1..n, R[j].kind = "absolute",
               \A k \in 1..n : j < k => R[k].kind # "absolute",
               g = R[j].url.origin
        PROVE  Leads(S, n + 1, f, h)
    <3>1. /\ j \in 1..(n + 1) /\ S[j].kind = "absolute"
          /\ h = S[j].url.origin
      BY <1>3, <2>2
    <3>2. \A k \in 1..(n + 1) : j < k => S[k].kind # "absolute"
      BY <1>1, <1>3, <2>2
    <3> QED
      BY <3>1, <3>2 DEF Leads
  <2> QED
    BY <2>1, <2>2 DEF Leads
<1> QED
  BY <1>2, <1>3

\* Every step keeps the origins as the locations before them demand.
LEMMA OriginsStep == ASSUME IndInv, OriginsOK, [Next]_vars PROVE OriginsOK'
<1>0. TypeOK /\ ChainOK
  BY DEF IndInv
<1>1. ASSUME NEW m \in Method, NEW u \in GivenUrl, NEW b \in Body, Call(m, u, b)
      PROVE  OriginsOK'
  <2>1. Len(followed) = Len(sent) /\ Len(sent) = 0
    BY <1>0, <1>1 DEF Call, ChainOK
  <2> QED
    BY <1>1, <2>1 DEF Call, OriginsOK
<1>2. ASSUME UNCHANGED <<request, sent, followed>>, pc = "done" => pc' = "done"
      PROVE  OriginsOK'
  BY <1>2 DEF OriginsOK
<1>3. CASE WriteRequest
  <2>1. /\ sent' = Append(sent, request)
        /\ request' = request /\ followed' = followed
        /\ pc = "write" /\ pc' = "read"
    BY <1>3 DEF WriteRequest, Proceed
  <2>2. Len(sent) = Len(followed) /\ Len(sent) \in Nat
    BY <1>0, <2>1 DEF ChainOK, TypeOK
  <2>3. /\ Len(sent') = Len(sent) + 1
        /\ sent'[Len(sent) + 1] = request
        /\ \A i \in 1..Len(sent) : sent'[i] = sent[i]
    BY <1>0, <2>1, <2>2 DEF TypeOK
  <2>4. Leads(followed, Len(followed), sent'[1].url.origin, request.url.origin)
    <3>1. CASE Len(sent) = 0
      <4>1. sent'[1] = request /\ Len(followed) = 0
        BY <2>2, <2>3, <3>1
      <4> QED
        BY <4>1 DEF Leads
    <3>2. CASE Len(sent) > 0
      <4>1. sent'[1] = sent[1]
        BY <2>2, <2>3, <3>2
      <4> QED
        BY <2>1, <3>2, <4>1 DEF OriginsOK
    <3> QED
      BY <2>2, <3>1, <3>2
  <2>5. ASSUME NEW i \in 1..Len(sent')
        PROVE  Leads(followed, i - 1, sent'[1].url.origin, sent'[i].url.origin)
    <3>1. CASE i \in 1..Len(sent)
      <4>1. sent'[1] = sent[1] /\ sent'[i] = sent[i]
        BY <2>2, <2>3, <3>1
      <4> QED
        BY <3>1, <4>1 DEF OriginsOK
    <3>2. CASE i = Len(sent) + 1
      <4>1. i - 1 = Len(followed) /\ sent'[i] = request
        BY <2>2, <2>3, <3>2
      <4> QED
        BY <2>4, <4>1
    <3> QED
      BY <2>2, <2>3, <3>1, <3>2
  <2> QED
    BY <2>1, <2>4, <2>5 DEF OriginsOK
<1>4. CASE Follow
  <2>1. /\ sent' = sent /\ pc = "answered"
        /\ followed' = Append(followed, [status |-> resp.status,
                                         kind |-> resp.location.kind,
                                         url |-> resp.location.url])
        /\ request'.url = ResolveRedirect(request.url, resp.location)
    BY <1>4 DEF Follow
  <2>2. Len(followed) \in Nat /\ Len(sent) = Len(followed) + 1
    BY <1>0, <2>1 DEF ChainOK, TypeOK
  <2>3. /\ Len(followed') = Len(followed) + 1
        /\ followed'[Len(followed) + 1].kind = resp.location.kind
        /\ followed'[Len(followed) + 1].url = resp.location.url
        /\ \A j \in 1..Len(followed) : followed'[j] = followed[j]
    BY <1>0, <2>1, <2>2 DEF TypeOK
  <2>4. request'.url.origin =
          IF followed'[Len(followed) + 1].kind = "absolute"
          THEN followed'[Len(followed) + 1].url.origin ELSE request.url.origin
    BY <2>1, <2>3 DEF ResolveRedirect
  <2>5. Leads(followed, Len(followed), sent[1].url.origin, request.url.origin)
    BY <2>1, <2>2 DEF OriginsOK
  <2>6. Leads(followed', Len(followed'), sent[1].url.origin,
              request'.url.origin)
    <3> PICK R, S, n, f, g, h :
          /\ R = followed /\ S = followed' /\ n = Len(followed)
          /\ f = sent[1].url.origin /\ g = request.url.origin
          /\ h = request'.url.origin
      OBVIOUS
    <3>1. /\ n \in Nat /\ Len(S) = n + 1
          /\ \A j \in 1..n : S[j] = R[j]
      BY <2>2, <2>3
    <3>2. h = IF S[n + 1].kind = "absolute" THEN S[n + 1].url.origin ELSE g
      BY <2>4
    <3>3. Leads(R, n, f, g)
      BY <2>5
    <3>4. Leads(S, n + 1, f, h)
      BY <3>1, <3>2, <3>3, LeadsOn
    <3> QED
      BY <3>1, <3>4
  <2>7. ASSUME NEW i \in 1..Len(sent)
        PROVE  Leads(followed', i - 1, sent[1].url.origin, sent[i].url.origin)
    <3>1. \A j \in 1..(i - 1) : followed'[j] = followed[j]
      BY <2>2, <2>3
    <3>2. Leads(followed, i - 1, sent[1].url.origin, sent[i].url.origin)
      BY DEF OriginsOK
    <3> QED
      BY <3>1, <3>2, LeadsSame
  <2> QED
    BY <2>1, <2>6, <2>7 DEF OriginsOK
<1>5. CASE ParseUrl \/ Fail \/ Return
  BY <1>0, <1>2, <1>5 DEF ParseUrl, Fail, Return
<1>6. CASE Resolve \/ SetUpTls \/ Connect \/ Handshake
  BY <1>2, <1>6 DEF Resolve, SetUpTls, Connect, Handshake, Proceed
<1>7. ASSUME NEW s \in Status \ {NoStatus},
             NEW l \in Location \cup {NoLocation}, ReadAnswer(s, l)
      PROVE  OriginsOK'
  BY <1>2, <1>7 DEF ReadAnswer
<1>8. CASE ReadNothing
  BY <1>2, <1>8 DEF ReadNothing
<1>9. CASE UNCHANGED vars
  BY <1>2, <1>9 DEF vars
<1> QED
  BY <1>1, <1>3, <1>4, <1>5, <1>6, <1>7, <1>8, <1>9
     DEF Next, Client, Operation

\* Over a chain of redirects of any length, absolute and relative ones mixed,
\* every request goes to the origin that the last absolute location named.
THEOREM OriginPreserved == Spec => []OriginFollowsLocation
<1>1. Init => OriginsOK
  BY DEF Init, OriginsOK
<1>2. IndInv /\ OriginsOK /\ [Next]_vars => OriginsOK'
  BY OriginsStep
<1>3. IndInv /\ OriginsOK => OriginFollowsLocation
  <2> SUFFICES ASSUME IndInv, OriginsOK, NEW i \in DOMAIN sent
               PROVE  LET named == {j \in DOMAIN Before(i) :
                                      Before(i)[j].kind = "absolute"}
                      IN sent[i].url.origin =
                           IF named = {} THEN sent[1].url.origin
                           ELSE Before(i)[Max(named)].url.origin
    BY DEF OriginFollowsLocation
  <2> DEFINE named == {j \in DOMAIN Before(i) : Before(i)[j].kind = "absolute"}
  <2>1. i \in 1..Len(sent) /\ Len(sent) \in Nat /\ Len(followed) \in Nat
    BY DEF IndInv, TypeOK
  <2>2. Len(sent) <= Len(followed) + 1
    BY <2>1 DEF IndInv, TypeOK, ChainOK, Blocking
  <2>3. /\ DOMAIN Before(i) = 1..(i - 1)
        /\ \A j \in 1..(i - 1) : Before(i)[j] = followed[j]
    BY <2>1, <2>2 DEF Before, IndInv, TypeOK
  <2>4. named = {j \in 1..(i - 1) : followed[j].kind = "absolute"}
    BY <2>3
  <2> HIDE DEF named
  <2>5. Leads(followed, i - 1, sent[1].url.origin, sent[i].url.origin)
    BY <2>1 DEF OriginsOK
  <2>6. CASE named = {}
    BY <2>4, <2>5, <2>6 DEF Leads, named
  <2>7. CASE named # {}
    <3>1. PICK j \in 1..(i - 1) :
            /\ followed[j].kind = "absolute"
            /\ \A k \in 1..(i - 1) : j < k => followed[k].kind # "absolute"
            /\ sent[i].url.origin = followed[j].url.origin
      BY <2>4, <2>5, <2>7 DEF Leads
    <3>2. j \in named /\ \A y \in named : j >= y /\ y \in Nat
      BY <2>1, <2>4, <3>1
    <3>3. Max(named) \in named /\ \A y \in named : Max(named) >= y
      BY <3>2, Zenon DEF Max
    <3>4. Max(named) = j
      <4> PICK x : x = Max(named)
        OBVIOUS
      <4>1. x \in Nat /\ j \in Nat /\ x >= j /\ j >= x
        BY <3>2, <3>3
      <4>2. x = j
        BY <4>1
      <4> QED
        BY <4>2
    <3> QED
      BY <2>3, <2>7, <3>1, <3>4 DEF named
  <2> QED
    BY <2>6, <2>7
<1> QED
  BY Invariance, <1>1, <1>2, <1>3, PTL DEF Spec
=============================================================================
