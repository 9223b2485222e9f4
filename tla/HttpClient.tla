----------------------------- MODULE HttpClient -----------------------------
(***************************************************************************)
(* One call of HttpClient (transport/http_client): Get, Post and the       *)
(* others, through HttpClient::do_request with its redirects, down to the  *)
(* blocking operations of impl::do_request and send_and_receive.           *)
(*                                                                         *)
(* A blocking operation of Boost.Beast is one step; it succeeds, fails, or *)
(* goes on for ever.  The deadline set with expires_after() ends none of   *)
(* them: it only applies to asynchronous operations.                       *)
(*                                                                         *)
(* A URL is an origin (protocol, host and port) and a path: the text of    *)
(* Url::path, query included, split at its slashes.                        *)
(***************************************************************************)
EXTENDS Naturals, Sequences, SequencesExt

CONSTANTS
  Origin,       \* protocol, host and port
  Secure,       \* the origins with protocol https
  Segment,      \* names between the slashes of a path
  MaxRedirects  \* options.max_redirects: 5 by default

ASSUME HttpAssumption ==
  /\ Secure \subseteq Origin
  /\ MaxRedirects \in Nat

Method == {"GET", "POST", "PUT", "PATCH", "DELETE", "HEAD"}
Body == {"empty", "json"}
NoStatus == 0
Status == {NoStatus, 200, 301, 302, 303, 307, 308}

InvalidUrl == [origin |-> "invalid", path |-> <<>>]
NoUrl == [origin |-> "none", path |-> <<>>]

VARIABLES
  pc,        \* the operation in progress
  follow,    \* options.follow_redirects
  request,   \* method, url and body of the current do_request
  remaining, \* redirects_remaining
  resp,      \* the http_response
  sent,      \* history: the requests written, in order
  followed   \* history: status, kind and URL of the redirects followed

vars == <<pc, follow, request, remaining, resp, sent, followed>>

Blocking == {"resolve", "tls", "connect", "handshake", "write", "read"}

\* A Location header: the spelling of its name, and the URL or path it holds.
\* A path is "rooted" if it begins with a slash.
NoLocation == [name |-> "none", kind |-> "relative", url |-> NoUrl]
Location ==
  [name : {"Location"}, kind : {"absolute"},
   url : [origin : Origin, path : {<<s>> : s \in Segment}] \cup {InvalidUrl}]
  \cup
  [name : {"location", "LOCATION"}, kind : {"rooted", "relative"},
   url : [origin : {"none"}, path : {<<s>> : s \in Segment}]]

Url == [origin : Origin \cup {"invalid", "none"}, path : Seq(Segment)]
Request == [method : Method, url : Url, body : Body]
Redirect == [status : Status, kind : {"absolute", "rooted", "relative"},
             url : Url]

TypeOK ==
  /\ pc \in Blocking \cup {"idle", "parse", "answered", "done"}
  /\ follow \in BOOLEAN
  /\ request \in Request
  /\ remaining \in 0..MaxRedirects
  /\ resp \in [status : Status, success : BOOLEAN,
               location : Location \cup {NoLocation}]
  /\ sent \in Seq(Request)
  /\ followed \in Seq(Redirect)

NoResponse == [status |-> NoStatus, success |-> FALSE, location |-> NoLocation]

Init ==
  /\ pc = "idle"
  /\ follow \in BOOLEAN
  /\ request = [method |-> "GET", url |-> NoUrl, body |-> "empty"]
  /\ remaining = MaxRedirects
  /\ resp = NoResponse
  /\ sent = <<>>
  /\ followed = <<>>

-----------------------------------------------------------------------------
\* Get(), Post() and the others: only three of them take a body, maybe empty.
Call(m, u, b) ==
  /\ pc = "idle"
  /\ b = "empty" \/ m \in {"POST", "PUT", "PATCH"}
  /\ pc' = "parse"
  /\ request' = [method |-> m, url |-> u, body |-> b]
  /\ UNCHANGED <<follow, remaining, resp, sent, followed>>

\* parse_url(): a URL that does not match ends the request.
ParseUrl ==
  /\ pc = "parse"
  /\ IF request.url = InvalidUrl
     THEN pc' = "done" /\ resp' = NoResponse
     ELSE pc' = "resolve" /\ UNCHANGED resp
  /\ UNCHANGED <<follow, request, remaining, sent, followed>>

-----------------------------------------------------------------------------
(***************************************************************************)
(* impl::do_request and send_and_receive.                                  *)
(***************************************************************************)
IsSecure == request.url.origin \in Secure

\* An operation succeeds and the next one begins.
Proceed(from, to) ==
  /\ pc = from
  /\ pc' = to
  /\ UNCHANGED <<follow, request, remaining, resp, followed>>

Resolve ==
  /\ Proceed("resolve", IF IsSecure THEN "tls" ELSE "connect")
  /\ UNCHANGED sent

\* The stream is created and SNI set.
SetUpTls == Proceed("tls", "connect") /\ UNCHANGED sent

Connect ==
  /\ Proceed("connect", IF IsSecure THEN "handshake" ELSE "write")
  /\ UNCHANGED sent

Handshake == Proceed("handshake", "write") /\ UNCHANGED sent

WriteRequest == Proceed("write", "read") /\ sent' = Append(sent, request)

\* Mutant: a name that does not resolve is looked up again.
FailTriesAgain ==
  /\ pc \in Blocking
  /\ pc' = IF pc = "resolve" THEN "parse" ELSE "done"
  /\ resp' = NoResponse
  /\ UNCHANGED <<follow, request, remaining, sent, followed>>

\* Any operation may fail, with an error code or an exception.
Fail ==
  /\ pc \in Blocking
  /\ pc' = "done"
  /\ resp' = NoResponse
  /\ UNCHANGED <<follow, request, remaining, sent, followed>>

\* The server closes the connection before the first byte of an answer.
\* end_of_stream is no error to the code, and the message released by a parser
\* that saw nothing is the default one, with status 200.
ReadNothing ==
  /\ pc = "read"
  /\ pc' = "answered"
  /\ resp' = [status |-> 200, success |-> TRUE, location |-> NoLocation]
  /\ UNCHANGED <<follow, request, remaining, sent, followed>>

ReadAnswer(s, l) ==
  /\ pc = "read"
  /\ pc' = "answered"
  /\ resp' = [status |-> s, success |-> 200 <= s /\ s < 300, location |-> l]
  /\ UNCHANGED <<follow, request, remaining, sent, followed>>

-----------------------------------------------------------------------------
(***************************************************************************)
(* Redirects: HttpClient::do_request.                                      *)
(***************************************************************************)
IsRedirect(s) == s \in {301, 302, 307, 308}

\* get_headers("Location"), or else get_headers("location"): both compare the
\* whole name, case included.
HasLocation(r) == r.location.name \in {"Location", "location"}

\* Mutant: a location without an origin is taken from the first request.
ResolveAgainstFirst(base, l) ==
  IF l.kind = "absolute" THEN l.url
  ELSE [origin |-> sent[1].url.origin,
        path |-> IF l.kind = "rooted" THEN l.url.path
                 ELSE Front(sent[1].url.path) \o l.url.path]

\* resolve_redirect(): a relative location replaces what follows the last slash.
ResolveRedirect(base, l) ==
  IF l.kind = "absolute" THEN l.url
  ELSE [origin |-> base.origin,
        path |-> IF l.kind = "rooted" THEN l.url.path
                 ELSE Front(base.path) \o l.url.path]

\* Mutant: only 307 keeps the method and the body.
RedirectMethodOnly307(m, s) ==
  IF s # 307 /\ m \in {"POST", "PUT", "PATCH"} THEN "GET" ELSE m

\* 307 and 308 preserve the method, the others turn some into GET.
RedirectMethod(m, s) ==
  IF s \notin {307, 308} /\ m \in {"POST", "PUT", "PATCH"} THEN "GET" ELSE m

RedirectBody(b, s) == IF s \in {307, 308} THEN b ELSE "empty"

MayFollow ==
  /\ follow
  /\ IsRedirect(resp.status)
  /\ remaining > 0
  /\ HasLocation(resp)

\* Mutant: max_redirects is passed on.
CountNothing == remaining

CountDown == remaining - 1

Follow ==
  /\ pc = "answered"
  /\ MayFollow
  /\ pc' = "parse"
  /\ request' = [method |-> RedirectMethod(request.method, resp.status),
                 url |-> ResolveRedirect(request.url, resp.location),
                 body |-> RedirectBody(request.body, resp.status)]
  /\ remaining' = CountDown
  /\ resp' = NoResponse
  /\ followed' = Append(followed, [status |-> resp.status,
                                   kind |-> resp.location.kind,
                                   url |-> resp.location.url])
  /\ UNCHANGED <<follow, sent>>

Return ==
  /\ pc = "answered"
  /\ ~MayFollow
  /\ pc' = "done"
  /\ UNCHANGED <<follow, request, remaining, resp, sent, followed>>

-----------------------------------------------------------------------------
\* URLs given to a call: with one or two segments, or not a URL.
GivenUrl ==
  [origin : Origin,
   path : {<<s>> : s \in Segment} \cup (Segment \X Segment)]
  \cup {InvalidUrl}

Operation ==
  \/ Resolve
  \/ SetUpTls
  \/ Connect
  \/ Handshake
  \/ WriteRequest
  \/ Fail
  \/ ReadNothing
  \/ \E s \in Status \ {NoStatus}, l \in Location \cup {NoLocation} :
       ReadAnswer(s, l)

Client ==
  \/ ParseUrl
  \/ Follow
  \/ Return

Next ==
  \/ \E m \in Method, u \in GivenUrl, b \in Body : Call(m, u, b)
  \/ Client
  \/ Operation
  \/ pc = "done" /\ UNCHANGED vars

Spec == Init /\ [][Next]_vars

\* Every blocking operation ends, with or without success.
FairSpec == Spec /\ WF_vars(Client) /\ WF_vars(Operation)

\* What the client and the operating system see to by themselves: everything
\* but the operations that wait for the server to say something.
WaitsForServer == pc \in {"handshake", "read"}
LocalFairSpec ==
  /\ Spec
  /\ WF_vars(Client)
  /\ WF_vars(~WaitsForServer /\ Operation)

-----------------------------------------------------------------------------
\* However the server redirects, in circles too, a call writes at most
\* max_redirects requests after the first.
HopsBounded == Len(sent) <= MaxRedirects + 1

\* The redirects followed before request i was written.
Before(i) == SubSeq(followed, 1, i - 1)

\* Over the whole chain: a request keeps the caller's method and body as long as
\* every redirect before it was a 307 or 308.  After any other one it has no
\* body, and what would have one is a GET.
MethodFollowsStatus ==
  \A i \in DOMAIN sent :
    LET kept == \A j \in DOMAIN Before(i) : Before(i)[j].status \in {307, 308}
        first == sent[1]
    IN /\ sent[i].body = IF kept THEN first.body ELSE "empty"
       /\ sent[i].method =
            IF kept \/ first.method \in {"GET", "DELETE", "HEAD"}
            THEN first.method ELSE "GET"

\* A request goes to the origin that the last redirect with an absolute location
\* named, or to the caller's: relative locations never leave the current host.
OriginFollowsLocation ==
  \A i \in DOMAIN sent :
    LET named == {j \in DOMAIN Before(i) : Before(i)[j].kind = "absolute"}
    IN sent[i].url.origin =
         IF named = {} THEN sent[1].url.origin
         ELSE Before(i)[Max(named)].url.origin

\* A call returns when every blocking operation ends.
RequestEnds == pc = "parse" ~> pc = "done"

\* "Set timeout for connection", and one more before the write and the read: a
\* server that accepts the connection and says nothing does not block the call.
TimeoutEndsRequest == pc = "read" ~> pc = "done"
=============================================================================
