----------------------------- MODULE AuthService -----------------------------
(***************************************************************************)
(* The start-up of the gateway: AuthService (services/auth_services) as    *)
(* main() drives it: setup(), create_vehicle(), vechile_login(), and then  *)
(* the gRPC server.  The vehicle's credentials are handed out once, by the *)
(* reply to create_vehicle(), and kept in a file for later starts.         *)
(*                                                                         *)
(* A POST is two steps: the backend (external) handles it and answers, the *)
(* gateway handles the answer.  The process may be killed between any two  *)
(* steps; the backend and the file survive.                                *)
(***************************************************************************)
EXTENDS Naturals

CONSTANT MaxStarts   \* bound on the starts of the process

ASSUME StartsAssumption == MaxStarts \in Nat \ {0}

VARIABLES
  pc,            \* where main() is; the POST in progress, if any
  reply,         \* the answer to the POST in progress
  token,         \* token_
  retry,         \* retry_after_login and retry_after_network, as a set
  registered,    \* vehicle_registered_
  credentials,   \* vechile_api_key_ and vechile_api_secret_
  access,        \* vechile_access_token_, 0 if empty
  authenticated, \* vechile_authenticated_
  file,          \* vehicle_credentials.json
  admin,         \* backend: the admin account
  vehicle,       \* backend: the vehicle
  issued,        \* backend: the vehicle access tokens handed out
  starts,        \* number of starts so far
  posts,         \* history: POSTs of /api/vehicles in this start
  faults         \* history: what may have lost the credentials

memory == <<token, retry, registered, credentials, access, authenticated>>
backend == <<admin, vehicle, issued>>
history == <<starts, posts>>
vars == <<pc, reply, memory, file, backend, history, faults>>

Post == {"login", "signup", "verify", "loginAgain", "create", "relogin",
         "vehicleLogin"}
Saving == {"openCreated", "writeCreated", "openLogin", "writeLogin"}

\* What a POST comes back with.  "200" without a body is also what HttpClient
\* makes of a connection closed before the first byte; "fail" is every other
\* answer without success, no connection and a malformed body included.
Reply == {"none", "ok", "200", "201", "201 malformed", "401", "409", "fail"}

MaxPosts == 5   \* posts saturates here
Count(n) == IF n < MaxPosts THEN n + 1 ELSE n

TypeOK ==
  /\ pc \in Post \cup Saving \cup {"vehicle", "up", "down"}
  /\ reply \in Reply
  /\ token \in {"none", "held"}
  /\ retry \subseteq {"login", "network"}
  /\ registered \in BOOLEAN
  /\ credentials \in {"none", "partial", "full"}
  /\ access \in Nat
  /\ authenticated \in BOOLEAN
  /\ file \in [content : {"absent", "torn", "good"}, access : Nat]
  /\ admin \in {"none", "unverified", "verified"}
  /\ vehicle \in {"none", "registered"}
  /\ issued \in Nat
  /\ starts \in 1..MaxStarts
  /\ posts \in 0..MaxPosts
  /\ faults \subseteq {"killed", "lost", "disk"}

Init ==
  /\ pc = "login"
  /\ reply = "none"
  /\ token = "none"
  /\ retry = {}
  /\ registered = FALSE
  /\ credentials = "none"
  /\ access = 0
  /\ authenticated = FALSE
  /\ file = [content |-> "absent", access |-> 0]
  /\ admin \in {"none", "unverified", "verified"}
  /\ vehicle = "none"
  /\ issued = 0
  /\ starts = 1
  /\ posts = 0
  /\ faults = {}

-----------------------------------------------------------------------------
(***************************************************************************)
(* The backend, modelled from how auth_services.cc uses it.                *)
(***************************************************************************)
Answer(r) ==
  /\ reply = "none"
  /\ reply' = r
  /\ UNCHANGED <<pc, memory, file, starts>>

BackendLogin ==
  /\ pc \in {"login", "loginAgain", "relogin"}
  /\ (Answer("ok") /\ admin = "verified") \/ Answer("fail")
  /\ UNCHANGED <<backend, posts, faults>>

BackendSignup ==
  /\ pc = "signup"
  /\ \/ /\ admin = "none" /\ admin' = "unverified"
        /\ Answer("201") \/ Answer("fail")
     \/ admin # "none" /\ Answer("409") /\ UNCHANGED admin
     \/ Answer("fail") /\ UNCHANGED admin
  /\ UNCHANGED <<vehicle, issued, posts, faults>>

BackendVerify ==
  /\ pc = "verify"
  /\ \/ admin' = "verified" /\ (Answer("200") \/ Answer("fail"))
     \/ UNCHANGED admin /\ (Answer("200") \/ Answer("fail"))
  /\ UNCHANGED <<vehicle, issued, posts, faults>>

\* The vehicle is created once.  The only answer with its credentials may be
\* lost or malformed.
BackendCreate ==
  /\ pc = "create" /\ token = "held" /\ ~registered
  /\ \/ /\ vehicle = "none" /\ vehicle' = "registered"
        /\ \/ Answer("201") /\ UNCHANGED faults
           \/ \E r \in {"201 malformed", "200", "fail"} :
                Answer(r) /\ faults' = faults \cup {"lost"}
     \/ /\ vehicle = "registered" /\ Answer("409")
        /\ UNCHANGED <<vehicle, faults>>
     \/ /\ \E r \in {"401", "200", "fail"} : Answer(r)
        /\ UNCHANGED <<vehicle, faults>>
  /\ posts' = Count(posts)
  /\ UNCHANGED <<admin, issued>>

BackendVehicleLogin ==
  /\ pc = "vehicleLogin"
  /\ \/ /\ vehicle = "registered" /\ credentials = "full"
        /\ Answer("ok") \/ Answer("fail")
        /\ issued' = issued + 1
     \/ Answer("fail") /\ UNCHANGED issued
  /\ UNCHANGED <<admin, vehicle, posts, faults>>

-----------------------------------------------------------------------------
(***************************************************************************)
(* setup(): login, or else signup, verify_code and login again.  main()    *)
(* goes on to create_vehicle() whatever setup() returns.                   *)
(***************************************************************************)

\* The gateway handles the answer to the POST p and goes on at next.
Handle(p, next) ==
  /\ pc = p
  /\ reply # "none"
  /\ pc' = next
  /\ reply' = "none"
  /\ UNCHANGED <<file, backend, starts, posts, faults>>

\* login() stores the token on success.
KeepToken == token' = IF reply = "ok" THEN "held" ELSE token

SetupLogin ==
  /\ Handle("login", IF reply = "ok" THEN "create" ELSE "signup")
  /\ KeepToken
  /\ UNCHANGED <<retry, registered, credentials, access, authenticated>>

SetupSignup ==
  /\ Handle("signup", IF reply \in {"201", "409"} THEN "verify" ELSE "create")
  /\ UNCHANGED memory

SetupVerify ==
  /\ Handle("verify", IF reply = "200" THEN "loginAgain" ELSE "create")
  /\ UNCHANGED memory

SetupLoginAgain ==
  /\ Handle("loginAgain", "create")
  /\ KeepToken
  /\ UNCHANGED <<retry, registered, credentials, access, authenticated>>

-----------------------------------------------------------------------------
(***************************************************************************)
(* create_vehicle(), one action per answer.                                *)
(***************************************************************************)

\* Registered already, or no token: nothing is sent.
CreateSkipped ==
  /\ pc = "create"
  /\ registered \/ token = "none"
  /\ pc' = "vehicle"
  /\ UNCHANGED <<reply, memory, file, backend, history, faults>>

\* Mutant: the credentials are not saved.
CreatedNotSaved ==
  /\ reply = "201"
  /\ Handle("create", "vehicle")
  /\ registered' = TRUE
  /\ credentials' = "full"
  /\ UNCHANGED <<token, retry, access, authenticated>>

\* 201: the credentials are taken from the answer and saved.
Created ==
  /\ reply = "201"
  /\ Handle("create", "openCreated")
  /\ registered' = TRUE
  /\ credentials' = "full"
  /\ UNCHANGED <<token, retry, access, authenticated>>

\* 201, but apiKey or apiSecret cannot be read: an exception, after
\* vehicle_registered_ was set and maybe after the key was stored.
CreatedMalformed ==
  /\ reply = "201 malformed"
  /\ Handle("create", "vehicle")
  /\ registered' = TRUE
  /\ credentials' \in {credentials, "partial"}
  /\ UNCHANGED <<token, retry, access, authenticated>>

\* load_vehicle_credentials(): both, and the access token, or nothing.
Load ==
  IF file.content = "good"
  THEN credentials' = "full" /\ access' = file.access
  ELSE UNCHANGED <<credentials, access>>

\* 409: an earlier start created the vehicle, its credentials are on file.
CreateExists ==
  /\ reply = "409"
  /\ Handle("create", "vehicle")
  /\ Load
  /\ registered' = (file.content = "good")
  /\ UNCHANGED <<token, retry, authenticated>>

\* 401: the token expired.  Log in again, once.
CreateUnauthorized ==
  /\ reply = "401"
  /\ Handle("create", IF "login" \in retry THEN "vehicle" ELSE "relogin")
  /\ token' = IF "login" \in retry THEN token ELSE "none"
  /\ UNCHANGED <<retry, registered, credentials, access, authenticated>>

\* Mutant: create_vehicle() is called again without retry_after_login.
ReloginForgets ==
  /\ Handle("relogin", IF reply = "ok" THEN "create" ELSE "vehicle")
  /\ KeepToken
  /\ retry' = {}
  /\ UNCHANGED <<registered, credentials, access, authenticated>>

\* create_vehicle(true): retry_after_network is back at its default, false.
Relogin ==
  /\ Handle("relogin", IF reply = "ok" THEN "create" ELSE "vehicle")
  /\ KeepToken
  /\ retry' = {"login"}
  /\ UNCHANGED <<registered, credentials, access, authenticated>>

\* No success and none of the codes above: try again, once.
CreateFailed ==
  /\ reply = "fail"
  /\ Handle("create", IF "network" \in retry THEN "vehicle" ELSE "create")
  /\ retry' = retry \cup {"network"}
  /\ UNCHANGED <<token, registered, credentials, access, authenticated>>

\* Any other code with success.
CreateOther ==
  /\ reply = "200"
  /\ Handle("create", "vehicle")
  /\ UNCHANGED memory

-----------------------------------------------------------------------------
(***************************************************************************)
(* vechile_login(), and save_vehicle_credentials().                        *)
(***************************************************************************)

\* Mutant: the result of load_vehicle_credentials() is not looked at.
VehicleLoginLoadIgnored ==
  /\ pc = "vehicle"
  /\ pc' = "vehicleLogin"
  /\ IF credentials = "full" THEN UNCHANGED <<credentials, access>> ELSE Load
  /\ UNCHANGED <<reply, token, retry, registered, authenticated, file, backend,
                 history, faults>>

\* Without both credentials in memory, they are loaded; without a good file the
\* login is given up, and main() starts the gRPC server.
VehicleLogin ==
  /\ pc = "vehicle"
  /\ IF credentials = "full" THEN UNCHANGED <<credentials, access>> ELSE Load
  /\ pc' = IF credentials' = "full" THEN "vehicleLogin" ELSE "up"
  /\ UNCHANGED <<reply, token, retry, registered, authenticated, file, backend,
                 history, faults>>

VehicleLoginDone ==
  /\ Handle("vehicleLogin", IF reply = "ok" THEN "openLogin" ELSE "up")
  /\ access' = IF reply = "ok" THEN issued ELSE access
  /\ UNCHANGED <<token, retry, registered, credentials, authenticated>>

\* After a save, whatever its result: create_vehicle() returns, or
\* vechile_login() notes that the vehicle is authenticated.
AfterSave ==
  IF pc \in {"openCreated", "writeCreated"}
  THEN pc' = "vehicle" /\ UNCHANGED authenticated
  ELSE pc' = "up" /\ authenticated' = TRUE

\* The file cannot be opened.
OpenFails ==
  /\ pc \in {"openCreated", "openLogin"}
  /\ AfterSave
  /\ faults' = faults \cup {"disk"}
  /\ UNCHANGED <<reply, token, retry, registered, credentials, access, file,
                 backend, history>>

\* Opening the file truncates it.
OpenTruncates ==
  /\ pc \in {"openCreated", "openLogin"}
  /\ pc' = IF pc = "openCreated" THEN "writeCreated" ELSE "writeLogin"
  /\ file' = [content |-> "torn", access |-> 0]
  /\ UNCHANGED <<reply, memory, backend, history, faults>>

\* Mutant: the access token is left out of the file.
WriteWithoutAccess ==
  /\ pc \in {"writeCreated", "writeLogin"}
  /\ AfterSave
  /\ file' = [content |-> "good", access |-> 0]
  /\ UNCHANGED <<reply, token, retry, registered, credentials, access, backend,
                 history, faults>>

\* The text is written and the file closed.
Write ==
  /\ pc \in {"writeCreated", "writeLogin"}
  /\ AfterSave
  /\ file' = [content |-> "good", access |-> access]
  /\ UNCHANGED <<reply, token, retry, registered, credentials, access, backend,
                 history, faults>>

\* Not all of it reaches the disk; the state of the stream is not looked at.
WriteFails ==
  /\ pc \in {"writeCreated", "writeLogin"}
  /\ AfterSave
  /\ faults' = faults \cup {"disk"}
  /\ UNCHANGED <<reply, token, retry, registered, credentials, access, file,
                 backend, history>>

-----------------------------------------------------------------------------
\* The credentials are in the process only, or half written.
CredentialsInFlight ==
  \/ pc = "create" /\ reply = "201"
  \/ pc \in {"openCreated", "writeCreated", "writeLogin"}

\* The process ends: killed during start-up, or stopped once it is up.
End ==
  /\ pc # "down"
  /\ pc' = "down"
  /\ reply' = "none"
  /\ token' = "none" /\ retry' = {} /\ registered' = FALSE
  /\ credentials' = "none" /\ access' = 0 /\ authenticated' = FALSE
  /\ faults' = IF CredentialsInFlight THEN faults \cup {"killed"} ELSE faults
  /\ UNCHANGED <<file, backend, history>>

Start ==
  /\ pc = "down"
  /\ starts < MaxStarts
  /\ pc' = "login"
  /\ starts' = starts + 1
  /\ posts' = 0
  /\ UNCHANGED <<reply, memory, file, backend, faults>>

Backend ==
  \/ BackendLogin
  \/ BackendSignup
  \/ BackendVerify
  \/ BackendCreate
  \/ BackendVehicleLogin

Gateway ==
  \/ SetupLogin
  \/ SetupSignup
  \/ SetupVerify
  \/ SetupLoginAgain
  \/ CreateSkipped
  \/ Created
  \/ CreatedMalformed
  \/ CreateExists
  \/ CreateUnauthorized
  \/ Relogin
  \/ CreateFailed
  \/ CreateOther
  \/ VehicleLogin
  \/ VehicleLoginDone
  \/ OpenFails
  \/ OpenTruncates
  \/ Write
  \/ WriteFails

Next ==
  \/ Backend
  \/ Gateway
  \/ End
  \/ Start
  \/ pc = "down" /\ UNCHANGED vars

Spec == Init /\ [][Next]_vars

\* The gateway's thread runs, and every POST is answered or fails.
FairSpec == Spec /\ WF_vars(Gateway) /\ WF_vars(Backend)

-----------------------------------------------------------------------------
\* However failures and expired tokens alternate, one start sends at most four
\* requests to create the vehicle: the two retry flags bound the recursion.
AtMostFourPosts == posts <= 4

\* Unless the only answer with them was lost or unreadable, a disk error kept
\* them from the file, or the process was killed while they were in flight, the
\* credentials of a vehicle the backend knows are on file outside of the two
\* saves: kills at any other point and restarts do not lose them.
CredentialsSurvive ==
  /\ faults = {}
  /\ vehicle = "registered"
  /\ pc \in {"vehicle", "vehicleLogin", "up", "down", "login"}
  => file.content = "good"

\* vechile_login() never sends an empty or half of a pair of credentials, nor
\* any the backend did not hand out.
LoginHasCredentials ==
  pc = "vehicleLogin" => credentials = "full" /\ vehicle = "registered"

\* Unless a disk error kept it from being written, the access token of an
\* authenticated gateway is the one on file for the next start.
AccessIsOnFile ==
  /\ pc = "up" /\ authenticated
  /\ "disk" \notin faults
  => file = [content |-> "good", access |-> access]

\* Start-up ends, with or without authentication, when every POST is answered.
StartupEnds == pc = "login" ~> pc \in {"up", "down"}
=============================================================================
