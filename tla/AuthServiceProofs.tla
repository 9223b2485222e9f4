-------------------------- MODULE AuthServiceProofs --------------------------
(***************************************************************************)
(* The safety invariants of AuthService, for every number of starts.       *)
(***************************************************************************)
EXTENDS AuthService, TLAPS

(***************************************************************************)
(* The inductive invariant.                                                *)
(***************************************************************************)

\* The POSTs of create_vehicle() so far are paid for by the two retry flags:
\* none before the first, one more after a network failure, two after a new login.
PostsOK ==
  /\ posts <= 4
  /\ pc \in {"login", "signup", "verify", "loginAgain"} =>
       posts = 0 /\ retry = {}
  /\ pc = "create" =>
       posts <= (IF "login" \in retry THEN 2 ELSE 0)
                + (IF "network" \in retry THEN 1 ELSE 0)
                + (IF reply = "none" THEN 0 ELSE 1)
  /\ pc = "relogin" => "login" \notin retry /\ posts <= 2
  /\ pc = "down" => retry = {}

\* Credentials, in memory or on file, come from a vehicle the backend knows.
SourceOK ==
  /\ credentials = "full" => vehicle = "registered"
  /\ file.content = "good" => vehicle = "registered"
  /\ pc = "create" /\ reply = "201" => vehicle = "registered"
  /\ pc \in Saving \cup {"vehicleLogin"} => credentials = "full"
  /\ pc = "down" => credentials = "none"

\* Without a fault, the credentials are on file unless they are in flight.
FileOK ==
  /\ faults = {}
  /\ vehicle = "registered"
  /\ ~CredentialsInFlight
  => file.content = "good"

\* create_vehicle() waits for an answer only if it had a token and no vehicle.
AnswerOK == pc = "create" /\ reply # "none" => token = "held" /\ ~registered

\* Only a gateway that is up is authenticated.
AuthenticatedOK == authenticated => pc = "up"

IndInv ==
  /\ TypeOK
  /\ PostsOK
  /\ SourceOK
  /\ FileOK
  /\ AnswerOK
  /\ AuthenticatedOK
  /\ AccessIsOnFile

-----------------------------------------------------------------------------
\* Nothing was posted and nothing is known.
LEMMA InitIndInv == Init => IndInv
<1> SUFFICES ASSUME Init PROVE IndInv
  OBVIOUS
<1>1. TypeOK
  <2>1. file \in [content : {"absent", "torn", "good"}, access : Nat]
    BY DEF Init
  <2>2. starts \in 1..MaxStarts /\ posts \in 0..MaxPosts
    BY StartsAssumption DEF Init, MaxPosts
  <2>3. registered \in BOOLEAN /\ authenticated \in BOOLEAN
    BY DEF Init
  <2> QED
    BY <2>1, <2>2, <2>3 DEF Init, TypeOK, Post, Reply
<1>2. PostsOK /\ SourceOK /\ FileOK /\ AnswerOK
      /\ AuthenticatedOK /\ AccessIsOnFile
  BY DEF Init, PostsOK, SourceOK, FileOK, AuthenticatedOK, AccessIsOnFile,
         CredentialsInFlight, AnswerOK, Saving
<1> QED
  BY <1>1, <1>2 DEF IndInv

-----------------------------------------------------------------------------
(***************************************************************************)
(* A step of the system: the backend answers, the gateway handles an       *)
(* answer or works on its file, the process ends or starts again.          *)
(***************************************************************************)
LEMMA BackendStep == ASSUME IndInv, Backend PROVE IndInv'
<1> USE DEF IndInv, Answer, backend, memory, history
<1>1. CASE BackendLogin
  <2>1. TypeOK'
    BY <1>1, ZenonT(60)
    DEF TypeOK, BackendLogin, Post, Saving, Reply, Count, MaxPosts
  <2>2. PostsOK'
    BY <1>1 DEF TypeOK, PostsOK, BackendLogin, Count, MaxPosts
  <2>3. SourceOK'
    BY <1>1 DEF TypeOK, SourceOK, BackendLogin, Saving
  <2>4. FileOK' /\ AnswerOK'
    BY <1>1 DEF TypeOK, FileOK, CredentialsInFlight, AnswerOK, BackendLogin
  <2>5. AuthenticatedOK' /\ AccessIsOnFile'
    BY <1>1 DEF AuthenticatedOK, AccessIsOnFile, BackendLogin
  <2> QED
    BY <2>1, <2>2, <2>3, <2>4, <2>5
<1>2. CASE BackendSignup
  <2>1. TypeOK'
    BY <1>2, ZenonT(60)
    DEF TypeOK, BackendSignup, Post, Saving, Reply, Count, MaxPosts
  <2>2. PostsOK'
    BY <1>2 DEF TypeOK, PostsOK, BackendSignup, Count, MaxPosts
  <2>3. SourceOK'
    BY <1>2 DEF TypeOK, SourceOK, BackendSignup, Saving
  <2>4. FileOK' /\ AnswerOK'
    BY <1>2 DEF TypeOK, FileOK, CredentialsInFlight, AnswerOK, BackendSignup
  <2>5. AuthenticatedOK' /\ AccessIsOnFile'
    BY <1>2 DEF AuthenticatedOK, AccessIsOnFile, BackendSignup
  <2> QED
    BY <2>1, <2>2, <2>3, <2>4, <2>5
<1>3. CASE BackendVerify
  <2>1. TypeOK'
    BY <1>3, ZenonT(60)
    DEF TypeOK, BackendVerify, Post, Saving, Reply, Count, MaxPosts
  <2>2. PostsOK'
    BY <1>3 DEF TypeOK, PostsOK, BackendVerify, Count, MaxPosts
  <2>3. SourceOK'
    BY <1>3 DEF TypeOK, SourceOK, BackendVerify, Saving
  <2>4. FileOK' /\ AnswerOK'
    BY <1>3 DEF TypeOK, FileOK, CredentialsInFlight, AnswerOK, BackendVerify
  <2>5. AuthenticatedOK' /\ AccessIsOnFile'
    BY <1>3 DEF AuthenticatedOK, AccessIsOnFile, BackendVerify
  <2> QED
    BY <2>1, <2>2, <2>3, <2>4, <2>5
<1>4. CASE BackendCreate
  <2> DEFINE r == reply'
  <2>1. /\ pc = "create" /\ reply = "none" /\ token = "held" /\ ~registered
        /\ UNCHANGED <<pc, memory, file, starts, admin, issued>>
        /\ posts' = Count(posts)
    BY <1>4, Zenon DEF BackendCreate
  <2>2. \/ vehicle' = "registered" /\ r = "201" /\ faults' = faults
        \/ /\ r \in {"201 malformed", "200", "fail"}
           /\ vehicle' = "registered" /\ faults' = faults \cup {"lost"}
        \/ r \in {"401", "409", "200", "fail"} /\ UNCHANGED <<vehicle, faults>>
    BY <1>4 DEF BackendCreate
  <2> HIDE <1>4
  <2>3. /\ token' = token /\ retry' = retry /\ registered' = registered
        /\ credentials' = credentials /\ access' = access
        /\ authenticated' = authenticated
    BY <2>1
  <2>4. posts' \in 0..MaxPosts /\ posts' <= posts + 1
    BY <2>1 DEF TypeOK, Count, MaxPosts
  <2>5. r \in Reply /\ r # "none"
    BY <2>2 DEF Reply
  <2>6. /\ vehicle' \in {"none", "registered"}
        /\ faults' \subseteq {"killed", "lost", "disk"}
    BY <2>2 DEF TypeOK
  <2>7. TypeOK'
    BY <2>1, <2>3, <2>4, <2>5, <2>6, Zenon DEF TypeOK
  <2>8. posts <= (IF "login" \in retry THEN 2 ELSE 0)
                 + (IF "network" \in retry THEN 1 ELSE 0)
    BY <2>1 DEF TypeOK, PostsOK
  <2>9. PostsOK'
    BY <2>1, <2>3, <2>4, <2>5, <2>8 DEF TypeOK, PostsOK
  <2>10. SourceOK'
    BY <2>1, <2>2, <2>3 DEF TypeOK, SourceOK, Saving
  <2>11. FileOK' /\ AnswerOK'
    <3>1. AnswerOK'
      <4>1. token' = "held"
        BY <2>1, <2>3
      <4>2. ~registered'
        <5>1. ~registered /\ registered' = registered
          BY <2>1, <2>3
        <5> QED
          BY ONLY <5>1
      <4> QED
        BY <4>1, <4>2, Zenon DEF AnswerOK
    <3>2. CASE vehicle' = "registered" /\ r = "201" /\ faults' = faults
      BY <3>1, <3>2, <2>1 DEF FileOK, CredentialsInFlight
    <3>3. CASE faults' = faults \cup {"lost"}
      BY <3>1, <3>3 DEF FileOK
    <3>4. CASE UNCHANGED <<vehicle, faults>>
      <4>1. ~CredentialsInFlight /\ file' = file
        BY <2>1 DEF CredentialsInFlight
      <4> QED
        BY <3>1, <3>4, <4>1, Zenon DEF FileOK
    <3> QED
      BY <2>2, <3>2, <3>3, <3>4
  <2>12. AuthenticatedOK' /\ AccessIsOnFile'
    BY <2>1, <2>3 DEF AuthenticatedOK, AccessIsOnFile
  <2> QED
    BY <2>7, <2>9, <2>10, <2>11, <2>12
<1>5. CASE BackendVehicleLogin
  <2>1. TypeOK'
    <3>1. issued' \in Nat
      BY <1>5 DEF TypeOK, BackendVehicleLogin
    <3>2. reply' \in Reply
      BY <1>5 DEF TypeOK, BackendVehicleLogin, Reply
    <3> QED
      BY <1>5, <3>1, <3>2, ZenonT(60)
      DEF TypeOK, BackendVehicleLogin, Post, Saving, Reply
  <2>2. PostsOK'
    BY <1>5 DEF TypeOK, PostsOK, BackendVehicleLogin, Count, MaxPosts
  <2>3. SourceOK'
    BY <1>5 DEF TypeOK, SourceOK, BackendVehicleLogin, Saving
  <2>4. FileOK' /\ AnswerOK'
    BY <1>5 DEF TypeOK, FileOK, CredentialsInFlight, AnswerOK,
               BackendVehicleLogin
  <2>5. AuthenticatedOK' /\ AccessIsOnFile'
    BY <1>5 DEF AuthenticatedOK, AccessIsOnFile, BackendVehicleLogin
  <2> QED
    BY <2>1, <2>2, <2>3, <2>4, <2>5
<1> QED
  BY <1>1, <1>2, <1>3, <1>4, <1>5 DEF Backend

\* The answers to setup() and to vechile_login(), and what needs no answer.
LEMMA LoginStep ==
  ASSUME IndInv,
         \/ SetupLogin \/ SetupSignup \/ SetupVerify \/ SetupLoginAgain
         \/ CreateSkipped \/ VehicleLogin \/ VehicleLoginDone
  PROVE  IndInv'
<1> USE DEF IndInv, Handle, KeepToken, Load, backend, memory, history
<1>1. CASE SetupLogin
  <2>1. TypeOK'
    BY <1>1, ZenonT(60)
    DEF TypeOK, SetupLogin, Post, Saving, Reply, Count, MaxPosts
  <2>2. PostsOK'
    BY <1>1 DEF TypeOK, PostsOK, SetupLogin, Count, MaxPosts
  <2>3. SourceOK'
    BY <1>1 DEF TypeOK, SourceOK, SetupLogin, Saving
  <2>4. FileOK' /\ AnswerOK'
    BY <1>1 DEF TypeOK, FileOK, CredentialsInFlight, AnswerOK, SetupLogin
  <2>5. AuthenticatedOK' /\ AccessIsOnFile'
    BY <1>1 DEF AuthenticatedOK, AccessIsOnFile, SetupLogin
  <2> QED
    BY <2>1, <2>2, <2>3, <2>4, <2>5
<1>2. CASE SetupSignup
  <2>1. TypeOK'
    BY <1>2, ZenonT(60)
    DEF TypeOK, SetupSignup, Post, Saving, Reply, Count, MaxPosts
  <2>2. PostsOK'
    BY <1>2 DEF TypeOK, PostsOK, SetupSignup, Count, MaxPosts
  <2>3. SourceOK'
    BY <1>2 DEF TypeOK, SourceOK, SetupSignup, Saving
  <2>4. FileOK' /\ AnswerOK'
    BY <1>2 DEF TypeOK, FileOK, CredentialsInFlight, AnswerOK, SetupSignup
  <2>5. AuthenticatedOK' /\ AccessIsOnFile'
    BY <1>2 DEF AuthenticatedOK, AccessIsOnFile, SetupSignup
  <2> QED
    BY <2>1, <2>2, <2>3, <2>4, <2>5
<1>3. CASE SetupVerify
  <2>1. TypeOK'
    BY <1>3, ZenonT(60)
    DEF TypeOK, SetupVerify, Post, Saving, Reply, Count, MaxPosts
  <2>2. PostsOK'
    BY <1>3 DEF TypeOK, PostsOK, SetupVerify, Count, MaxPosts
  <2>3. SourceOK'
    BY <1>3 DEF TypeOK, SourceOK, SetupVerify, Saving
  <2>4. FileOK' /\ AnswerOK'
    BY <1>3 DEF TypeOK, FileOK, CredentialsInFlight, AnswerOK, SetupVerify
  <2>5. AuthenticatedOK' /\ AccessIsOnFile'
    BY <1>3 DEF AuthenticatedOK, AccessIsOnFile, SetupVerify
  <2> QED
    BY <2>1, <2>2, <2>3, <2>4, <2>5
<1>4. CASE SetupLoginAgain
  <2>1. TypeOK'
    BY <1>4, ZenonT(60)
    DEF TypeOK, SetupLoginAgain, Post, Saving, Reply, Count, MaxPosts
  <2>2. PostsOK'
    BY <1>4 DEF TypeOK, PostsOK, SetupLoginAgain, Count, MaxPosts
  <2>3. SourceOK'
    BY <1>4 DEF TypeOK, SourceOK, SetupLoginAgain, Saving
  <2>4. FileOK' /\ AnswerOK'
    BY <1>4 DEF TypeOK, FileOK, CredentialsInFlight, AnswerOK, SetupLoginAgain
  <2>5. AuthenticatedOK' /\ AccessIsOnFile'
    BY <1>4 DEF AuthenticatedOK, AccessIsOnFile, SetupLoginAgain
  <2> QED
    BY <2>1, <2>2, <2>3, <2>4, <2>5
<1>5. CASE CreateSkipped
  <2>1. TypeOK'
    BY <1>5, ZenonT(60)
    DEF TypeOK, CreateSkipped, Post, Saving, Reply, Count, MaxPosts
  <2>2. PostsOK'
    BY <1>5 DEF TypeOK, PostsOK, CreateSkipped, Count, MaxPosts
  <2>3. SourceOK'
    BY <1>5 DEF TypeOK, SourceOK, CreateSkipped, Saving
  <2>4. FileOK' /\ AnswerOK'
    BY <1>5 DEF TypeOK, FileOK, CredentialsInFlight, AnswerOK, CreateSkipped
  <2>5. AuthenticatedOK' /\ AccessIsOnFile'
    BY <1>5 DEF AuthenticatedOK, AccessIsOnFile, CreateSkipped
  <2> QED
    BY <2>1, <2>2, <2>3, <2>4, <2>5
<1>6. CASE VehicleLogin
  <2>1. TypeOK'
    BY <1>6, ZenonT(60)
    DEF TypeOK, VehicleLogin, Post, Saving, Reply, Count, MaxPosts
  <2>2. PostsOK'
    BY <1>6 DEF TypeOK, PostsOK, VehicleLogin, Count, MaxPosts
  <2>3. SourceOK'
    BY <1>6 DEF TypeOK, SourceOK, VehicleLogin, Saving
  <2>4. FileOK' /\ AnswerOK'
    BY <1>6 DEF TypeOK, FileOK, CredentialsInFlight, AnswerOK, VehicleLogin
  <2>5. AuthenticatedOK' /\ AccessIsOnFile'
    BY <1>6 DEF AuthenticatedOK, AccessIsOnFile, VehicleLogin
  <2> QED
    BY <2>1, <2>2, <2>3, <2>4, <2>5
<1>7. CASE VehicleLoginDone
  <2>1. TypeOK'
    <3>1. access' \in Nat
      BY <1>7 DEF TypeOK, VehicleLoginDone
    <3>2. pc' \in Post \cup Saving \cup {"vehicle", "up", "down"}
      BY <1>7 DEF VehicleLoginDone, Saving
    <3>3. reply' \in Reply
      BY <1>7 DEF VehicleLoginDone, Reply
    <3>4. /\ UNCHANGED <<token, retry, registered, credentials, authenticated>>
          /\ UNCHANGED <<file, admin, vehicle, issued, starts, posts, faults>>
      BY <1>7 DEF VehicleLoginDone
    <3> QED
      BY <3>1, <3>2, <3>3, <3>4, ZenonT(60) DEF TypeOK
  <2>2. PostsOK'
    BY <1>7 DEF TypeOK, PostsOK, VehicleLoginDone, Count, MaxPosts
  <2>3. SourceOK'
    BY <1>7 DEF TypeOK, SourceOK, VehicleLoginDone, Saving
  <2>4. FileOK' /\ AnswerOK'
    BY <1>7 DEF TypeOK, FileOK, CredentialsInFlight, AnswerOK, VehicleLoginDone
  <2>5. AuthenticatedOK' /\ AccessIsOnFile'
    BY <1>7 DEF AuthenticatedOK, AccessIsOnFile, VehicleLoginDone
  <2> QED
    BY <2>1, <2>2, <2>3, <2>4, <2>5
<1> QED
  BY <1>1, <1>2, <1>3, <1>4, <1>5, <1>6, <1>7

\* The answers to create_vehicle().
LEMMA CreateStep ==
  ASSUME IndInv,
         \/ Created \/ CreatedMalformed \/ CreateExists \/ CreateUnauthorized
         \/ Relogin \/ CreateFailed \/ CreateOther
  PROVE  IndInv'
<1> USE DEF IndInv, Handle, KeepToken, Load, backend, memory, history
<1>1. CASE Created
  <2>1. TypeOK'
    BY <1>1 DEF TypeOK, Created, Post, Saving, Reply, Count, MaxPosts
  <2>2. PostsOK'
    BY <1>1 DEF TypeOK, PostsOK, Created, Count, MaxPosts
  <2>3. SourceOK'
    BY <1>1 DEF TypeOK, SourceOK, Created, Saving
  <2>4. FileOK' /\ AnswerOK'
    BY <1>1 DEF TypeOK, FileOK, CredentialsInFlight, AnswerOK, Created
  <2>5. AuthenticatedOK' /\ AccessIsOnFile'
    BY <1>1 DEF AuthenticatedOK, AccessIsOnFile, Created
  <2> QED
    BY <2>1, <2>2, <2>3, <2>4, <2>5
<1>2. CASE CreatedMalformed
  <2>1. TypeOK'
    BY <1>2, ZenonT(60)
    DEF TypeOK, CreatedMalformed, Post, Saving, Reply, Count, MaxPosts
  <2>2. PostsOK'
    BY <1>2 DEF TypeOK, PostsOK, CreatedMalformed, Count, MaxPosts
  <2>3. SourceOK'
    BY <1>2 DEF TypeOK, SourceOK, CreatedMalformed, Saving
  <2>4. FileOK' /\ AnswerOK'
    BY <1>2 DEF TypeOK, FileOK, CredentialsInFlight, AnswerOK, CreatedMalformed
  <2>5. AuthenticatedOK' /\ AccessIsOnFile'
    BY <1>2 DEF AuthenticatedOK, AccessIsOnFile, CreatedMalformed
  <2> QED
    BY <2>1, <2>2, <2>3, <2>4, <2>5
<1>3. CASE CreateExists
  <2>1. TypeOK'
    BY <1>3 DEF TypeOK, CreateExists, Post, Saving, Reply, Count, MaxPosts
  <2>2. PostsOK'
    BY <1>3 DEF TypeOK, PostsOK, CreateExists, Count, MaxPosts
  <2>3. SourceOK'
    BY <1>3 DEF TypeOK, SourceOK, CreateExists, Saving
  <2>4. FileOK' /\ AnswerOK'
    BY <1>3 DEF TypeOK, FileOK, CredentialsInFlight, AnswerOK, CreateExists
  <2>5. AuthenticatedOK' /\ AccessIsOnFile'
    BY <1>3 DEF AuthenticatedOK, AccessIsOnFile, CreateExists
  <2> QED
    BY <2>1, <2>2, <2>3, <2>4, <2>5
<1>4. CASE CreateUnauthorized
  <2>1. TypeOK'
    BY <1>4 DEF TypeOK, CreateUnauthorized, Post, Saving, Reply, Count, MaxPosts
  <2>2. PostsOK'
    BY <1>4 DEF TypeOK, PostsOK, CreateUnauthorized, Count, MaxPosts
  <2>3. SourceOK'
    BY <1>4 DEF TypeOK, SourceOK, CreateUnauthorized, Saving
  <2>4. FileOK' /\ AnswerOK'
    BY <1>4 DEF TypeOK, FileOK, CredentialsInFlight, AnswerOK,
               CreateUnauthorized
  <2>5. AuthenticatedOK' /\ AccessIsOnFile'
    BY <1>4 DEF AuthenticatedOK, AccessIsOnFile, CreateUnauthorized
  <2> QED
    BY <2>1, <2>2, <2>3, <2>4, <2>5
<1>5. CASE Relogin
  <2>1. TypeOK'
    BY <1>5, ZenonT(60)
    DEF TypeOK, Relogin, Post, Saving, Reply, Count, MaxPosts
  <2>2. PostsOK'
    BY <1>5 DEF TypeOK, PostsOK, Relogin, Count, MaxPosts
  <2>3. SourceOK'
    BY <1>5 DEF TypeOK, SourceOK, Relogin, Saving
  <2>4. FileOK' /\ AnswerOK'
    BY <1>5 DEF TypeOK, FileOK, CredentialsInFlight, AnswerOK, Relogin
  <2>5. AuthenticatedOK' /\ AccessIsOnFile'
    BY <1>5 DEF AuthenticatedOK, AccessIsOnFile, Relogin
  <2> QED
    BY <2>1, <2>2, <2>3, <2>4, <2>5
<1>6. CASE CreateFailed
  <2>1. TypeOK'
    BY <1>6 DEF TypeOK, CreateFailed, Post, Saving, Reply, Count, MaxPosts
  <2>2. PostsOK'
    BY <1>6 DEF TypeOK, PostsOK, CreateFailed, Count, MaxPosts
  <2>3. SourceOK'
    BY <1>6 DEF TypeOK, SourceOK, CreateFailed, Saving
  <2>4. FileOK' /\ AnswerOK'
    BY <1>6 DEF TypeOK, FileOK, CredentialsInFlight, AnswerOK, CreateFailed
  <2>5. AuthenticatedOK' /\ AccessIsOnFile'
    BY <1>6 DEF AuthenticatedOK, AccessIsOnFile, CreateFailed
  <2> QED
    BY <2>1, <2>2, <2>3, <2>4, <2>5
<1>7. CASE CreateOther
  <2>1. TypeOK'
    BY <1>7 DEF TypeOK, CreateOther, Post, Saving, Reply, Count, MaxPosts
  <2>2. PostsOK'
    BY <1>7 DEF TypeOK, PostsOK, CreateOther, Count, MaxPosts
  <2>3. SourceOK'
    BY <1>7 DEF TypeOK, SourceOK, CreateOther, Saving
  <2>4. FileOK' /\ AnswerOK'
    BY <1>7 DEF TypeOK, FileOK, CredentialsInFlight, AnswerOK, CreateOther
  <2>5. AuthenticatedOK' /\ AccessIsOnFile'
    BY <1>7 DEF AuthenticatedOK, AccessIsOnFile, CreateOther
  <2> QED
    BY <2>1, <2>2, <2>3, <2>4, <2>5
<1> QED
  BY <1>1, <1>2, <1>3, <1>4, <1>5, <1>6, <1>7

\* save_vehicle_credentials(), whatever becomes of it.
LEMMA SaveStep ==
  ASSUME IndInv, OpenFails \/ OpenTruncates \/ Write \/ WriteFails
  PROVE  IndInv'
<1> USE DEF IndInv, AfterSave, backend, memory, history
<1>1. CASE OpenFails
  <2>1. TypeOK'
    <3>1. faults' \subseteq {"killed", "lost", "disk"}
      BY <1>1 DEF TypeOK, OpenFails
    <3>2. authenticated' \in BOOLEAN
      BY <1>1 DEF TypeOK, OpenFails
    <3> QED
      BY <1>1, <3>1, <3>2, ZenonT(60)
      DEF TypeOK, OpenFails, Post, Saving, Reply
  <2>2. PostsOK'
    BY <1>1 DEF TypeOK, PostsOK, OpenFails, Count, MaxPosts
  <2>3. SourceOK'
    BY <1>1 DEF TypeOK, SourceOK, OpenFails, Saving
  <2>4. FileOK' /\ AnswerOK'
    BY <1>1 DEF TypeOK, FileOK, CredentialsInFlight, AnswerOK, OpenFails
  <2>5. AuthenticatedOK' /\ AccessIsOnFile'
    BY <1>1 DEF AuthenticatedOK, AccessIsOnFile, OpenFails
  <2> QED
    BY <2>1, <2>2, <2>3, <2>4, <2>5
<1>2. CASE OpenTruncates
  <2>1. TypeOK'
    BY <1>2, ZenonT(60)
    DEF TypeOK, OpenTruncates, Post, Saving, Reply, Count, MaxPosts
  <2>2. PostsOK'
    BY <1>2 DEF TypeOK, PostsOK, OpenTruncates, Count, MaxPosts
  <2>3. SourceOK'
    BY <1>2 DEF TypeOK, SourceOK, OpenTruncates, Saving
  <2>4. FileOK' /\ AnswerOK'
    BY <1>2 DEF TypeOK, FileOK, CredentialsInFlight, AnswerOK, OpenTruncates
  <2>5. AuthenticatedOK' /\ AccessIsOnFile'
    BY <1>2 DEF AuthenticatedOK, AccessIsOnFile, OpenTruncates
  <2> QED
    BY <2>1, <2>2, <2>3, <2>4, <2>5
<1>3. CASE Write
  <2>1. TypeOK'
    BY <1>3, ZenonT(60) DEF TypeOK, Write, Post, Saving, Reply, Count, MaxPosts
  <2>2. PostsOK'
    BY <1>3 DEF TypeOK, PostsOK, Write, Count, MaxPosts
  <2>3. SourceOK'
    BY <1>3 DEF TypeOK, SourceOK, Write, Saving
  <2>4. FileOK' /\ AnswerOK'
    BY <1>3 DEF TypeOK, FileOK, CredentialsInFlight, AnswerOK, Write
  <2>5. AuthenticatedOK' /\ AccessIsOnFile'
    BY <1>3 DEF AuthenticatedOK, AccessIsOnFile, Write
  <2> QED
    BY <2>1, <2>2, <2>3, <2>4, <2>5
<1>4. CASE WriteFails
  <2>1. TypeOK'
    <3>1. faults' \subseteq {"killed", "lost", "disk"}
      BY <1>4 DEF TypeOK, WriteFails
    <3>2. authenticated' \in BOOLEAN
      BY <1>4 DEF TypeOK, WriteFails
    <3> QED
      BY <1>4, <3>1, <3>2, ZenonT(60)
      DEF TypeOK, WriteFails, Post, Saving, Reply
  <2>2. PostsOK'
    BY <1>4 DEF TypeOK, PostsOK, WriteFails, Count, MaxPosts
  <2>3. SourceOK'
    BY <1>4 DEF TypeOK, SourceOK, WriteFails, Saving
  <2>4. FileOK' /\ AnswerOK'
    BY <1>4 DEF TypeOK, FileOK, CredentialsInFlight, AnswerOK, WriteFails
  <2>5. AuthenticatedOK' /\ AccessIsOnFile'
    BY <1>4 DEF AuthenticatedOK, AccessIsOnFile, WriteFails
  <2> QED
    BY <2>1, <2>2, <2>3, <2>4, <2>5
<1> QED
  BY <1>1, <1>2, <1>3, <1>4

\* A kill at any point, and a start.
LEMMA ProcessStep == ASSUME IndInv, End \/ Start PROVE IndInv'
<1> USE DEF IndInv, backend, memory, history
<1>1. CASE End
  <2>1. TypeOK'
    BY <1>1 DEF TypeOK, End, Post, Saving, Reply, Count, MaxPosts
  <2>2. PostsOK'
    BY <1>1 DEF TypeOK, PostsOK, End, Count, MaxPosts
  <2>3. SourceOK'
    BY <1>1 DEF TypeOK, SourceOK, End, Saving
  <2>4. FileOK' /\ AnswerOK'
    BY <1>1 DEF TypeOK, FileOK, CredentialsInFlight, AnswerOK, End
  <2>5. AuthenticatedOK' /\ AccessIsOnFile'
    BY <1>1 DEF AuthenticatedOK, AccessIsOnFile, End
  <2> QED
    BY <2>1, <2>2, <2>3, <2>4, <2>5
<1>2. CASE Start
  <2>1. TypeOK'
    <3>1. starts' \in 1..MaxStarts
      BY <1>2, StartsAssumption DEF TypeOK, Start
    <3>2. posts' \in 0..MaxPosts
      BY <1>2 DEF TypeOK, Start, MaxPosts
    <3>3. pc' \in Post
      BY <1>2 DEF Start, Post
    <3>4. UNCHANGED <<reply, token, retry, registered, credentials, access,
                      authenticated, file, admin, vehicle, issued, faults>>
      BY <1>2 DEF Start
    <3> QED
      BY <3>1, <3>2, <3>3, <3>4, Zenon DEF TypeOK
  <2>2. PostsOK'
    BY <1>2 DEF TypeOK, PostsOK, Start, Count, MaxPosts
  <2>3. SourceOK'
    BY <1>2 DEF TypeOK, SourceOK, Start, Saving
  <2>4. FileOK' /\ AnswerOK'
    BY <1>2 DEF TypeOK, FileOK, CredentialsInFlight, AnswerOK, Start
  <2>5. AuthenticatedOK' /\ AccessIsOnFile'
    BY <1>2 DEF AuthenticatedOK, AccessIsOnFile, Start
  <2> QED
    BY <2>1, <2>2, <2>3, <2>4, <2>5
<1> QED
  BY <1>1, <1>2

\* The invariant holds in every reachable state.
LEMMA Invariance == Spec => []IndInv
<1>1. ASSUME IndInv, UNCHANGED vars PROVE IndInv'
  BY <1>1 DEF IndInv, TypeOK, PostsOK, SourceOK, FileOK, AuthenticatedOK,
              AccessIsOnFile, CredentialsInFlight, AnswerOK, vars, memory,
              backend, history
<1>2. IndInv /\ [Next]_vars => IndInv'
  BY <1>1, BackendStep, LoginStep, CreateStep, SaveStep, ProcessStep
     DEF Next, Gateway
<1> QED
  BY InitIndInv, <1>2, PTL DEF Spec

-----------------------------------------------------------------------------
\* The two retry flags of create_vehicle() bound its recursion: at most four
\* requests per start, however expired tokens and failures alternate.
THEOREM RetriesBounded == Spec => []AtMostFourPosts
<1>1. IndInv => AtMostFourPosts
  BY DEF IndInv, PostsOK, AtMostFourPosts
<1> QED
  BY Invariance, <1>1, PTL

\* After any number of kills and restarts, credentials that were handed out are
\* on file unless one of the recorded faults lost them.
THEOREM CredentialsKept == Spec => []CredentialsSurvive
<1>1. IndInv => CredentialsSurvive
  BY DEF IndInv, FileOK, CredentialsSurvive, CredentialsInFlight
<1> QED
  BY Invariance, <1>1, PTL

\* vechile_login() sends only a full pair that the backend handed out, from
\* memory or from the file of any earlier start.
THEOREM LoginComplete == Spec => []LoginHasCredentials
<1>1. IndInv => LoginHasCredentials
  BY DEF IndInv, SourceOK, LoginHasCredentials, Saving
<1> QED
  BY Invariance, <1>1, PTL

\* An authenticated gateway has its access token on file, but for disk errors.
THEOREM AccessSaved == Spec => []AccessIsOnFile
<1>1. IndInv => AccessIsOnFile
  BY DEF IndInv
<1> QED
  BY Invariance, <1>1, PTL
=============================================================================
