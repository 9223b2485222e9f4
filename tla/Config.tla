------------------------------- MODULE Config -------------------------------
(***************************************************************************)
(* Config::from_env() (infra/config.h): the settings come from the process *)
(* environment, which load_dotenv() completes from a file of KEY=VALUE     *)
(* lines, and from the defaults compiled in.  Pure operators, used by      *)
(* GatewayMain.                                                            *)
(*                                                                         *)
(* A value is what the conversions tell apart: an empty text, a text that  *)
(* starts with a number (stoi and stod read it), or a word (they throw),   *)
(* such as one that starts with a quote.                                   *)
(* An environment maps the variables that are set to their values.         *)
(***************************************************************************)
EXTENDS Integers, Sequences, TLC, SequencesExt

CONSTANTS
  IntMax,     \* the largest int: 2^31 - 1 in the build
  PortRange   \* the number of values of a uint16_t: 2^16 in the build

ASSUME WidthAssumption ==
  /\ PortRange \in Nat \ {0}
  /\ IntMax \in Nat
  /\ PortRange <= IntMax

Empty == [kind |-> "empty"]
Word(w) == [kind |-> "word", text |-> w]
Number(n) == [kind |-> "number", value |-> n]
Quoted == [kind |-> "quoted"]
Default == [kind |-> "default"]

Value ==
  [kind : {"empty", "quoted"}] \cup [kind : {"word"}, text : STRING]
    \cup [kind : {"number"}, value : Int]

\* The settings by their conversion: env_or, env_int, env_double.
TextSetting ==
  {"VIN_NUMBER", "MQTT_BROKER", "MQTT_CLIENT_ID", "AUTOWARE_GRPC_ADDR",
   "GRPC_LISTEN", "ZENOH_CONNECT", "BASE_URL", "ADMIN_EMAIL",
   "ADMIN_PASSWORD", "ADMIN_FIRST_NAME", "ADMIN_LAST_NAME", "ADMIN_PHONE",
   "VERIFY_CODE", "PLATE_NO", "COLOR", "CAR_COMPANY", "MODEL"}
IntSetting == {"MQTT_PORT", "SEAT_NO"}
DoubleSetting == {"START_LAT", "START_LON"}
Setting == TextSetting \cup IntSetting \cup DoubleSetting

-----------------------------------------------------------------------------
(***************************************************************************)
(* load_dotenv().  A line has a key, "" if it is blank, a comment, without *)
(* '=' or without a key.  Its value is plain, in a pair of quotes, or has  *)
(* an opening quote that nothing closes.                                   *)
(***************************************************************************)
DotenvLine ==
  [key : STRING, quotes : {"none", "pair", "opening"}, value : Value]

\* Blanks at the end and a pair of quotes around the value are removed; a quote
\* that nothing closes stays, and what follows it is no number any more.
LineValue(line) == IF line.quotes = "opening" THEN Quoted ELSE line.value

Put(env, key, value) ==
  [k \in DOMAIN env \cup {key} |-> IF k = key THEN value ELSE env[k]]

\* Mutant: the file overrides the environment.
SetenvOverwrites(env, line) ==
  IF line.key = "" THEN env ELSE Put(env, line.key, LineValue(line))

\* setenv(key, value, 0): a variable that is set, be it by an earlier line or
\* to an empty text, is left alone.
Setenv(env, line) ==
  IF line.key \in DOMAIN env \cup {""} THEN env
  ELSE Put(env, line.key, LineValue(line))

-----------------------------------------------------------------------------
\* getenv(), with an unset variable and an empty one taken for the same.
Getenv(env, key) == IF key \in DOMAIN env THEN env[key] ELSE Empty

EnvOr(env, key) ==
  LET v == Getenv(env, key) IN IF v = Empty THEN Default ELSE v

\* stoi() throws on what is no number and on one that is no int.
EnvInt(env, key) ==
  LET v == Getenv(env, key) IN
    IF v.kind = "number" /\ v.value \in -(IntMax + 1)..IntMax THEN v
    ELSE Default

EnvDouble(env, key) ==
  LET v == Getenv(env, key) IN IF v.kind = "number" THEN v ELSE Default

\* Mutant: a cast to a signed type.
CastSigned(v) ==
  IF v = Default THEN v
  ELSE Number(((v.value + PortRange \div 2) % PortRange) - PortRange \div 2)

\* static_cast<uint16_t>; the default fits.
CastPort(v) == IF v = Default THEN v ELSE Number(v.value % PortRange)

\* The file load_dotenv() reads is chosen by the environment alone; a missing
\* one is one without lines.
DotenvFile(env, files) ==
  LET path == EnvOr(env, "GATEWAY_ENV_FILE") IN
    IF path = Default THEN files.dotenv
    ELSE IF path = Word("named") THEN files.named
    ELSE <<>>

\* from_env() once load_dotenv() is done.
FromEnv(env) ==
  [k \in Setting |->
     IF k \in TextSetting THEN EnvOr(env, k)
     ELSE IF k = "MQTT_PORT" THEN CastPort(EnvInt(env, k))
     ELSE IF k \in IntSetting THEN EnvInt(env, k)
     ELSE EnvDouble(env, k)]
=============================================================================
