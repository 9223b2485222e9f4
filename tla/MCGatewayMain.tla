---------------------------- MODULE MCGatewayMain ----------------------------
(***************************************************************************)
(* GatewayMain for TLC: environments and files around one setting of each  *)
(* conversion.                                                             *)
(***************************************************************************)
EXTENDS GatewayMain

Line(k, q, v) == [key |-> k, quotes |-> q, value |-> v]

MCEnvironments ==
  {<<>>,
   "GRPC_LISTEN" :> Empty,
   "GRPC_LISTEN" :> Word("other"),
   "MQTT_PORT" :> Number(PortRange + 80),
   "MQTT_PORT" :> Number(-1),
   "MQTT_PORT" :> Word("mqtt"),
   "GATEWAY_ENV_FILE" :> Word("named"),
   "GATEWAY_ENV_FILE" :> Word("missing"),
   ("GATEWAY_ENV_FILE" :> Empty) @@ ("MQTT_PORT" :> Number(IntMax + 1))}

MCLines ==
  {Line("GRPC_LISTEN", "none", Word("unusable")),
   Line("GRPC_LISTEN", "pair", Word("other")),
   Line("GRPC_LISTEN", "none", Empty),
   Line("MQTT_PORT", "pair", Number(80)),
   Line("MQTT_PORT", "opening", Number(80)),
   Line("START_LAT", "none", Number(35)),
   Line("GATEWAY_ENV_FILE", "none", Word("named")),
   Line("", "none", Empty)}

\* Two lines in ".env", and one in the other file.
MCDotenvFiles ==
  {[dotenv |-> <<a, b>>, named |-> <<Line("GRPC_LISTEN", "none", Word("third"))>>] :
     a \in MCLines, b \in MCLines}
=============================================================================
