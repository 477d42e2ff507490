------------------------- MODULE MCEventPipeline -------------------------
(***************************************************************************)
(* The instance of EventPipeline for TLC: two modbus clients behind one    *)
(* address, and a client of the proxy; a second is two ticks, the session  *)
(* timeout one second.                                                     *)
(***************************************************************************)
EXTENDS EventPipeline

CONSTANTS c1, c2, c3

MCProtoOf == c1 :> "modbus" @@ c2 :> "modbus" @@ c3 :> "proxy"
MCSrcOf   == c1 :> "near"   @@ c2 :> "near"   @@ c3 :> "near"
MCQuiet   == {"proxy", "http", "snmp"}
MCServers == <<"modbus", "log_worker", "proxy">>
MCSinks   == <<"sqlite", "json">>

BothWays  == {1, -2}   \* the clock moves on, and is set back now and then

=============================================================================
