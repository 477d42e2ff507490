---------------------------- MODULE MCEventPost ----------------------------
(* Instances of EventPost for TLC: records of one and two bytes; all but   *)
(* the third ask the same.                                                 *)
EXTENDS EventPost

MCSizeOf == <<2, 1, 2, 2>>
MCPdu == <<"read", "read", "write", "read">>

=============================================================================
