----------------------------- MODULE Kamstrup -----------------------------
(* The Kamstrup smart meter: the management service and the meter service,    *)
(* each with a handler per connection, meet in the databus.  A command that   *)
(* sets reboot_signal makes a greenlet call the observer of the meter, which  *)
(* pretends to restart: its connections are to be closed for two seconds.     *)
(* The usage simulator replaces the registers' values by functions.           *)
EXTENDS KamstrupManagement

CONSTANTS Operators,    \* connections to the management service
          Readers,      \* connections to the meter service
          MaxCommands,  \* bound: commands given
          MaxRequests,  \* bound: pieces the readers send
          MaxInPiece    \* bound: requests that one piece completes

VARIABLES
  data,      \* Databus._data
  notices,   \* greenlets that will call the observers of reboot_signal
  operator,  \* phase of each management connection
  given,     \* commands given so far
  active,    \* server_active of the meter service
  timers,    \* calls of set_reboot_done to come
  reader,    \* phase of each meter connection
  whole,     \* requests of each meter connection that wait in its parser
  served,    \* pieces a reader has been served for while the meter is down
  asked,     \* pieces sent so far
  simulator  \* "waiting" for the databus, or "running"

databusVars == <<data, notices>>
meterVars == <<active, timers, reader, whole, served, asked, simulator>>
kamVars == <<data, notices, operator, given, active, timers, reader, whole, served, asked,
             simulator>>

Keys == {"access_control_status", "access_control_1", "alarm_server_status",
  "alarm_server_ip", "alarm_server_port", "kap_a_server_ip", "kap_a_server_hostname",
  "kap_a_server_port", "kap_b_server_ip", "kap_b_server_port", "use_dhcp", "ip_addr",
  "nameserver_1", "nameserver_2", "nameserver_3", "device_name", "kap_server_lookup",
  "software_watchdog", "kap_missing_warning", "keep_alive_timer", "channel_a_port",
  "channel_b_port", "serial_settings_a", "serial_settings_b",
  "channel_a_connect_socket", "channel_b_connect_socket", "reboot_signal"}

\* Databus.initialize, and the meter's observe_value, before any connection.
KamInit ==
  /\ data = [k \in Keys |-> IF k = "use_dhcp" THEN "NO" ELSE "template"] /\ notices = 0
  /\ operator = [c \in Operators |-> "open"] /\ given = 0
  /\ active = TRUE /\ timers = 0 /\ reader = [c \in Readers |-> "new"]
  /\ whole = [c \in Readers |-> 0] /\ served = [c \in Readers |-> 0] /\ asked = 0
  /\ simulator = "waiting"

(* --------------------------- the management service ---------------------- *)
\* Bound: one command of any kind, and after one that restarts the meter only these,
\* which ask for it again (!SI unless the first was the same).
Restarts == {<<"!RR", <<>>>>, <<"!SI", <<"big">>>>}

Commands ==
  {<<n, <<>>>> : n \in {"!GC", "Q", "!RR"}} \union {<<"!AC", <<"0", "1", "ip">>>>}
    \union {<<n, <<"ip", "port">>>> : n \in {"!SA", "!SK"}}
    \union {<<n, <<"text", "port">>>> : n \in {"!AS", "!SB", "!SP"}}
    \union {<<"!SC", a>> : a \in {<<"1", "ip", "0">>, <<"0", "text", "x">>}}
    \union {<<"!SI", <<t>>>> : t \in {"ip", "big"}} \union {<<"!SN", <<"ip", "big", "text">>>>}
    \union {<<"!SD", <<"x">>>>, <<"!SH", <<"0">>>>, <<"!SS", <<"A", "x">>>>, <<"!RC", <<"B", "x">>>>}

Given == CASE given = 0 -> Commands [] data["reboot_signal"] = "1" -> Restarts
           [] OTHER -> {}

\* A command: its assignments, then 0.25 s before the answer is sent; one that
\* raises ends the handler with what it had stored before.
Command(c, name, args) ==
  LET steps == respond(name, args, data)
  IN  /\ operator[c] = "open" /\ given < MaxCommands /\ given' = given + 1
      /\ data' = Stored(data, steps)
      /\ notices' = notices + (IF Asks(steps, "reboot_signal") THEN 1 ELSE 0)
      /\ operator' = [operator EXCEPT ![c] =
           CASE Len(Made(steps)) < Len(steps) -> "died" [] Quits(name) -> "quitting"
             [] OTHER -> "answering"]
      /\ UNCHANGED meterVars

\* The answer goes out, or there is none and the connection is closed.
Answer(c) ==
  /\ operator[c] \in {"answering", "quitting"}
  /\ operator' = [operator EXCEPT ![c] = IF @ = "quitting" THEN "closed" ELSE "open"]
  /\ UNCHANGED <<databusVars, given, meterVars>>

OperatorLeaves(c) ==
  /\ operator[c] = "open" /\ operator' = [operator EXCEPT ![c] = "closed"]
  /\ UNCHANGED <<databusVars, given, meterVars>>

(* ----------------------------- the databus ------------------------------- *)
Delayed == {"answering", "lowres", "foreign"}
InService == [c \in Readers |-> IF reader[c] \in Delayed THEN 1 ELSE 0]

\* mutant: the meter is put out of service and no one puts it back.
notify_observers_for_good ==
  /\ notices > 0 /\ notices' = notices - 1
  /\ active' = FALSE /\ served' = InService
  /\ UNCHANGED <<data, operator, given, timers, reader, whole, asked, simulator>>

\* notify_observers, in a greenlet of its own: the callback is KamstrupServer.reboot.
notify_observers ==
  /\ notices > 0 /\ notices' = notices - 1
  /\ active' = FALSE /\ timers' = timers + 1 /\ served' = InService
  /\ UNCHANGED <<data, operator, given, reader, whole, asked, simulator>>

\* The simulator takes the registers over once the databus is initialized.
Simulate ==
  /\ simulator = "waiting" /\ simulator' = "running"
  /\ UNCHANGED <<databusVars, operator, given, active, timers, reader, whole, served,
                 asked>>

(* ---------------------------- the meter service -------------------------- *)
set_reboot_done ==
  /\ timers > 0 /\ timers' = timers - 1 /\ active' = TRUE
  /\ served' = [c \in Readers |-> 0]
  /\ UNCHANGED <<databusVars, operator, given, reader, whole, asked, simulator>>

\* A new connection puts the server back in service, restarting or not.
Connect(c) ==
  /\ reader[c] = "new" /\ reader' = [reader EXCEPT ![c] = "open"]
  /\ active' = TRUE /\ served' = [d \in Readers |-> 0]
  /\ UNCHANGED <<databusVars, operator, given, timers, whole, asked, simulator>>

Goes(c, phase) == reader' = [reader EXCEPT ![c] = phase]

Dies(c) == Goes(c, "died") /\ whole' = [whole EXCEPT ![c] = 0]

\* mutant: the loop does not look at server_active.
Again_always == "open"

\* Where the handler goes after a piece: the outer loop looks at server_active.
Again == IF active THEN "open" ELSE "closed"

\* get_request, with n whole requests in the parser.  When there is none left the
\* inner loop ends; otherwise the first is taken: one of an unknown kind fails an
\* assertion, and any other is answered, or passed over, after a delay.  The inner
\* loop does not look at server_active.
Turn(c, n) ==
  \/ n = 0 /\ Goes(c, Again) /\ whole' = [whole EXCEPT ![c] = 0]
  \/ /\ n > 0 /\ whole' = [whole EXCEPT ![c] = n - 1]
     /\ \E phase \in Delayed : Goes(c, phase)
  \/ n > 0 /\ Dies(c)

\* A piece of the stream, which completes some requests or none.
Piece(c) ==
  /\ reader[c] = "open" /\ asked < MaxRequests
  /\ asked' = asked + 1
  /\ served' = IF active THEN served ELSE [served EXCEPT ![c] = @ + 1]
  /\ \E n \in 0..MaxInPiece : Turn(c, whole[c] + n)
  /\ UNCHANGED <<databusVars, operator, given, active, timers, simulator>>

\* After the delay the registers are read and sent, and the next request is taken.
\* The low resolution counters of the simulator are fractions, which cannot be cut
\* into bytes.  After a request for another address the inner loop ends, and what
\* the parser still holds waits for the next piece.
Reply(c) ==
  /\ \/ reader[c] = "lowres" /\ simulator = "running" /\ Dies(c)
     \/ reader[c] = "lowres" /\ simulator = "waiting" /\ Turn(c, whole[c])
     \/ reader[c] = "answering" /\ Turn(c, whole[c])
     \/ reader[c] = "foreign" /\ Goes(c, Again) /\ UNCHANGED whole
  /\ UNCHANGED <<databusVars, operator, given, active, timers, served, asked, simulator>>

ReaderLeaves(c) ==
  /\ reader[c] = "open" /\ Goes(c, "closed") /\ whole' = [whole EXCEPT ![c] = 0]
  /\ UNCHANGED <<databusVars, operator, given, active, timers, served, asked, simulator>>

KamNext ==
  \/ \E c \in Operators :
       (\E cmd \in Given : Command(c, cmd[1], cmd[2])) \/ Answer(c) \/ OperatorLeaves(c)
  \/ notify_observers \/ Simulate \/ set_reboot_done
  \/ \E c \in Readers : Connect(c) \/ Piece(c) \/ Reply(c) \/ ReaderLeaves(c)

\* The hub runs a greenlet that was spawned, and a timer when it is due.
KamSpec ==
  KamInit /\ [][KamNext]_kamVars /\ WF_kamVars(notify_observers) /\ WF_kamVars(set_reboot_done)

(* ------------------------------ properties ------------------------------- *)
\* While the meter pretends to restart, a connection that was open is served for one
\* piece of its stream at most, the one under way or the next, however many requests
\* the piece completes; then the handler ends, whatever the other readers and the
\* restarts asked for meanwhile did.
OnePieceWhileDown == ~active => \A c \in Readers : served[c] <= 1

\* The restart ends: the meter is in service again after every restart asked for.
RestartEnds == ~active ~> active
=============================================================================
