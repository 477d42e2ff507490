------------------------ MODULE KamstrupManagement ------------------------
(* The commands of the Kamstrup management service, as what each does to the  *)
(* databus: a sequence of assignments, made one after the other without a     *)
(* switch to another greenlet, until one of them cannot be parsed.  Commands  *)
(* are named as the client writes them.  An argument is a token: an address,  *)
(* a port, one outside the accepted range, or text that is not a number.      *)
EXTENDS Naturals, Sequences

LOCAL INSTANCE SequencesExt

Raises == "raises"
Unspecified == "0.0.0.0"

\* An address of four octets, or 0.0.0.0 when one is out of range; text raises.
parse_ip(token) == CASE token = "ip" -> "ip" [] token = "text" -> Raises
                     [] OTHER -> Unspecified

Is(key, value) == <<[key |-> key, value |-> value]>>
Ip(key, token) == Is(key, parse_ip(token))

\* parse_port gives 0 for what is not a port, and 0 is not stored.
Port(key, args, i) == IF Len(args) >= i /\ args[i] = "port" THEN Is(key, "port") ELSE <<>>

\* try_parse_uint: 0 for anything it does not accept.
Uint(key, args, i) == IF Len(args) < i THEN <<>>
                      ELSE Is(key, IF args[i] = "port" THEN "port" ELSE "0")

AccessControl(args) ==
  CASE args = <<"0">> -> Is("access_control_status", "DISABLED")
    [] args = <<"1">> -> Is("access_control_status", "ENABLED")
    [] Len(args) = 3 /\ args[1] = "0" /\ args[3] # "text" -> Ip("access_control_1", args[3])
    [] OTHER -> <<>>

\* The status is stored before the address is looked at.
AlarmServer(args) ==
  IF args = <<>> THEN <<>>
  ELSE Is("alarm_server_status", "ENABLED") \o Ip("alarm_server_ip", args[1])
         \o Port("alarm_server_port", args, 2)

SetKap1(args) ==
  IF args = <<>> THEN <<>>
  ELSE Ip("kap_a_server_ip", args[1]) \o Is("kap_a_server_hostname", "none")
         \o Port("kap_a_server_port", args, 2)

SetKap2(args) ==
  IF args = <<>> THEN <<>>
  ELSE Ip("kap_b_server_ip", args[1]) \o Port("kap_b_server_port", args, 2)

Reboot == Is("reboot_signal", "1")

\* The ten arguments reduced to three: DHCP or not, the addresses, the host name.
\* With fewer arguments nothing is stored, but the restart is asked for.
SetConfig(args) ==
  (IF Len(args) < 3 THEN <<>>
   ELSE (IF args[1] = "1" THEN Is("use_dhcp", "YES")
         ELSE Is("use_dhcp", "NO") \o Ip("ip_addr", args[2]))
        \o Ip("nameserver_1", args[2])
        \o (IF args[3] = "0" THEN Ip("kap_a_server_ip", args[2]) \o Is("kap_a_server_hostname", "none")
            ELSE Is("kap_a_server_hostname", args[3]) \o Ip("kap_a_server_ip", args[2]))
        \o Is("device_name", "text"))
  \o Reboot

\* A name that is too long is cut, and so is the OK of the answer.
SetDeviceName(args) == Is("device_name", IF args = <<>> THEN "" ELSE args[1]) \o Reboot

SetLookup(args) ==
  IF args = <<>> THEN <<>>
  ELSE Is("kap_server_lookup", IF args[1] \in {"0", "1"} THEN "none" ELSE args[1])

\* 0.0.0.0 turns DHCP on, unless it is on already; another address turns it off.
SetIP(args, data) ==
  CASE args = <<>> -> <<>>
    [] args # <<>> /\ parse_ip(args[1]) # Unspecified ->
         (IF args[1] = "text" THEN Is("use_dhcp", Raises) ELSE Is("use_dhcp", "NO"))
         \o Ip("ip_addr", args[1]) \o Reboot
    [] OTHER -> IF data["use_dhcp"] # "NO" THEN <<>>
                ELSE Is("use_dhcp", "YES") \o Is("ip_addr", "dhcp") \o Reboot

SetWatchdog(args) ==
  Uint("software_watchdog", args, 1) \o Uint("kap_missing_warning", args, 2)
    \o Uint("keep_alive_timer", args, 3)

SetNameserver(args) ==
  IF Len(args) # 3 THEN <<>>
  ELSE Ip("nameserver_1", args[1]) \o Ip("nameserver_2", args[2]) \o Ip("nameserver_3", args[3])

SetPorts(args) ==
  Port("kap_a_server_port", args, 1) \o Port("channel_a_port", args, 2)
    \o Port("channel_b_port", args, 3)

Channel(args, a, b) ==
  CASE Len(args) = 2 /\ args[1] = "A" -> Is(a, args[2])
    [] Len(args) = 2 /\ args[1] = "B" -> Is(b, args[2])
    [] OTHER -> <<>>
SetSerial(args) == Channel(args, "serial_settings_a", "serial_settings_b")
RequestConnect(args) == Channel(args, "channel_a_connect_socket", "channel_b_connect_socket")

\* CommandResponder.respond: the assignments of a command; H, an unknown command
\* and those that only report (!GC, !GV, !WM) make none.
respond(name, args, data) ==
  CASE name = "!AC" -> AccessControl(args) [] name = "!AS" -> AlarmServer(args)
    [] name = "!SA" -> SetKap1(args)       [] name = "!SB" -> SetKap2(args)
    [] name = "!SC" -> SetConfig(args)     [] name = "!SD" -> SetDeviceName(args)
    [] name = "!SH" -> SetLookup(args)     [] name = "!SI" -> SetIP(args, data)
    [] name = "!SK" -> SetWatchdog(args)   [] name = "!SN" -> SetNameserver(args)
    [] name = "!SP" -> SetPorts(args)      [] name = "!SS" -> SetSerial(args)
    [] name = "!RC" -> RequestConnect(args) [] name = "!RR" -> Reboot
    [] OTHER -> <<>>

\* A command that answers nothing is taken for a quit.
Quits(name) == name \in {"Q", "!SC", "!RR"}

\* Databus.set_value, for the assignments that come before one that raises.
Made(steps) ==
  LET bad == {i \in 1..Len(steps) : steps[i].value = Raises}
  IN  SelectSeq([i \in 1..Len(steps) |-> [steps[i] EXCEPT !.value =
                   IF \E j \in bad : j <= i THEN Raises ELSE @]],
                LAMBDA s : s.value # Raises)
Stored(data, steps) == FoldLeft(LAMBDA d, s : [d EXCEPT ![s.key] = s.value], data, Made(steps))
Asks(steps, key) == \E i \in 1..Len(Made(steps)) : Made(steps)[i].key = key
=============================================================================
