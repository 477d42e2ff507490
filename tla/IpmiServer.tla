---------------------------- MODULE IpmiServer ----------------------------
(* The IPMI server (protocols/ipmi): one FakeSession is "the" session of the  *)
(* server, whichever client opened it, and what the handshake exchanges is    *)
(* kept on the server as well.  A datagram is handled in one go.  Contents    *)
(* are reduced to who could have made them: a code under the key of client c  *)
(* is c's.                                                                    *)
EXTENDS Naturals

CONSTANTS IpmiClients,   \* sources of datagrams, each with an account
          MaxPriv        \* bound: highest privilege level

VARIABLES
  listed,   \* self.sessions: addresses that have a session
  session,  \* self.session, or None
  shaken,   \* the handshake's fields on the server
  bmc       \* FakeBmc: power; and which account is enabled

ipmiVars == <<listed, session, shaken, bmc>>

Nobody == "nobody"
None == [peer |-> Nobody, stage |-> 0, v2 |-> FALSE, k1 |-> Nobody]
NewSession(c) == [None EXCEPT !.peer = c]
HasSession == session # None

IpmiInit ==
  /\ listed = {} /\ session = None
  /\ shaken = [open |-> Nobody, rakp1 |-> Nobody, kg |-> Nobody,
               max |-> 0, priv |-> 0]
  /\ bmc = [power |-> "off", enabled |-> TRUE]

\* mutant: the address is forgotten and the session is not.
close_server_session_kept(c) == UNCHANGED session /\ listed' = listed \ {session.peer}

\* close_server_session forgets the session and its address, whoever made it close.
close_server_session(c) == session' = None /\ listed' = listed \ {session.peer}

(* --------------------------- a new source -------------------------------- *)
IsNew(c) == c \notin listed \/ ~HasSession

\* initiate_session of something else than a query of the capabilities: it is
\* closed at once, or left at stage 0 to be closed by the next datagram.
NewIgnored(c) ==
  /\ IsNew(c) /\ shaken' = [shaken EXCEPT !.kg = Nobody] /\ UNCHANGED bmc
  /\ \/ session' = None /\ listed' = listed \ {c}
     \/ session' = NewSession(c) /\ listed' = listed \union {c}

\* Get Channel Authentication Capabilities: send_auth_cap.
NewAuthCap(c, v2) ==
  /\ IsNew(c) /\ listed' = listed \union {c}
  /\ session' = [NewSession(c) EXCEPT !.stage = 1, !.v2 = v2]
  /\ shaken' = [shaken EXCEPT !.kg = Nobody] /\ UNCHANGED bmc

(* -------------------------- a known source ------------------------------- *)
Known(c) == ~IsNew(c) /\ session.stage > 0

StageZero(c) ==
  /\ ~IsNew(c) /\ session.stage = 0 /\ close_server_session(c)
  /\ UNCHANGED <<shaken, bmc>>

\* Unrecognised, not authenticated, stale, or under another key: closed.
Dropped(c) == Known(c) /\ close_server_session(c) /\ UNCHANGED <<shaken, bmc>>

V2 == [session EXCEPT !.v2 = TRUE]

\* Open Session Request: the ids of both sides.
got_rmcp_openrequest(c) ==
  /\ Known(c) /\ session' = V2 /\ shaken' = [shaken EXCEPT !.open = c]
  /\ UNCHANGED <<listed, bmc>>

\* RAKP 1: an unknown user closes; without an open request there is no answer.
got_rakp1(c, max) ==
  /\ Known(c) /\ UNCHANGED bmc
  /\ \/ close_server_session(c) /\ shaken' = [shaken EXCEPT !.max = max]
     \/ /\ session' = V2 /\ UNCHANGED listed
        /\ shaken' = IF shaken.open = Nobody THEN [shaken EXCEPT !.max = max]
                     ELSE [shaken EXCEPT !.rakp1 = c, !.max = max,
                             !.kg = IF @ = Nobody THEN c ELSE @]

\* RAKP 3: the keys are made first, then the client's code is compared.  The key
\* of the first user tried since the session began stays in kg.
got_rakp3(c) ==
  /\ Known(c) /\ shaken.rakp1 # Nobody /\ UNCHANGED <<shaken, bmc>>
  /\ IF shaken.rakp1 = c /\ shaken.open = c
     THEN /\ session' = [V2 EXCEPT !.k1 = IF shaken.kg = c THEN c ELSE "mixed"]
          /\ UNCHANGED listed
     ELSE close_server_session(c)

(* ------------------------ handle_client_request -------------------------- *)
\* What reaches the callback: a plain 1.5 request while the session has not
\* spoken 2.0, a 2.0 request before the keys exist, or one under the session's key.
Plain(c) == Known(c) /\ ~session.v2
Keyed(c) == Known(c) /\ session.k1 \in {Nobody, c}
Reaches(c) ==
  /\ \/ Plain(c) /\ UNCHANGED session
     \/ Keyed(c) /\ session' = V2
  /\ UNCHANGED listed

\* Set Session Privilege: up to the level the last RAKP 1 asked for.
SetPrivilege(c, level) ==
  /\ Reaches(c) /\ UNCHANGED bmc
  /\ shaken' = IF level > 1 /\ level <= shaken.max
               THEN [shaken EXCEPT !.priv = level] ELSE shaken

\* The cipher suites, a user's access or name, an unknown command: only answered.
\* Setting a name fails on the way and changes nothing.
Queried(c) == Reaches(c) /\ UNCHANGED <<shaken, bmc>>

CloseSession(c) ==
  /\ Plain(c) \/ Keyed(c)
  /\ close_server_session(c) /\ UNCHANGED <<shaken, bmc>>

\* Set User Password, to enable or disable; setting or testing a password fails
\* on a bytes argument, which is Queried.
SetUser(c, on) ==
  /\ Reaches(c) /\ bmc' = [bmc EXCEPT !.enabled = on] /\ UNCHANGED shaken

\* Chassis control, handed to FakeBmc; power_cycle turns a machine that is on off.
Chassis(c, op) ==
  /\ Reaches(c) /\ UNCHANGED shaken
  /\ bmc' = [bmc EXCEPT !.power =
       CASE op = "on" -> "on"
         [] op = "cycle" -> IF @ = "off" THEN "on" ELSE "off"
         [] OTHER -> "off"]

IpmiNext ==
  \E c \in IpmiClients :
    \/ NewIgnored(c) \/ StageZero(c) \/ Dropped(c)
    \/ \E v2 \in BOOLEAN : NewAuthCap(c, v2)
    \/ got_rmcp_openrequest(c) \/ got_rakp3(c)
    \/ \E p \in 1..MaxPriv : got_rakp1(c, p) \/ SetPrivilege(c, p)
    \/ CloseSession(c) \/ Queried(c)
    \/ \E on \in BOOLEAN : SetUser(c, on)
    \/ \E op \in {"on", "off", "cycle", "reset"} : Chassis(c, op)

IpmiSpec == IpmiInit /\ [][IpmiNext]_ipmiVars

(* ------------------------------ properties ------------------------------- *)
\* The server's one session is always one it has listed, under the address it
\* would be closed by, and a key in use is that of the first user tried, whatever
\* the other clients' datagrams did to the handshake in between.
SessionIsListed ==
  /\ HasSession => session.peer \in listed
  /\ session.k1 \in IpmiClients => shaken.open # Nobody /\ shaken.kg = session.k1
=============================================================================
