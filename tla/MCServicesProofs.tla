-------------------------- MODULE MCServicesProofs --------------------------
(* What holds of the protocol services for any clients, users, peers and      *)
(* bounds.  A step of MCServices is a step of one service and leaves the      *)
(* others alone, so an invariant is proved of each service's own actions and  *)
(* then carried over.                                                         *)
EXTENDS MCServices, SequenceTheorems, FiniteSetTheorems, NaturalsInduction,
        WellFoundedInduction, TLAPS

\* A set of naturals has a least member.
LEMMA LeastNat ==
  ASSUME NEW S \in SUBSET Nat, S # {}
  PROVE  \E m \in S : \A k \in S : m <= k
<1>1. PICK m \in S : \A k \in S : ~ (<<k, m>> \in OpToRel(<, Nat))
  BY NatLessThanWellFounded, WFMin
<1>2. \A k \in S : ~ (k < m)
  BY <1>1 DEF OpToRel
<1> QED BY <1>2

\* A step of the service followed keeps the state of every other one.
LEMMA OthersKept ==
  ASSUME NEW s \in Names, NEW other \in Names, s # other, Follows(s)
  PROVE  Kept(other)
BY DEF Follows

\* What a step of the whole is for one service: a step of it, or none.
LEMMA Steps ==
  ASSUME [Next]_vars
  PROVE  /\ [Ftp!FtpNext]_ftpState
         /\ [Files!FilesNext]_filesState
         /\ [Tftp!TftpNext]_tftpState
         /\ [Ipmi!IpmiNext]_ipmiState
         /\ [S7!S7Next]_s7State
         /\ [Enip!EnipNext]_enipState
         /\ [Http!HttpNext]_httpState
         /\ [Meter!KamNext]_meterState
         /\ [Parser!ParserNext]_parserState
         /\ [Ast!GuardianNext]_astState
         /\ [Proxy!ProxyNext]_proxyState
<1>1. [Ftp!FtpNext]_ftpState
  <2>1. CASE UNCHANGED vars
    BY <2>1 DEF vars
  <2>2. CASE Kept("ftp")
    BY <2>2 DEF Kept
  <2>3. Kept("ftp") \/ Ftp!FtpNext \/ UNCHANGED vars
    BY OthersKept DEF Next, Names
  <2> QED BY <2>1, <2>2, <2>3
<1>2. [Files!FilesNext]_filesState
  <2>1. CASE UNCHANGED vars
    BY <2>1 DEF vars
  <2>2. CASE Kept("files")
    BY <2>2 DEF Kept
  <2>3. Kept("files") \/ Files!FilesNext \/ UNCHANGED vars
    BY OthersKept DEF Next, Names
  <2> QED BY <2>1, <2>2, <2>3
<1>3. [Tftp!TftpNext]_tftpState
  <2>1. CASE UNCHANGED vars
    BY <2>1 DEF vars
  <2>2. CASE Kept("tftp")
    BY <2>2 DEF Kept
  <2>3. Kept("tftp") \/ Tftp!TftpNext \/ UNCHANGED vars
    BY OthersKept DEF Next, Names
  <2> QED BY <2>1, <2>2, <2>3
<1>4. [Ipmi!IpmiNext]_ipmiState
  <2>1. CASE UNCHANGED vars
    BY <2>1 DEF vars
  <2>2. CASE Kept("ipmi")
    BY <2>2 DEF Kept
  <2>3. Kept("ipmi") \/ Ipmi!IpmiNext \/ UNCHANGED vars
    BY OthersKept DEF Next, Names
  <2> QED BY <2>1, <2>2, <2>3
<1>5. [S7!S7Next]_s7State
  <2>1. CASE UNCHANGED vars
    BY <2>1 DEF vars
  <2>2. CASE Kept("s7")
    BY <2>2 DEF Kept
  <2>3. Kept("s7") \/ S7!S7Next \/ UNCHANGED vars
    BY OthersKept DEF Next, Names
  <2> QED BY <2>1, <2>2, <2>3
<1>6. [Enip!EnipNext]_enipState
  <2>1. CASE UNCHANGED vars
    BY <2>1 DEF vars
  <2>2. CASE Kept("enip")
    BY <2>2 DEF Kept
  <2>3. Kept("enip") \/ Enip!EnipNext \/ UNCHANGED vars
    BY OthersKept DEF Next, Names
  <2> QED BY <2>1, <2>2, <2>3
<1>7. [Http!HttpNext]_httpState
  <2>1. CASE UNCHANGED vars
    BY <2>1 DEF vars
  <2>2. CASE Kept("http")
    BY <2>2 DEF Kept
  <2>3. Kept("http") \/ Http!HttpNext \/ UNCHANGED vars
    BY OthersKept DEF Next, Names
  <2> QED BY <2>1, <2>2, <2>3
<1>8. [Meter!KamNext]_meterState
  <2>1. CASE UNCHANGED vars
    BY <2>1 DEF vars
  <2>2. CASE Kept("meter")
    BY <2>2 DEF Kept
  <2>3. Kept("meter") \/ Meter!KamNext \/ UNCHANGED vars
    BY OthersKept DEF Next, Names
  <2> QED BY <2>1, <2>2, <2>3
<1>9. [Parser!ParserNext]_parserState
  <2>1. CASE UNCHANGED vars
    BY <2>1 DEF vars
  <2>2. CASE Kept("parser")
    BY <2>2 DEF Kept
  <2>3. Kept("parser") \/ Parser!ParserNext \/ UNCHANGED vars
    BY OthersKept DEF Next, Names
  <2> QED BY <2>1, <2>2, <2>3
<1>10. [Ast!GuardianNext]_astState
  <2>1. CASE UNCHANGED vars
    BY <2>1 DEF vars
  <2>2. CASE Kept("ast")
    BY <2>2 DEF Kept
  <2>3. Kept("ast") \/ Ast!GuardianNext \/ UNCHANGED vars
    BY OthersKept DEF Next, Names
  <2> QED BY <2>1, <2>2, <2>3
<1>11. [Proxy!ProxyNext]_proxyState
  <2>1. CASE UNCHANGED vars
    BY <2>1 DEF vars
  <2>2. CASE Kept("proxy")
    BY <2>2 DEF Kept
  <2>3. Kept("proxy") \/ Proxy!ProxyNext \/ UNCHANGED vars
    BY OthersKept DEF Next, Names
  <2> QED BY <2>1, <2>2, <2>3
<1> QED BY <1>1, <1>2, <1>3, <1>4, <1>5, <1>6, <1>7, <1>8, <1>9, <1>10, <1>11
(* ------------------------------ the proxy -------------------------------- *)
\* A piece that was read is recorded at once, and while it is on its way it is
\* the only one of its side that has not been sent on.
ProxyTyped ==
  /\ produced \in [Proxy!Sides -> Nat] /\ fetched \in [Proxy!Sides -> Nat]
  /\ recorded \in [Proxy!Sides -> Nat] /\ sent \in [Proxy!Sides -> Seq(Nat)]
OnItsWay(s) == IF relay = "send" /\ held = s THEN 1 ELSE 0
ProxyCounts ==
  \A s \in Proxy!Sides :
    /\ recorded[s] = fetched[s] /\ fetched[s] <= produced[s]
    /\ Len(sent[s]) <= fetched[s]
    /\ relay # "done" => Len(sent[s]) + OnItsWay(s) = fetched[s]
ProxyInOrder == \A s \in Proxy!Sides : \A i \in 1..Len(sent[s]) : sent[s][i] = i
ProxyInv == ProxyTyped /\ ProxyCounts /\ ProxyInOrder

LEMMA InitProxyInv == Init => ProxyInv
BY DEF Init, Proxy!ProxyInit, ProxyInv, ProxyTyped, ProxyCounts, ProxyInOrder, OnItsWay,
   Proxy!Sides, Proxy!None

LEMMA NextProxyInv == ProxyInv /\ [Proxy!ProxyNext]_proxyState => ProxyInv'
<1> SUFFICES ASSUME ProxyInv, [Proxy!ProxyNext]_proxyState PROVE ProxyInv'
  OBVIOUS
<1>1. ASSUME UNCHANGED <<produced, fetched, recorded, sent>>,
             \/ UNCHANGED <<relay, held>>
             \/ relay' = "done"
             \/ relay = "connecting" /\ relay' = "select"
      PROVE  ProxyInv'
  BY <1>1 DEF ProxyInv, ProxyTyped, ProxyCounts, ProxyInOrder, OnItsWay
<1>2. CASE UNCHANGED proxyState
  BY <1>1, <1>2 DEF proxyState
<1>3. CASE Proxy!ConnectTo
  BY <1>1, <1>3 DEF Proxy!ConnectTo, Proxy!Streams
<1>4. CASE Proxy!Wait
  BY <1>1, <1>4 DEF Proxy!Wait, Proxy!Streams, Proxy!Finish
<1>5. CASE Proxy!Read
  <2> DEFINE side == Head(readable)
  <2>1. CASE UNCHANGED <<produced, fetched, recorded, sent>> /\ relay' = "done"
    BY <1>1, <2>1
  <2>2. CASE /\ produced[side] > fetched[side] /\ fetched' = [fetched EXCEPT ![side] = @ + 1]
             /\ recorded' = [recorded EXCEPT ![side] = @ + 1] /\ UNCHANGED <<produced, sent>>
             /\ relay = "select" /\ relay' = "send" /\ held' = side
    <3> HIDE DEF side
    <3>1. CASE side \in Proxy!Sides
      BY <2>2, <3>1, SMT DEF ProxyInv, ProxyTyped, ProxyCounts, ProxyInOrder, OnItsWay
    <3>2. CASE side \notin Proxy!Sides
      <4>1. fetched' = fetched /\ recorded' = recorded
        BY <2>2, <3>2 DEF ProxyInv, ProxyTyped
      <4> QED BY <2>2, <3>2, <4>1 DEF ProxyInv, ProxyTyped, ProxyCounts, ProxyInOrder, OnItsWay
    <3> QED BY <3>1, <3>2
  <2> QED BY <1>5, <2>1, <2>2
          DEF Proxy!Read, Proxy!Record, Proxy!Finish, Proxy!Streams
<1>6. CASE Proxy!Send
  <2>1. CASE UNCHANGED <<produced, fetched, recorded, sent>> /\ relay' = "done"
    BY <1>1, <2>1
  <2>2. CASE /\ UNCHANGED <<produced, fetched, recorded>>
             /\ relay = "send" /\ relay' = "select" /\ held' = Proxy!None
             /\ sent' = [sent EXCEPT ![held] = Append(@, fetched[held])]
    <3>1. CASE held \notin Proxy!Sides
      <4>1. sent' = sent
        BY <2>2, <3>1 DEF ProxyInv, ProxyTyped
      <4> QED BY <2>2, <3>1, <4>1 DEF ProxyInv, ProxyTyped, ProxyCounts, ProxyInOrder, OnItsWay
    <3>2. CASE held \in Proxy!Sides
      <4>1. sent[held] \in Seq(Nat) /\ fetched[held] \in Nat /\ fetched[held] = Len(sent[held]) + 1
        BY <2>2, <3>2, SMT DEF ProxyInv, ProxyTyped, ProxyCounts, OnItsWay
      <4> QED BY <2>2, <3>2, <4>1, AppendProperties, SMT
              DEF ProxyInv, ProxyTyped, ProxyCounts, ProxyInOrder, OnItsWay
    <3> QED BY <3>1, <3>2
  <2> QED BY <1>6, <2>1, <2>2 DEF Proxy!Send, Proxy!Finish
<1>7. ASSUME NEW s \in Proxy!Sides, Proxy!Produce(s) PROVE ProxyInv'
  BY <1>7, SMT DEF Proxy!Produce, ProxyInv, ProxyTyped, ProxyCounts, ProxyInOrder, OnItsWay
<1>8. ASSUME NEW s \in Proxy!Sides, Proxy!Shut(s) PROVE ProxyInv'
  BY <1>1, <1>8 DEF Proxy!Shut, Proxy!Streams
<1> QED BY <1>2, <1>3, <1>4, <1>5, <1>6, <1>7, <1>8 DEF Proxy!ProxyNext

LEMMA SpecProxy == Spec => []Proxy!RelayedIsRecorded
<1>1. Init => ProxyInv
  BY InitProxyInv
<1>2. ProxyInv /\ [Next]_vars => ProxyInv'
  BY NextProxyInv, Steps
<1>3. ProxyInv => Proxy!RelayedIsRecorded
  <2> SUFFICES ASSUME ProxyInv, NEW s \in Proxy!Sides
               PROVE  /\ sent[s] = [i \in 1..Len(sent[s]) |-> i]
                      /\ Len(sent[s]) <= recorded[s] /\ recorded[s] <= produced[s]
    BY DEF Proxy!RelayedIsRecorded
  <2>1. sent[s] \in Seq(Nat)
    BY DEF ProxyInv, ProxyTyped
  <2>2. sent[s] = [i \in 1..Len(sent[s]) |-> i]
    <3>1. sent[s] = [i \in 1..Len(sent[s]) |-> sent[s][i]]
      BY <2>1, LenProperties
    <3> QED BY <3>1 DEF ProxyInv, ProxyInOrder
  <2> QED BY <2>2 DEF ProxyInv, ProxyCounts
<1> QED BY <1>1, <1>2, <1>3, PTL DEF Spec

(* ---------------------------- the restart -------------------------------- *)
\* While the meter is down, an open connection has not been served since.
Phases == {"new", "open", "closed", "died", "answering", "lowres", "foreign"}
MeterTyped == served \in [Readers -> Nat] /\ reader \in [Readers -> Phases]
MeterInv ==
  /\ MeterTyped
  /\ ~active => \A c \in Readers : served[c] <= 1 /\ (reader[c] = "open" => served[c] = 0)

LEMMA InitMeterInv == Init => MeterInv
BY DEF Init, Meter!KamInit, MeterInv, MeterTyped, Phases

LEMMA NextMeterInv == MeterInv /\ [Meter!KamNext]_meterState => MeterInv'
<1> SUFFICES ASSUME MeterInv, [Meter!KamNext]_meterState PROVE MeterInv'
  OBVIOUS
<1>1. ASSUME UNCHANGED <<active, reader, served>> PROVE MeterInv'
  BY <1>1 DEF MeterInv, MeterTyped
<1>2. CASE UNCHANGED meterState
  BY <1>1, <1>2 DEF meterState
<1>3. ASSUME NEW c \in Operators,
             \/ \E cmd \in Meter!Given : Meter!Command(c, cmd[1], cmd[2])
             \/ Meter!Answer(c) \/ Meter!OperatorLeaves(c)
      PROVE  MeterInv'
  <2>1. UNCHANGED Meter!meterVars
    BY <1>3 DEF Meter!Command, Meter!Answer, Meter!OperatorLeaves
  <2> QED BY <1>1, <2>1 DEF Meter!meterVars
<1>4. CASE Meter!Simulate
  BY <1>1, <1>4 DEF Meter!Simulate
<1>5. CASE Meter!notify_observers
  <2>1. served' \in [Readers -> Nat] /\ \A c \in Readers :
          served'[c] = IF reader[c] \in Meter!Delayed THEN 1 ELSE 0
    BY <1>5 DEF Meter!notify_observers, Meter!InService
  <2>2. "open" \notin Meter!Delayed
    BY DEF Meter!Delayed
  <2> QED BY <1>5, <2>1, <2>2 DEF Meter!notify_observers, MeterInv, MeterTyped
<1>6. CASE Meter!set_reboot_done
  BY <1>6 DEF Meter!set_reboot_done, MeterInv, MeterTyped
<1>7. ASSUME NEW c \in Readers, Meter!Connect(c) PROVE MeterInv'
  BY <1>7 DEF Meter!Connect, MeterInv, MeterTyped, Phases
<1>8. ASSUME NEW c \in Readers, NEW phase \in Phases, phase = "open" => active,
             Meter!Goes(c, phase), UNCHANGED <<active, served>>
      PROVE  MeterInv'
  BY <1>8 DEF Meter!Goes, MeterInv, MeterTyped
<1>9. Meter!Again \in Phases /\ (Meter!Again = "open" => active)
  BY DEF Meter!Again, Phases
<1>10. ASSUME NEW c \in Readers, Meter!Piece(c) PROVE MeterInv'
  <2>1. PICK phase \in Phases : Meter!Goes(c, phase) /\ (phase = "open" => active)
    <3>1. \/ reader' = [reader EXCEPT ![c] = Meter!Again]
          \/ \E phase \in Meter!Delayed : Meter!Goes(c, phase)
          \/ Meter!Goes(c, "died")
      BY <1>10 DEF Meter!Piece, Meter!Turn, Meter!Dies, Meter!Goes
    <3>2. Meter!Delayed \subseteq Phases /\ "died" \in Phases /\ "open" \notin Meter!Delayed
      BY DEF Meter!Delayed, Phases
    <3>3. CASE reader' = [reader EXCEPT ![c] = Meter!Again]
      <4>1. Meter!Goes(c, Meter!Again)
        BY <3>3 DEF Meter!Goes
      <4> QED BY <1>9, <4>1
    <3>4. CASE \E phase \in Meter!Delayed : Meter!Goes(c, phase)
      BY <3>2, <3>4
    <3>5. CASE Meter!Goes(c, "died")
      BY <3>2, <3>5
    <3> QED BY <3>1, <3>3, <3>4, <3>5
  <2>2. reader[c] = "open" /\ active' = active
    BY <1>10 DEF Meter!Piece
  <2>3. CASE active
    BY <1>10, <2>1, <2>2, <2>3, <1>8 DEF Meter!Piece
  <2>4. CASE ~active
    <3>1. served' = [served EXCEPT ![c] = @ + 1]
      BY <1>10, <2>4 DEF Meter!Piece
    <3>2. reader' = [reader EXCEPT ![c] = phase]
      BY <2>1 DEF Meter!Goes
    <3> QED BY <2>1, <2>2, <2>4, <3>1, <3>2 DEF MeterInv, MeterTyped
  <2> QED BY <2>3, <2>4
<1>11. ASSUME NEW c \in Readers, Meter!Reply(c) \/ Meter!ReaderLeaves(c) PROVE MeterInv'
  <2>1. UNCHANGED <<active, served>>
    BY <1>11 DEF Meter!Reply, Meter!ReaderLeaves
  <2>2. \/ Meter!Turn(c, whole[c]) \/ Meter!Dies(c)
        \/ Meter!Goes(c, Meter!Again) \/ Meter!Goes(c, "closed")
    BY <1>11 DEF Meter!Reply, Meter!ReaderLeaves
  <2>3. \E phase \in Meter!Delayed \union {"died", "closed", Meter!Again} : Meter!Goes(c, phase)
    BY <2>2 DEF Meter!Turn, Meter!Dies
  <2> QED BY <1>8, <1>9, <2>1, <2>3 DEF Phases, Meter!Delayed
<1> QED BY <1>2, <1>3, <1>4, <1>5, <1>6, <1>7, <1>10, <1>11 DEF Meter!KamNext

\* While the meter pretends to restart, a connection is served for one piece of its
\* stream at most, for any operators, readers and restarts asked for meanwhile and
\* however many requests a piece completes.
THEOREM OnePieceServedWhileDown == Spec => []Meter!OnePieceWhileDown
<1>1. Init => MeterInv
  BY InitMeterInv
<1>2. MeterInv /\ [Next]_vars => MeterInv'
  BY NextMeterInv, Steps
<1>3. MeterInv => Meter!OnePieceWhileDown
  BY DEF MeterInv, Meter!OnePieceWhileDown
<1> QED BY <1>1, <1>2, <1>3, PTL DEF Spec

(* --------------------------- EtherNet/IP --------------------------------- *)
\* The bit that marks a reply goes off again, whatever the service.
LEMMA CodesMasked ==
  ASSUME NEW service \in Enip!Services
  PROVE  /\ Enip!Code[service] \in Nat
         /\ (Enip!Code[service] + 128) % 128 = Enip!Code[service]
         /\ service \in {"write", "bad"} <=> Enip!Code[service] \in Enip!WriteServices
<1>1. Enip!Code[service] = IF service = "read" THEN 76 ELSE IF service = "write" THEN 77
                           ELSE IF service = "bad" THEN 78 ELSE 0
  BY DEF Enip!Services, Enip!Code
<1> QED BY <1>1 DEF Enip!Services, Enip!WriteServices

\* What is sent is nothing, or values of a write that are not empty.
LEMMA WhatIsSent ==
  ASSUME NEW p, NEW service \in Enip!Services, NEW values \in Enip!Values(p, service),
         MaxValues \in Nat \ {0}
  PROVE  /\ service \in {"write", "bad"} => values \in Seq({p}) /\ Len(values) > 0
         /\ service \notin {"write", "bad"} => values = <<>>
<1>1. CASE service \notin {"write", "bad"}
  BY <1>1 DEF Enip!Values
<1>2. CASE service \in {"write", "bad"}
  <2>1. PICK n \in 1..(MaxValues + 1) : values \in [1..n -> {p}]
    BY <1>2 DEF Enip!Values
  <2>2. n \in Nat /\ n > 0
    BY <2>1
  <2>3. values \in Seq({p}) /\ Len(values) = n
    BY <2>1, <2>2
  <2> QED BY <1>2, <2>2, <2>3
<1> QED BY <1>1, <1>2

LEMMA RecordedTruly ==
  ASSUME MaxValues \in Nat \ {0}, NEW p, NEW service \in Enip!Services,
         NEW values \in Enip!Values(p, service), Enip!record_request_event(service, values)
  PROVE  Enip!RecordsTheRequest'
<1> DEFINE told == Enip!cip_request_facts(Enip!enip_process(service, values))
           n == IF Len(values) < MaxValues THEN Len(values) ELSE MaxValues
<1>1. facts' = [service |-> told.service, values |-> told.values,
                asked |-> Enip!Code[service], sent |-> values]
  BY DEF Enip!record_request_event
<1>2. told.service = Enip!Code[service]
  BY CodesMasked DEF Enip!cip_request_facts, Enip!enip_process
<1>3. CASE service \notin {"write", "bad"}
  <2>1. values = <<>>
    BY <1>3 DEF Enip!Values
  <2>2. Enip!enip_process(service, values).service % 128 \notin Enip!WriteServices
    BY <1>3, CodesMasked DEF Enip!enip_process
  <2>3. told.values = <<>>
    BY <2>2 DEF Enip!cip_request_facts
  <2> HIDE DEF told
  <2> QED BY <1>1, <1>2, <2>1, <2>3, SMT DEF Enip!RecordsTheRequest
<1>4. CASE service \in {"write", "bad"}
  <2>1. told.values = SubSeq(values, 1, n)
    BY <1>2, <1>4, CodesMasked DEF Enip!cip_request_facts, Enip!enip_process, Enip!Ceiling
  <2>2. values \in Seq({p}) /\ Len(values) \in Nat /\ Len(values) > 0
    BY <1>4, WhatIsSent, LenProperties
  <2>3. n \in 1..Len(values) /\ n <= MaxValues
    BY <2>2
  <2>4. Len(told.values) = n /\ \A i \in 1..n : told.values[i] = values[i]
    BY <2>1, <2>2, <2>3, SubSeqProperties
  <2>5. told.values # <<>>
    BY <2>3, <2>4
  <2> HIDE DEF told, n
  <2> QED BY <1>1, <1>2, <2>2, <2>3, <2>4, <2>5, SMT DEF Enip!RecordsTheRequest
<1> QED BY <1>3, <1>4

LEMMA InitEnip == Init => Enip!RecordsTheRequest
BY DEF Init, Enip!EnipInit, Enip!RecordsTheRequest

LEMMA NextEnip ==
  ASSUME MaxValues \in Nat \ {0}, Enip!RecordsTheRequest, [Enip!EnipNext]_enipState
  PROVE  Enip!RecordsTheRequest'
<1>1. CASE UNCHANGED facts
  BY <1>1 DEF Enip!RecordsTheRequest
<1>2. ASSUME NEW p, NEW s \in Enip!Services, NEW v \in Enip!Values(p, s),
             Enip!record_request_event(s, v)
      PROVE  Enip!RecordsTheRequest'
  BY <1>2, RecordedTruly
<1>3. CASE UNCHANGED enipState
  BY <1>1, <1>3 DEF enipState
<1>4. ASSUME NEW h \in EnipHandlers,
             \/ Enip!TcpEof(h) \/ Enip!TcpEnd(h)
             \/ \E p \in EnipPeers : Enip!TcpAccept(h, p)
      PROVE  Enip!RecordsTheRequest'
  BY <1>1, <1>4 DEF Enip!TcpEof, Enip!TcpEnd, Enip!TcpAccept
<1>5. ASSUME NEW h \in EnipHandlers, NEW s \in Enip!Services,
             NEW v \in Enip!Values(serving[h], s), Enip!TcpTransaction(h, s, v)
      PROVE  Enip!RecordsTheRequest'
  BY <1>2, <1>5 DEF Enip!TcpTransaction
<1>6. ASSUME NEW p \in EnipPeers, Enip!UdpFails(p) PROVE Enip!RecordsTheRequest'
  BY <1>1, <1>6 DEF Enip!UdpFails
<1>7. ASSUME NEW p \in EnipPeers, NEW s \in Enip!Services,
             NEW v \in Enip!Values(p, s), Enip!UdpTransaction(p, s, v)
      PROVE  Enip!RecordsTheRequest'
  BY <1>1, <1>2, <1>7 DEF Enip!UdpTransaction
<1> QED BY <1>3, <1>4, <1>5, <1>6, <1>7 DEF Enip!EnipNext

LEMMA SpecEnip ==
  ASSUME MaxValues \in Nat \ {0}
  PROVE  Spec => []Enip!RecordsTheRequest
<1>1. Init => Enip!RecordsTheRequest
  BY InitEnip
<1>2. Enip!RecordsTheRequest /\ [Next]_vars => Enip!RecordsTheRequest'
  BY NextEnip, Steps
<1> QED BY <1>1, <1>2, PTL DEF Spec

(* -------------------------------- HTTP ----------------------------------- *)
Pages == {"GET", "POST", "HEAD", "PUT"}

\* A reply made here has the length of its text, unless it is chunked or goes out
\* with the headers of a fetch that failed.
Delimited(r) ==
  r.from = "file" => r.chunks \/ r.stale \/ r.length = Http!Bytes(r.text)

HttpInv ==
  /\ logged \in [got : Nat, kept : Nat]
  /\ logged.got = logged.kept + (IF step \in {"idle", "closed"} THEN 0 ELSE 1)
       \/ (step = "closed" /\ logged.got = logged.kept + 1)
  /\ (step \in {"head", "payload"} /\ request.method \in Pages) => Delimited(reply)
  /\ (step \in {"log", "idle"} /\ request.method \in Pages /\ reply.from = "file" /\ ~reply.stale)
       => inStep

\* Whatever load_status and load_entity fall back on is delimited.
LEMMA LocalDelimited ==
  ASSUME NEW status, NEW page, NEW text
  PROVE  /\ Delimited(Http!Local(status, page, text))
         /\ \A left : Delimited([Http!Local(status, page, text) EXCEPT !.stale = left])
BY DEF Delimited, Http!Local, Http!Sized

LEMMA RelayedDelimited ==
  /\ \A r \in Http!Relayed : Delimited(r)
  /\ \A left : Delimited([Http!Minimal503 EXCEPT !.stale = left])
BY DEF Delimited, Http!Relayed, Http!Minimal503, Http!NoReply, Http!Bytes

LEMMA FallbackDelimited ==
  ASSUME NEW r \in Http!load_503
  PROVE  Delimited(r)
<1>1. CASE r \in Http!Relayed
  BY <1>1, RelayedDelimited
<1>2. CASE r \in Http!After({Http!Minimal503})
  BY <1>2, RelayedDelimited DEF Http!After
<1>3. CASE r \in Http!After({Http!Local(503, config.unavailable, t) :
                               t \in Http!Substituted(config.unavailable.text)})
  BY <1>3, LocalDelimited DEF Http!After
<1> QED BY <1>1, <1>2, <1>3 DEF Http!load_503

LEMMA StatusDelimited ==
  ASSUME NEW status, NEW r \in Http!load_status(status)
  PROVE  Delimited(r)
BY FallbackDelimited, LocalDelimited, RelayedDelimited DEF Http!load_status

LEMMA EntityDelimited == \A r \in Http!load_entity : Delimited(r)
BY FallbackDelimited, LocalDelimited, RelayedDelimited DEF Http!load_entity

LEMMA RepliesAreDelimited ==
  ASSUME request.method \in Pages, NEW r \in Http!Replies
  PROVE  Delimited(r)
<1>1. r \in Http!load_status(501) \/ r \in Http!Found
  BY DEF Http!Replies, Pages
<1> QED BY <1>1, StatusDelimited, EntityDelimited DEF Http!Found

LEMMA InitHttpInv == Init => HttpInv
BY DEF Init, Http!HttpInit, HttpInv, Http!NoRequest, Pages

LEMMA NextHttpInv == HttpInv /\ [Http!HttpNext]_httpState => HttpInv'
<1> SUFFICES ASSUME HttpInv, [Http!HttpNext]_httpState PROVE HttpInv'
  OBVIOUS
<1>1. CASE UNCHANGED httpState
  BY <1>1 DEF httpState, HttpInv, Delimited
<1>2. CASE Http!Closes
  BY <1>2 DEF Http!Closes, HttpInv
<1>3. CASE Http!Receive
  <2>1. step = "idle" /\ step' = "body" /\ logged' = [logged EXCEPT !.got = @ + 1]
    BY <1>3 DEF Http!Receive
  <2> QED BY <2>1 DEF HttpInv
<1>4. CASE Http!Body
  BY <1>2, <1>4 DEF Http!Body, HttpInv
<1>5. CASE Http!Load
  BY <1>5, RepliesAreDelimited DEF Http!Load, HttpInv, Delimited
<1>6. CASE Http!Head
  BY <1>2, <1>6 DEF Http!Head, HttpInv, Delimited
<1>7. CASE Http!Payload
  BY <1>2, <1>7 DEF Http!Payload, HttpInv, Delimited, Http!Unwritable, Http!Silent, Pages
<1>8. CASE Http!Log
  BY <1>8 DEF Http!Log, HttpInv
<1>9. CASE Http!HttpLeave
  BY <1>9 DEF Http!HttpLeave, HttpInv, Delimited
<1>10. CASE Http!HttpEof
  BY <1>2, <1>10 DEF Http!HttpEof
<1> QED BY <1>1, <1>3, <1>4, <1>5, <1>6, <1>7, <1>8, <1>9, <1>10 DEF Http!HttpNext

LEMMA SpecHttp == Spec => []Http!RepliesDelimited
<1>1. Init => HttpInv
  BY InitHttpInv
<1>2. HttpInv /\ [Next]_vars => HttpInv'
  BY NextHttpInv, Steps
<1>3. HttpInv => Http!RepliesDelimited
  BY DEF HttpInv, Http!RepliesDelimited, Pages
<1> QED BY <1>1, <1>2, <1>3, PTL DEF Spec

(* -------------------------------- S7comm --------------------------------- *)
\* What was answered, and how far the stream had been received by then.
S7Answers == [at : Nat, rest : BOOLEAN, as : S7!Packets]
Connected(s) == \E j \in 2..Len(s) : s[j].as.fn = "negotiate" /\ s[j - 1].as.kind = "cr"
Requests == {"diagnostics", "plc_stop"}
Preceded(s, i) == \E j \in 2..(i - 1) : s[j].as.fn = "negotiate" /\ s[j - 1].as.kind = "cr"
Done(a, n, more) == a.at <= n \/ (a.at = n + 1 /\ more /\ ~a.rest)

S7Typed ==
  /\ sent7 \in Nat /\ taken \in Nat /\ begun \in BOOLEAN /\ answered \in Seq(S7Answers)
S7Ordered ==
  /\ \A i \in 1..Len(answered) : Done(answered[i], taken, begun)
  /\ \A i \in 2..Len(answered) : S7!Before(answered[i - 1], answered[i])
InStage ==
  /\ stage = "negotiate" => Len(answered) > 0 /\ answered[Len(answered)].as.kind = "cr"
  /\ stage = "serve" => Connected(answered)
  /\ \A i \in 1..Len(answered) : answered[i].as.fn \in Requests => Preceded(answered, i)
S7Inv == S7Typed /\ S7Ordered /\ InStage

\* Only data carries a function.
LEMMA FunctionsInData == \A p \in S7!Packets : p.fn \in Requests => p.kind = "data"
<1>1. ASSUME NEW k PROVE S7!Plain(k).fn = "none"
  BY DEF S7!Plain
<1>2. ASSUME NEW fn PROVE S7!Data(fn).kind = "data"
  BY DEF S7!Data, S7!Plain
<1>3. ASSUME NEW lists, NEW index PROVE S7!Diagnostics(lists, index).kind = "data"
  BY DEF S7!Diagnostics, S7!Data, S7!Plain
<1> QED BY <1>1, <1>2, <1>3 DEF S7!Packets, Requests

LEMMA InitS7Inv == Init => S7Inv
<1> SUFFICES ASSUME Init PROVE S7Inv
  OBVIOUS
<1>1. stage = "connect" /\ answered = <<>> /\ Len(answered) = 0 /\ answered \in Seq(S7Answers)
  BY EmptySeq DEF Init, S7!S7Init
<1>2. S7Typed
  BY <1>1 DEF Init, S7!S7Init, S7Typed
<1>3. S7Ordered /\ InStage
  BY <1>1 DEF S7Ordered, InStage
<1> QED BY <1>2, <1>3 DEF S7Inv

\* What a packet does to the stage and the answers.
LEMMA PacketOutcomes ==
  ASSUME NEW p, stage = "connect" => S7!Connect(p), stage = "negotiate" => S7!Negotiate(p),
         stage = "serve" => S7!Serve(p), stage \in {"connect", "negotiate", "serve"}
  PROVE  \/ stage' \in {"connect", "failed", "rejected"} /\ answered' = answered
         \/ stage = "serve" /\ stage' = "serve" /\ answered' = answered
         \/ /\ answered' = Append(answered, [at |-> taken + 1, rest |-> begun, as |-> p])
            /\ \/ stage = "connect" /\ stage' = "negotiate" /\ p.kind = "cr"
               \/ stage = "negotiate" /\ stage' = "serve" /\ p.fn = "negotiate"
               \/ stage = "serve" /\ stage' = "serve"
<1>1. S7!Connect(p) => \/ p.kind = "cr" /\ S7!Reply(p, "negotiate")
                       \/ S7!Goto("rejected") \/ S7!Raises \/ S7!Goto("connect")
  BY DEF S7!Connect
<1>2. S7!Negotiate(p) => \/ p.fn = "negotiate" /\ S7!Reply(p, "serve")
                         \/ S7!Raises \/ S7!Goto("connect")
  BY DEF S7!Negotiate
<1>3. S7!Serve(p) => S7!S7_handle(p) \/ S7!Raises \/ S7!Goto("serve")
  BY DEF S7!Serve
<1>4. S7!S7_handle(p) => S7!Reply(p, "serve") \/ S7!Raises
  BY DEF S7!S7_handle
<1>5. \/ \E s \in {"connect", "failed", "rejected"} : S7!Goto(s)
      \/ stage = "serve" /\ S7!Goto("serve")
      \/ stage = "connect" /\ p.kind = "cr" /\ S7!Reply(p, "negotiate")
      \/ stage = "negotiate" /\ p.fn = "negotiate" /\ S7!Reply(p, "serve")
      \/ stage = "serve" /\ S7!Reply(p, "serve")
  BY <1>1, <1>2, <1>3, <1>4 DEF S7!Raises
<1> QED BY <1>5 DEF S7!Reply, S7!Goto

\* An answer more changes nothing of the answers before it.
LEMMA PrecededStays ==
  ASSUME NEW s \in Seq(S7Answers), NEW a \in S7Answers, NEW r, r = Append(s, a),
         \A i \in 1..Len(s) : s[i].as.fn \in Requests => Preceded(s, i),
         a.as.fn \in Requests => Connected(s)
  PROVE  /\ \A i \in 1..Len(r) : r[i].as.fn \in Requests => Preceded(r, i)
         /\ Connected(s) => Connected(r)
<1>1. Len(s) \in Nat /\ Len(r) = Len(s) + 1 /\ r[Len(s) + 1] = a
      /\ \A i \in 1..Len(s) : r[i] = s[i]
  BY AppendProperties, LenProperties
<1>2. ASSUME NEW i \in 1..Len(s), Preceded(s, i) PROVE Preceded(r, i)
  BY <1>1, <1>2 DEF Preceded
<1>3. Connected(s) => Connected(r) /\ Preceded(r, Len(r))
  BY <1>1 DEF Connected, Preceded
<1>4. ASSUME NEW i \in 1..Len(r), r[i].as.fn \in Requests PROVE Preceded(r, i)
  <2>1. CASE i \in 1..Len(s)
    BY <1>1, <1>2, <1>4, <2>1
  <2>2. CASE i = Len(r)
    BY <1>1, <1>3, <1>4, <2>2
  <2> QED BY <1>1, <2>1, <2>2
<1> QED BY <1>3, <1>4

LEMMA S7AnswerTyped ==
  ASSUME S7Typed, NEW i \in 1..Len(answered)
  PROVE  answered[i].at \in Nat
<1>1. answered[i] \in S7Answers
  BY ElementOfSeq DEF S7Typed
<1> QED BY <1>1 DEF S7Answers

\* A step that answers nothing and takes nothing back.
LEMMA NothingAnswered ==
  ASSUME S7Inv, S7Typed', answered' = answered, taken' >= taken,
         taken' > taken \/ (begun => begun'),
         stage' \notin {"negotiate", "serve"} \/ stage' = stage
  PROVE  S7Inv'
<1>1. \A i \in 1..Len(answered) : answered[i].at \in Nat
  BY S7AnswerTyped DEF S7Inv
<1>2. S7Ordered'
  <2>1. ASSUME NEW i \in 1..Len(answered) PROVE Done(answered[i], taken', begun')
    <3>1. Done(answered[i], taken, begun) /\ answered[i].at \in Nat
      BY <1>1 DEF S7Inv, S7Ordered
    <3>2. taken \in Nat /\ taken' \in Nat
      BY DEF S7Inv, S7Typed
    <3> QED BY <3>1, <3>2 DEF Done
  <2> QED BY <2>1 DEF S7Inv, S7Ordered, S7!Before
<1>3. InStage'
  BY DEF S7Inv, InStage
<1> QED BY <1>2, <1>3 DEF S7Inv

LEMMA NextS7Inv == S7Inv /\ [S7!S7Next]_s7State => S7Inv'
<1> SUFFICES ASSUME S7Inv, [S7!S7Next]_s7State PROVE S7Inv'
  OBVIOUS
<1>0. S7Typed /\ Len(answered) \in Nat
  BY LenProperties DEF S7Inv, S7Typed
<1>1. ASSUME UNCHANGED <<sent7, taken, begun, answered>>, stage' \in {stage, "failed", "lost"}
      PROVE  S7Inv'
  BY <1>0, <1>1, NothingAnswered DEF S7Typed
<1>2. CASE UNCHANGED s7State
  BY <1>1, <1>2 DEF s7State
<1>3. CASE S7!S7Leave
  BY <1>1, <1>3 DEF S7!S7Leave
<1>4. CASE S7!S7End \/ S7!S7Timeout
  BY <1>1, <1>4 DEF S7!S7End, S7!S7Timeout, S7!IsLost, S7!Raises, S7!Goto
<1>5. CASE S7!S7Send
  BY <1>0, <1>5, NothingAnswered DEF S7!S7Send, S7Typed
<1>6. CASE S7!S7Packet
  <2>1. PICK n \in 0..MaxPackets, more \in BOOLEAN, p \in S7!Packets :
          /\ S7!Received(n, more)
          /\ stage = "connect" => S7!Connect(p)
          /\ stage = "negotiate" => S7!Negotiate(p)
          /\ stage = "serve" => S7!Serve(p)
    BY <1>6 DEF S7!S7Packet, S7!Running
  <2>2. /\ n \in Nat /\ taken' = taken + n /\ begun' = more /\ sent7' = sent7
        /\ IF begun THEN n > 0 ELSE more \/ n > 0
        /\ stage \in {"connect", "negotiate", "serve"}
    BY <1>6, <2>1 DEF S7!S7Packet, S7!Received, S7!Running
  <2>3. /\ taken' \in Nat /\ begun' \in BOOLEAN /\ sent7' \in Nat /\ taken' >= taken
        /\ taken' > taken \/ (~begun /\ begun')
    BY <1>0, <2>2 DEF S7Typed
  <2>4. CASE /\ answered' = answered
             /\ stage' \in {"connect", "failed", "rejected"} \/ stage' = stage
    <3>1. S7Typed'
      BY <1>0, <2>3, <2>4 DEF S7Typed
    <3> QED BY <2>3, <2>4, <3>1, NothingAnswered
  <2> DEFINE a == [at |-> taken + 1, rest |-> begun, as |-> p]
  <2>5. CASE /\ answered' = Append(answered, a)
             /\ \/ stage = "connect" /\ stage' = "negotiate" /\ p.kind = "cr"
                \/ stage = "negotiate" /\ stage' = "serve" /\ p.fn = "negotiate"
                \/ stage = "serve" /\ stage' = "serve"
    <3>1. a \in S7Answers /\ a.at = taken + 1 /\ a.rest = begun /\ a.as = p
      BY <1>0 DEF S7Answers, S7Typed
    <3> HIDE DEF a
    <3>2. /\ answered' \in Seq(S7Answers) /\ Len(answered') = Len(answered) + 1
          /\ answered'[Len(answered) + 1] = a
          /\ \A i \in 1..Len(answered) : answered'[i] = answered[i]
      BY <1>0, <2>5, <3>1, AppendProperties DEF S7Typed
    <3>3. ASSUME NEW i \in 1..Len(answered)
          PROVE  /\ answered[i].at <= taken \/ (answered[i].at = taken + 1 /\ begun /\ ~answered[i].rest)
                 /\ answered[i].at \in Nat
      BY <1>0, S7AnswerTyped DEF S7Inv, S7Ordered, Done
    <3>4. ASSUME NEW i \in 1..Len(answered') PROVE Done(answered'[i], taken', begun')
      <4>1. CASE i \in 1..Len(answered)
        BY <1>0, <2>2, <2>3, <3>2, <3>3, <4>1 DEF Done, S7Typed
      <4>2. CASE i = Len(answered) + 1
        BY <1>0, <2>2, <2>3, <3>1, <3>2, <4>2 DEF Done, S7Typed
      <4> QED BY <1>0, <3>2, <4>1, <4>2
    <3>5. ASSUME NEW i \in 2..Len(answered') PROVE S7!Before(answered'[i - 1], answered'[i])
      <4>1. CASE i \in 2..Len(answered)
        <5>1. i \in 1..Len(answered) /\ i - 1 \in 1..Len(answered)
          BY <1>0, <4>1
        <5> QED BY <3>2, <4>1, <5>1 DEF S7Inv, S7Ordered
      <4>2. CASE i = Len(answered) + 1
        <5>1. i - 1 = Len(answered) /\ Len(answered) \in 1..Len(answered)
          BY <1>0, <3>5, <4>2
        <5> QED BY <1>0, <3>1, <3>2, <3>3, <4>2, <5>1 DEF S7!Before, S7Typed
      <4> QED BY <1>0, <3>2, <4>1, <4>2
    <3>6. p.fn \in Requests => Connected(answered)
      <4>1. stage # "serve" => p.fn \notin Requests
        BY <2>5, FunctionsInData DEF Requests
      <4> QED BY <2>2, <4>1 DEF S7Inv, InStage
    <3>7. /\ \A i \in 1..Len(answered') : answered'[i].as.fn \in Requests => Preceded(answered', i)
          /\ Connected(answered) => Connected(answered')
      BY <1>0, <2>5, <3>1, <3>6, PrecededStays DEF S7Inv, S7Typed, InStage
    <3>8. stage' = "negotiate" => Len(answered') > 0 /\ answered'[Len(answered')].as.kind = "cr"
      BY <1>0, <2>5, <3>1, <3>2
    <3>9. stage' = "serve" => Connected(answered')
      <4>1. CASE stage = "serve"
        BY <3>7, <4>1 DEF S7Inv, InStage
      <4>2. CASE stage = "negotiate" /\ p.fn = "negotiate"
        <5>1. Len(answered) > 0 /\ answered[Len(answered)].as.kind = "cr"
          BY <4>2 DEF S7Inv, InStage
        <5>2. answered'[Len(answered)] = answered[Len(answered)]
          BY <1>0, <3>2, <5>1
        <5>3. Len(answered) + 1 \in 2..Len(answered') /\ (Len(answered) + 1) - 1 = Len(answered)
          BY <1>0, <3>2, <5>1
        <5> QED BY <3>1, <3>2, <4>2, <5>1, <5>2, <5>3 DEF Connected
      <4> QED BY <2>5, <4>1, <4>2
    <3>10. InStage'
      BY <3>7, <3>8, <3>9 DEF InStage
    <3>11. S7Ordered' /\ S7Typed'
      BY <2>3, <3>2, <3>4, <3>5 DEF S7Ordered, S7Typed, S7!Before
    <3> QED BY <3>10, <3>11 DEF S7Inv
  <2> HIDE DEF a
  <2> QED BY <2>1, <2>2, <2>4, <2>5, PacketOutcomes DEF a
<1> QED BY <1>2, <1>3, <1>4, <1>5, <1>6 DEF S7!S7Next

LEMMA SpecS7 == Spec => []S7!AnsweredInOrder
<1>1. Init => S7Inv
  BY InitS7Inv
<1>2. S7Inv /\ [Next]_vars => S7Inv'
  BY NextS7Inv, Steps
<1>3. S7Inv => S7!AnsweredInOrder
  BY DEF S7Inv, S7Ordered, InStage, Preceded, Requests, S7!AnsweredInOrder
<1> QED BY <1>1, <1>2, <1>3, PTL DEF Spec

(* --------------------------------- FTP ----------------------------------- *)
FtpProcs == {"ready", "done", "stop", "start", "accept", "deaf", "connect", "lock",
             "recvWait", "get"}
Pcs == [cmd : {"select", "selected", "done"}, proc : FtpProcs, data : {"ready", "recv", "done"}]
Accounts == [user : {"none", "anonymous", "known"}, in : BOOLEAN, bad : Nat]
Channels ==
  [on : BOOLEAN, send : BOOLEAN, recv : BOOLEAN, addr : BOOLEAN,
   sock : {"none", "open", "closed"}, listener : BOOLEAN, mode : BOOLEAN,
   outQ : Seq({"raw", "file"}), inQ : Int]
FtpTyped == pc \in Pcs /\ acct \in Accounts /\ chan \in Channels

\* A data channel that is raised is so for a client and in one direction.
Directed(c, in) == c.on => in /\ (c.send \/ c.recv)
Uploading(where, what) == where \in {"start", "recvWait", "get"} /\ what = "STOR"

\* What a command that waits is: one that takes the channel down, or a transfer
\* of a client that is logged in; an upload waits for the lock before all else.
Awaited ==
  /\ pc.proc = "stop" => todo \in {"REIN", "PASV", "PORT"}
  /\ pc.proc = "lock" => todo = "STOR"
  /\ pc.proc \in {"start", "lock", "recvWait", "get"} => acct.in
FtpInv == FtpTyped /\ FtpOwned /\ Awaited

LEMMA InitFtpInv == Init => FtpInv
<1> SUFFICES ASSUME Init PROVE FtpInv
  OBVIOUS
<1>1. Ftp!FtpInit
  BY DEF Init
<1>2. FtpTyped
  BY <1>1 DEF Ftp!FtpInit, FtpTyped, Pcs, FtpProcs, Accounts, Channels
<1>3. FtpOwned /\ Awaited
  BY <1>1 DEF Ftp!FtpInit, FtpOwned, Awaited, Ftp!TransferIsOwned, Ftp!LockOfUpload
<1> QED BY <1>2, <1>3 DEF FtpInv

(* What the helpers make of the channel. *)
LEMMA StoppedChannel ==
  ASSUME NEW c \in Channels, NEW purge \in BOOLEAN
  PROVE  Ftp!Stopped(c, purge) \in Channels /\ ~Ftp!Stopped(c, purge).on
<1> DEFINE sock == IF c.sock = "open" THEN "closed" ELSE c.sock
           addr == c.addr /\ ~purge
           inQ == IF purge THEN 0 ELSE c.inQ
           outQ == IF purge THEN <<>> ELSE c.outQ
<1>1. sock \in {"none", "open", "closed"} /\ inQ \in Int /\ outQ \in Seq({"raw", "file"})
  BY DEF Channels
<1>2. addr \in BOOLEAN
  BY DEF Channels
<1>3. Ftp!Stopped(c, purge) =
        [c EXCEPT !.on = FALSE, !.send = TRUE, !.recv = TRUE, !.sock = sock,
                  !.addr = addr, !.inQ = inQ, !.outQ = outQ]
  BY DEF Ftp!Stopped
<1> HIDE DEF sock, addr, inQ, outQ
<1>4. Ftp!Stopped(c, purge) \in Channels
  BY <1>1, <1>2, <1>3 DEF Channels
<1>5. ~Ftp!Stopped(c, purge).on
  BY <1>3 DEF Channels
<1> QED BY <1>4, <1>5

LEMMA StartedChannel ==
  ASSUME NEW c \in Channels, NEW isUpload \in BOOLEAN, c.on => c.send \/ c.recv
  PROVE  /\ Ftp!Started(c, isUpload) \in Channels
         /\ Ftp!Started(c, isUpload).send \/ Ftp!Started(c, isUpload).recv \/ ~Ftp!Started(c, isUpload).on
BY DEF Ftp!Started, Channels

\* The greenlet ends its command outside an upload.
LEMMA Finishes ==
  ASSUME FtpInv, NEW n, NEW c \in Channels, Ftp!Finish(n, c), acct' \in Accounts,
         Directed(c, acct'.in), vfsLock # "me", UNCHANGED vfsLock
  PROVE  FtpInv'
<1>1. pc' = [pc EXCEPT !.proc = "done"] /\ chan' = c
  BY DEF Ftp!Finish
<1>2. pc' \in Pcs /\ pc'.proc = "done"
  BY <1>1 DEF FtpInv, FtpTyped, Pcs, FtpProcs
<1> QED BY <1>1, <1>2 DEF FtpInv, FtpTyped, FtpOwned, Awaited, Directed,
           Ftp!TransferIsOwned, Ftp!LockOfUpload

\* The greenlet waits outside an upload.
LEMMA Waits ==
  ASSUME FtpInv, NEW where \in {"stop", "start", "accept", "deaf", "connect", "lock"}, NEW c,
         Ftp!Await(where, c), chan' \in Channels, Directed(chan', acct.in),
         UNCHANGED <<acct, vfsLock>>, vfsLock # "me",
         where = "stop" => c \in {"REIN", "PASV", "PORT"},
         where = "start" => acct.in /\ c # "STOR",
         where = "lock" => acct.in /\ c = "STOR"
  PROVE  FtpInv'
<1>1. pc' = [pc EXCEPT !.proc = where] /\ todo' = c
  BY DEF Ftp!Await
<1>2. pc' \in Pcs /\ pc'.proc = where
  BY <1>1 DEF FtpInv, FtpTyped, Pcs, FtpProcs
<1> QED BY <1>1, <1>2 DEF FtpInv, FtpTyped, FtpOwned, Awaited, Directed,
           Ftp!TransferIsOwned, Ftp!LockOfUpload

\* Outside a command's upload the session does not hold the lock.
LEMMA LockFree ==
  ASSUME FtpInv, pc.proc \notin {"start", "recvWait", "get"}
  PROVE  vfsLock # "me"
BY DEF FtpInv, FtpOwned, Ftp!LockOfUpload

LEMMA ChannelNow ==
  ASSUME FtpInv
  PROVE  /\ chan \in Channels /\ acct \in Accounts /\ Directed(chan, acct.in)
         /\ chan.on => chan.send \/ chan.recv
BY DEF FtpInv, FtpTyped, FtpOwned, Ftp!TransferIsOwned, Directed

\* Each command, by what it does to the account and the channel.
LEMMA Accounting ==
  ASSUME FtpInv, pc.proc \in {"ready", "stop"},
         \/ \E name \in {"anonymous", "known"} : Ftp!do_USER(name)
         \/ \E good \in BOOLEAN : Ftp!do_PASS(good)
         \/ Ftp!do_REIN
  PROVE  FtpInv'
<1>0. vfsLock # "me"
  BY LockFree
<1>1. ASSUME NEW name \in {"anonymous", "known"}, Ftp!do_USER(name) PROVE FtpInv'
  <2>1. acct' \in Accounts /\ acct'.in = acct.in
    <3>1. acct' = acct \/ acct' = [acct EXCEPT !.user = name]
      BY <1>1 DEF Ftp!do_USER
    <3>2. [acct EXCEPT !.user = name] \in Accounts
      BY ChannelNow DEF Accounts
    <3>3. [acct EXCEPT !.user = name].in = acct.in
      BY ChannelNow DEF Accounts
    <3> QED BY <3>1, <3>2, <3>3, ChannelNow
  <2> QED BY <1>0, <1>1, <2>1, ChannelNow, Finishes DEF Ftp!do_USER
<1>2. ASSUME NEW good \in BOOLEAN, Ftp!do_PASS(good) PROVE FtpInv'
  <2>1. acct' \in Accounts /\ (acct.in => acct'.in)
    <3>1. acct' = [acct EXCEPT !.in = TRUE, !.user = "known"]
          \/ acct' = [acct EXCEPT !.bad = @ + 1]
      BY <1>2 DEF Ftp!do_PASS
    <3>2. CASE acct' = [acct EXCEPT !.in = TRUE, !.user = "known"]
      <4>1. acct' \in Accounts
        BY <3>2, ChannelNow DEF Accounts
      <4>2. acct'.in
        BY <3>2, ChannelNow DEF Accounts
      <4> QED BY <4>1, <4>2
    <3>3. CASE acct' = [acct EXCEPT !.bad = @ + 1]
      <4>1. acct.bad + 1 \in Nat
        BY ChannelNow DEF Accounts
      <4>2. acct' \in Accounts
        BY <3>3, <4>1, ChannelNow DEF Accounts
      <4>3. acct'.in = acct.in
        BY <3>3, ChannelNow DEF Accounts
      <4> QED BY <4>2, <4>3
    <3> QED BY <3>1, <3>2, <3>3
  <2> DEFINE n == 1 + (IF acct.in \/ acct.user = "none" THEN 1 ELSE 0)
  <2>2. Ftp!Finish(n, chan) /\ UNCHANGED vfsLock
    BY <1>2 DEF Ftp!do_PASS
  <2>3. Directed(chan, acct'.in)
    BY <2>1, ChannelNow DEF Directed
  <2> HIDE DEF n
  <2> QED BY <1>0, <2>1, <2>2, <2>3, ChannelNow, Finishes
<1>3. CASE Ftp!do_REIN
  <2>1. CASE Ftp!Await("stop", "REIN") /\ UNCHANGED <<acct, chan, vfsLock>>
    BY <1>0, <2>1, ChannelNow, Waits
  <2>2. CASE /\ Ftp!Finish(1, Ftp!Stopped(chan, FALSE)) /\ UNCHANGED vfsLock
             /\ acct' = [acct EXCEPT !.user = "none", !.in = FALSE]
    <3>1. acct' \in Accounts
      BY <2>2, ChannelNow DEF Accounts
    <3> QED BY <1>0, <2>2, <3>1, ChannelNow, StoppedChannel, Finishes DEF Directed
  <2> QED BY <1>3, <2>1, <2>2 DEF Ftp!do_REIN
<1> QED BY <1>1, <1>2, <1>3

\* The channel that PASV and PORT start from: their own once the old one is down.
LEMMA Renewed ==
  ASSUME FtpInv, NEW b \in BOOLEAN, NEW c, c = IF b THEN Ftp!Stopped(chan, TRUE) ELSE chan,
         chan.on => b
  PROVE  c \in Channels /\ ~c.on
BY ChannelNow, StoppedChannel

LEMMA Connecting ==
  ASSUME FtpInv, pc.proc \in {"ready", "stop"}, Ftp!do_PASV \/ Ftp!do_PORT
  PROVE  FtpInv'
<1>0. vfsLock # "me"
  BY LockFree
<1> DEFINE b == chan.on \/ pc.proc = "stop"
           c == IF b THEN Ftp!Stopped(chan, TRUE) ELSE chan
<1>1. c \in Channels /\ ~c.on
  <2>1. b \in BOOLEAN /\ (chan.on => b)
    BY ChannelNow DEF Channels
  <2> HIDE DEF b
  <2> QED BY <2>1, Renewed
<1>2. ASSUME NEW w \in {"PASV", "PORT"}, Ftp!Await("stop", w), UNCHANGED <<acct, chan, vfsLock>>
      PROVE  FtpInv'
  BY <1>0, <1>2, ChannelNow, Waits
<1>3. CASE Ftp!do_PASV
  <2>1. CASE /\ \E where \in {"accept", "deaf"} : Ftp!Await(where, "PASV")
             /\ chan' = [c EXCEPT !.mode = TRUE, !.listener = TRUE]
             /\ UNCHANGED <<acct, vfsLock>>
    <3> HIDE DEF c
    <3>1. chan' \in Channels
      BY <1>1, <2>1 DEF Channels
    <3>2. ~chan'.on
      BY <1>1, <2>1 DEF Channels
    <3> QED BY <1>0, <2>1, <3>1, <3>2, Waits DEF Directed
  <2> QED BY <1>2, <1>3, <2>1 DEF Ftp!do_PASV
<1>4. CASE Ftp!do_PORT
  <2>1. CASE Ftp!Finish(1, [c EXCEPT !.mode = TRUE]) /\ UNCHANGED <<acct, vfsLock>>
    <3> HIDE DEF c
    <3>1. [c EXCEPT !.mode = TRUE] \in Channels
      BY <1>1 DEF Channels
    <3>2. ~[c EXCEPT !.mode = TRUE].on
      BY <1>1 DEF Channels
    <3> QED BY <1>0, <2>1, <3>1, <3>2, ChannelNow, Finishes DEF Directed
  <2>2. CASE /\ Ftp!Await("connect", "PORT") /\ UNCHANGED <<acct, vfsLock>>
             /\ chan' = [c EXCEPT !.mode = TRUE, !.addr = TRUE, !.sock = "closed"]
    <3> HIDE DEF c
    <3>1. chan' \in Channels
      BY <1>1, <2>2 DEF Channels
    <3>2. ~chan'.on
      BY <1>1, <2>2 DEF Channels
    <3> QED BY <1>0, <2>2, <3>1, <3>2, Waits DEF Directed
  <2> QED BY <1>2, <1>4, <2>1, <2>2 DEF Ftp!do_PORT
<1> QED BY <1>3, <1>4

LEMMA Transferring ==
  ASSUME FtpInv, pc.proc \in {"ready", "stop"}, acct.in,
         \/ \E kind \in {"raw", "file"} : Ftp!do_LIST(kind)
         \/ Ftp!do_STOR \/ Ftp!do_STOU
  PROVE  FtpInv'
<1>0. vfsLock # "me"
  BY LockFree
<1>1. ASSUME NEW kind \in {"raw", "file"}, Ftp!do_LIST(kind) PROVE FtpInv'
  <2> DEFINE outQ == Append(chan.outQ, kind)
             c == [chan EXCEPT !.outQ = outQ]
             n == (IF Ftp!HasPeer THEN 1 ELSE 2) + (IF kind = "raw" THEN 1 ELSE 0)
  <2>1. outQ \in Seq({"raw", "file"})
    BY ChannelNow, AppendProperties DEF Channels
  <2>2. \/ Ftp!Await("start", "LIST") /\ chan' = c
        \/ Ftp!Finish(n, Ftp!Started(c, FALSE))
    BY <1>1 DEF Ftp!do_LIST
  <2> HIDE DEF outQ, n
  <2>3. c \in Channels
    BY <2>1, ChannelNow DEF Channels
  <2>4. c.on => c.send \/ c.recv
    BY ChannelNow DEF Channels
  <2>5. UNCHANGED <<acct, vfsLock>>
    BY <1>1 DEF Ftp!do_LIST
  <2> HIDE DEF c
  <2>6. CASE Ftp!Await("start", "LIST") /\ chan' = c
    BY <1>0, <2>3, <2>4, <2>5, <2>6, Waits DEF Directed
  <2>7. CASE Ftp!Finish(n, Ftp!Started(c, FALSE))
    <3>1. Ftp!Started(c, FALSE) \in Channels /\ Directed(Ftp!Started(c, FALSE), acct'.in)
      BY <2>3, <2>4, <2>5, StartedChannel DEF Directed
    <3> QED BY <1>0, <2>5, <2>7, <3>1, ChannelNow, Finishes
  <2> QED BY <2>2, <2>6, <2>7
<1>2. CASE Ftp!do_STOR
  BY <1>0, <1>2, ChannelNow, Waits DEF Ftp!do_STOR
<1>3. CASE Ftp!do_STOU
  BY <1>0, <1>2, <1>3, ChannelNow, Finishes DEF Ftp!do_STOU
<1> QED BY <1>1, <1>2, <1>3

LEMMA Answering ==
  ASSUME FtpInv, pc.proc \in {"ready", "stop"}, Ftp!do_ABOR \/ Ftp!do_NOOP \/ Ftp!do_QUIT
  PROVE  FtpInv'
<1>0. vfsLock # "me"
  BY LockFree
<1>1. CASE Ftp!do_ABOR
  <2>1. \/ Ftp!Finish(1, chan)
        \/ \E n \in {1, 2} : Ftp!Finish(n, Ftp!Stopped(chan, TRUE))
    BY <1>1 DEF Ftp!do_ABOR
  <2>2. UNCHANGED <<acct, vfsLock>>
    BY <1>1 DEF Ftp!do_ABOR
  <2> QED BY <1>0, <2>1, <2>2, ChannelNow, StoppedChannel, Finishes DEF Directed
<1>2. CASE Ftp!do_NOOP \/ Ftp!do_QUIT
  BY <1>0, <1>2, ChannelNow, Finishes DEF Ftp!do_NOOP, Ftp!do_QUIT
<1> QED BY <1>1, <1>2

\* Whatever command it is, if one that transfers is the command of a client that
\* is logged in.
LEMMA Dispatched ==
  ASSUME FtpInv, pc.proc \in {"ready", "stop"}, NEW c, Ftp!Dispatch(c),
         c \in {"LIST", "RETR", "STOR", "STOU"} => acct.in
  PROVE  FtpInv'
<1>1. \/ \/ \E name \in {"anonymous", "known"} : Ftp!do_USER(name)
         \/ \E good \in BOOLEAN : Ftp!do_PASS(good)
         \/ Ftp!do_REIN
      \/ Ftp!do_PASV \/ Ftp!do_PORT
      \/ /\ c \in {"LIST", "RETR", "STOR", "STOU"}
         /\ (\E kind \in {"raw", "file"} : Ftp!do_LIST(kind)) \/ Ftp!do_STOR \/ Ftp!do_STOU
      \/ Ftp!do_ABOR \/ Ftp!do_NOOP \/ Ftp!do_QUIT
  BY DEF Ftp!Dispatch
<1> QED BY <1>1, Accounting, Connecting, Transferring, Answering

LEMMA Commanded ==
  ASSUME FtpInv, Ftp!process_ftp_command
  PROVE  FtpInv'
<1>0. pc.proc = "ready" /\ vfsLock # "me"
  BY LockFree DEF Ftp!process_ftp_command
<1>1. ASSUME NEW c \in Ftp!Commands, Ftp!pre_process_cmd(c) PROVE FtpInv'
  <2>1. CASE Ftp!do_NOOP
    BY <1>0, <2>1, Answering
  <2>2. CASE Ftp!process_command(c) /\ (acct.in \/ c \in Ftp!NoAuth)
    <3>1. CASE Ftp!Finish(1, chan) /\ UNCHANGED <<acct, vfsLock>>
      BY <1>0, <3>1, ChannelNow, Finishes
    <3>2. CASE Ftp!Dispatch(c)
      <4>1. c \in {"LIST", "RETR", "STOR", "STOU"} => acct.in
        BY <2>2 DEF Ftp!NoAuth
      <4> QED BY <1>0, <3>2, <4>1, Dispatched
    <3> QED BY <2>2, <3>1, <3>2 DEF Ftp!process_command
  <2> QED BY <1>1, <2>1, <2>2 DEF Ftp!pre_process_cmd
<1>2. ASSUME NEW n, Ftp!Finish(n, chan), UNCHANGED <<acct, vfsLock>> PROVE FtpInv'
  BY <1>0, <1>2, ChannelNow, Finishes
<1> QED BY <1>1, <1>2 DEF Ftp!process_ftp_command

\* The steps in which a command goes on after a wait.
LEMMA Resumed ==
  ASSUME FtpInv,
         \/ Ftp!StopResumes \/ Ftp!StartResumes \/ Ftp!TakeLock \/ Ftp!RecvDone
         \/ Ftp!WriteUpload \/ Ftp!Accepted \/ Ftp!AcceptTimesOut \/ Ftp!Connected
  PROVE  FtpInv'
<1>1. CASE Ftp!StopResumes
  BY <1>1, Dispatched DEF Ftp!StopResumes, FtpInv, Awaited
<1>2. ASSUME NEW where \in {"start", "recvWait", "get"}, Ftp!Await(where, todo),
             chan' \in Channels, Directed(chan', acct.in), acct' = acct, acct.in,
             vfsLock' = "me" <=> todo = "STOR"
      PROVE  FtpInv'
  <2>1. pc' = [pc EXCEPT !.proc = where] /\ todo' = todo
    BY <1>2 DEF Ftp!Await
  <2>2. pc' \in Pcs /\ pc'.proc = where
    BY <2>1 DEF FtpInv, FtpTyped, Pcs, FtpProcs
  <2> QED BY <1>2, <2>1, <2>2 DEF FtpInv, FtpTyped, FtpOwned, Awaited, Directed,
             Ftp!TransferIsOwned, Ftp!LockOfUpload
<1>3. CASE Ftp!StartResumes
  <2>0. acct.in /\ UNCHANGED <<acct, vfsLock>> /\ (vfsLock = "me" <=> todo = "STOR")
    BY <1>3 DEF Ftp!StartResumes, FtpInv, FtpOwned, Awaited, Ftp!LockOfUpload
  <2>1. CASE todo = "STOR" /\ Ftp!Await("recvWait", todo) /\ chan' = Ftp!Started(chan, TRUE)
    <3>1. chan' \in Channels /\ Directed(chan', acct.in)
      BY <2>0, <2>1, ChannelNow, StartedChannel DEF Directed
    <3> QED BY <1>2, <2>0, <2>1, <3>1
  <2>2. CASE todo # "STOR" /\ Ftp!Finish(1, Ftp!Started(chan, FALSE))
    <3>1. /\ Ftp!Started(chan, FALSE) \in Channels
          /\ Directed(Ftp!Started(chan, FALSE), acct'.in)
      BY <2>0, ChannelNow, StartedChannel DEF Directed
    <3> QED BY <2>0, <2>2, <3>1, ChannelNow, Finishes
  <2> QED BY <1>3, <2>1, <2>2 DEF Ftp!StartResumes
<1>4. CASE Ftp!TakeLock
  <2>1. acct.in /\ todo = "STOR"
    BY <1>4 DEF Ftp!TakeLock, FtpInv, Awaited
  <2> QED BY <1>2, <1>4, <2>1, ChannelNow DEF Ftp!TakeLock
<1>5. CASE Ftp!RecvDone
  <2>1. acct.in /\ (vfsLock = "me" <=> todo = "STOR")
    BY <1>5 DEF Ftp!RecvDone, FtpInv, FtpOwned, Awaited, Ftp!LockOfUpload
  <2> QED BY <1>2, <1>5, <2>1, ChannelNow DEF Ftp!RecvDone
<1>6. CASE Ftp!WriteUpload
  <2>0. \A n \in 1..chan.inQ : n \in Int
    OBVIOUS
  <2>1. \/ Ftp!Finish(1, [chan EXCEPT !.inQ = 0])
        \/ \E n \in Int : Ftp!Finish(1, [Ftp!Stopped(chan, FALSE) EXCEPT !.inQ = @ - n])
    BY <1>6, <2>0 DEF Ftp!WriteUpload
  <2>2. [chan EXCEPT !.inQ = 0] \in Channels
    BY ChannelNow DEF Channels
  <2>3. Directed([chan EXCEPT !.inQ = 0], acct.in)
    BY ChannelNow DEF Directed, Channels
  <2>4. ASSUME NEW n \in Int
        PROVE  /\ [Ftp!Stopped(chan, FALSE) EXCEPT !.inQ = @ - n] \in Channels
               /\ Directed([Ftp!Stopped(chan, FALSE) EXCEPT !.inQ = @ - n], acct.in)
    <3> DEFINE c == Ftp!Stopped(chan, FALSE)
               k == c.inQ - n
    <3>1. c \in Channels /\ ~c.on
      BY ChannelNow, StoppedChannel
    <3> HIDE DEF c
    <3>2. k \in Int
      BY <3>1 DEF Channels
    <3> HIDE DEF k
    <3>3. [c EXCEPT !.inQ = k] \in Channels
      BY <3>1, <3>2 DEF Channels
    <3>4. ~[c EXCEPT !.inQ = k].on
      BY <3>1 DEF Channels
    <3> QED BY <3>3, <3>4 DEF Directed, c, k
  <2>5. ASSUME NEW c \in Channels, Directed(c, acct.in), Ftp!Finish(1, c) PROVE FtpInv'
    <3>1. pc' = [pc EXCEPT !.proc = "done"] /\ chan' = c /\ acct' = acct /\ vfsLock' = "free"
      BY <1>6, <2>5 DEF Ftp!Finish, Ftp!WriteUpload
    <3>2. pc' \in Pcs /\ pc'.proc = "done"
      BY <3>1 DEF FtpInv, FtpTyped, Pcs, FtpProcs
    <3> QED BY <2>5, <3>1, <3>2 DEF FtpInv, FtpTyped, FtpOwned, Awaited, Directed,
               Ftp!TransferIsOwned, Ftp!LockOfUpload
  <2> QED BY <2>1, <2>2, <2>3, <2>4, <2>5
<1>7. CASE Ftp!Accepted \/ Ftp!AcceptTimesOut
  <2>0. vfsLock # "me" /\ UNCHANGED <<acct, vfsLock>>
    BY <1>7, LockFree DEF Ftp!Accepted, Ftp!AcceptTimesOut
  <2>1. CASE Ftp!Finish(1, chan)
    BY <2>0, <2>1, ChannelNow, Finishes
  <2> DEFINE c == [chan EXCEPT !.addr = TRUE, !.sock = "open", !.listener = FALSE]
  <2>2. CASE Ftp!Finish(0, c)
    <3>1. c \in Channels
      BY ChannelNow DEF Channels
    <3>2. c.on = chan.on /\ c.send = chan.send /\ c.recv = chan.recv
      BY ChannelNow DEF Channels
    <3> HIDE DEF c
    <3>3. Directed(c, acct'.in)
      BY <2>0, <3>2, ChannelNow DEF Directed
    <3> QED BY <2>0, <2>2, <3>1, <3>3, ChannelNow, Finishes
  <2> QED BY <1>7, <2>1, <2>2 DEF Ftp!Accepted, Ftp!AcceptTimesOut
<1>8. CASE Ftp!Connected
  <2>0. vfsLock # "me" /\ UNCHANGED <<acct, vfsLock>>
    BY <1>8, LockFree DEF Ftp!Connected
  <2> DEFINE c == [chan EXCEPT !.sock = "open"]
             d == IF chan.on THEN Ftp!Stopped(chan, FALSE) ELSE chan
  <2>1. c \in Channels
    BY ChannelNow DEF Channels
  <2>2. c.on = chan.on /\ c.send = chan.send /\ c.recv = chan.recv
    BY ChannelNow DEF Channels
  <2>3. d \in Channels /\ ~d.on
    BY ChannelNow, StoppedChannel
  <2>4. Ftp!Finish(1, c) \/ Ftp!Finish(0, d)
    BY <1>8 DEF Ftp!Connected
  <2> HIDE DEF c, d
  <2>5. Directed(c, acct'.in) /\ Directed(d, acct'.in)
    BY <2>0, <2>2, <2>3, ChannelNow DEF Directed
  <2> QED BY <2>0, <2>1, <2>3, <2>4, <2>5, ChannelNow, Finishes
<1> QED BY <1>1, <1>3, <1>4, <1>5, <1>6, <1>7, <1>8

\* What neither touches the command nor raises the channel.
LEMMA Otherwise ==
  ASSUME FtpInv, UNCHANGED <<todo, acct>>, pc' \in Pcs, pc'.proc = pc.proc,
         vfsLock' = "me" <=> vfsLock = "me", chan' \in Channels, Directed(chan', acct.in)
  PROVE  FtpInv'
BY DEF FtpInv, FtpTyped, FtpOwned, Awaited, Directed, Ftp!TransferIsOwned, Ftp!LockOfUpload

LEMMA DataEnded ==
  ASSUME FtpInv, NEW n, NEW c \in Channels, Directed(c, acct.in), Ftp!DataEnds(n, c),
         UNCHANGED <<todo, acct, vfsLock>>
  PROVE  FtpInv'
<1>1. pc' = [pc EXCEPT !.data = "done"] /\ chan' = c
  BY DEF Ftp!DataEnds
<1>2. pc' \in Pcs /\ pc'.proc = pc.proc
  BY <1>1 DEF FtpInv, FtpTyped, Pcs
<1> QED BY <1>1, <1>2, Otherwise

LEMMA DataHandled ==
  ASSUME FtpInv, Ftp!handle_data_channel \/ Ftp!DataReceived
  PROVE  FtpInv'
<1>0. UNCHANGED <<todo, acct, vfsLock>>
  BY DEF Ftp!handle_data_channel, Ftp!DataReceived
<1>1. ASSUME NEW n, Ftp!DataEnds(n, chan) PROVE FtpInv'
  BY <1>0, <1>1, ChannelNow, DataEnded
<1>2. ASSUME NEW n, NEW c \in Channels, NEW purge \in BOOLEAN, Ftp!DataEnds(n, Ftp!Stopped(c, purge))
      PROVE  FtpInv'
  BY <1>0, <1>2, StoppedChannel, DataEnded DEF Directed
<1> DEFINE outQ == Tail(chan.outQ)
           rest == [chan EXCEPT !.outQ = outQ]
<1>3. ASSUME chan.outQ # <<>> PROVE outQ \in Seq({"raw", "file"})
  BY <1>3, ChannelNow, HeadTailProperties DEF Channels
<1> HIDE DEF outQ
<1>4. ASSUME chan.outQ # <<>> PROVE rest \in Channels
  BY <1>3, <1>4, ChannelNow DEF Channels
<1>5. rest.on = chan.on /\ rest.send = chan.send /\ rest.recv = chan.recv
  BY ChannelNow DEF Channels
<1>6. CASE chan.on /\ ~chan.send /\ Ftp!SendItem
  <2>0. chan.outQ # <<>> /\ chan.recv
    BY <1>6, ChannelNow DEF Ftp!SendItem
  <2>1. ASSUME NEW n, NEW last \in BOOLEAN, Ftp!DataEnds(n, [rest EXCEPT !.send = last])
        PROVE  FtpInv'
    <3> HIDE DEF rest
    <3>1. [rest EXCEPT !.send = last] \in Channels
      BY <1>4, <2>0 DEF Channels
    <3>2. [rest EXCEPT !.send = last].recv /\ ([rest EXCEPT !.send = last].on => chan.on)
      BY <1>4, <1>5, <2>0 DEF Channels
    <3>3. Directed([rest EXCEPT !.send = last], acct.in)
      BY <3>2, ChannelNow DEF Directed
    <3> QED BY <1>0, <2>1, <3>1, <3>3, DataEnded
  <2>2. \/ FtpInv'
        \/ Ftp!DataEnds(0, Ftp!Stopped(chan, TRUE))
        \/ Ftp!DataEnds(1, Ftp!Stopped(rest, FALSE))
    <3>1. \/ Ftp!DataEnds(IF outQ = <<>> THEN 1 ELSE 0, [rest EXCEPT !.send = (outQ = <<>>)])
          \/ Ftp!DataEnds(0, Ftp!Stopped(chan, TRUE))
          \/ Ftp!DataEnds(1, Ftp!Stopped(rest, FALSE))
      BY <1>6 DEF Ftp!SendItem, outQ
    <3>2. (outQ = <<>>) \in BOOLEAN
      OBVIOUS
    <3> HIDE DEF rest
    <3> QED BY <2>1, <3>1, <3>2
  <2> QED BY <1>2, <1>4, <2>0, <2>2, ChannelNow
<1>7. CASE pc' = [pc EXCEPT !.data = "recv"] /\ chan' = chan
  <2>1. pc' \in Pcs /\ pc'.proc = pc.proc
    BY <1>7 DEF FtpInv, FtpTyped, Pcs
  <2> QED BY <1>0, <1>7, <2>1, ChannelNow, Otherwise
<1>8. ASSUME NEW n \in 0..1, Ftp!DataEnds(1, [chan EXCEPT !.recv = TRUE, !.inQ = @ + 2 * n])
      PROVE  FtpInv'
  <2> DEFINE k == chan.inQ + 2 * n
             c == [chan EXCEPT !.recv = TRUE, !.inQ = k]
  <2>1. k \in Int
    BY ChannelNow DEF Channels
  <2> HIDE DEF k
  <2>2. c \in Channels
    BY <2>1, ChannelNow DEF Channels
  <2>3. c.recv /\ c.on = chan.on
    BY ChannelNow DEF Channels
  <2>4. Ftp!DataEnds(1, c)
    BY <1>8 DEF k
  <2> HIDE DEF c
  <2>5. Directed(c, acct.in)
    BY <2>3, ChannelNow DEF Directed
  <2> QED BY <1>0, <2>2, <2>4, <2>5, DataEnded
<1>9. CASE Ftp!handle_data_channel
  <2>1. \/ chan.on /\ ~chan.send /\ Ftp!SendItem
        \/ pc' = [pc EXCEPT !.data = "recv"] /\ chan' = chan
        \/ Ftp!DataEnds(0, chan)
        \/ Ftp!DataEnds(1, Ftp!Stopped(chan, TRUE))
        \/ Ftp!DataEnds(0, Ftp!Stopped(chan, FALSE))
    BY <1>9 DEF Ftp!handle_data_channel
  <2> QED BY <1>1, <1>2, <1>6, <1>7, <2>1, ChannelNow
<1>10. CASE Ftp!DataReceived
  BY <1>2, <1>8, <1>10, ChannelNow DEF Ftp!DataReceived
<1> QED BY <1>9, <1>10

LEMMA CommandHandled ==
  ASSUME FtpInv, Ftp!Select \/ Ftp!handle_cmd_channel \/ Ftp!NextRound
  PROVE  FtpInv'
<1>1. CASE Ftp!Select \/ Ftp!handle_cmd_channel
  <2>0. UNCHANGED <<todo, acct, vfsLock>> /\ (chan' = chan \/ chan' = Ftp!Stopped(chan, TRUE))
    BY <1>1 DEF Ftp!Select, Ftp!handle_cmd_channel
  <2>1. pc' = [pc EXCEPT !.cmd = "selected"] \/ pc' = [pc EXCEPT !.cmd = "done"]
    BY <1>1 DEF Ftp!Select, Ftp!handle_cmd_channel
  <2>2. pc' \in Pcs /\ pc'.proc = pc.proc
    BY <2>1 DEF FtpInv, FtpTyped, Pcs
  <2>3. chan' \in Channels /\ Directed(chan', acct.in)
    BY <2>0, ChannelNow, StoppedChannel DEF Directed
  <2> QED BY <2>0, <2>2, <2>3, Otherwise
<1>2. CASE Ftp!NextRound
  <2>0. UNCHANGED <<todo, acct, chan, vfsLock>>
    BY <1>2 DEF Ftp!NextRound
  <2>1. CASE pc' = pc
    BY <2>0, <2>1, ChannelNow, Otherwise DEF FtpInv, FtpTyped
  <2>2. CASE pc' = [cmd |-> "select", proc |-> "ready", data |-> "ready"]
    <3>1. pc.proc = "done"
      BY <1>2 DEF Ftp!NextRound
    <3>2. pc' \in Pcs /\ pc'.proc = "ready"
      BY <2>2 DEF Pcs, FtpProcs
    <3> QED BY <2>0, <3>1, <3>2 DEF FtpInv, FtpTyped, FtpOwned, Awaited,
               Ftp!TransferIsOwned, Ftp!LockOfUpload
  <2> QED BY <1>2, <2>1, <2>2 DEF Ftp!NextRound
<1> QED BY <1>1, <1>2

LEMMA NextFtpInv == FtpInv /\ [Ftp!FtpNext]_ftpState => FtpInv'
<1> SUFFICES ASSUME FtpInv, [Ftp!FtpNext]_ftpState PROVE FtpInv'
  OBVIOUS
<1>1. ASSUME UNCHANGED <<pc, todo, acct, chan>>, vfsLock' = "me" <=> vfsLock = "me"
      PROVE  FtpInv'
  BY <1>1, ChannelNow, Otherwise DEF FtpInv, FtpTyped
<1>2. CASE UNCHANGED ftpState
  BY <1>1, <1>2 DEF ftpState
<1>3. ASSUME \/ Ftp!SendCommand \/ Ftp!GoStale
             \/ \E how \in {"closed", "reset"} : Ftp!Leave(how)
      PROVE  FtpInv'
  BY <1>1, <1>3 DEF Ftp!SendCommand, Ftp!GoStale, Ftp!Leave
<1>4. CASE Ftp!OtherUpload
  BY <1>1, <1>4 DEF Ftp!OtherUpload
<1> QED BY <1>2, <1>3, <1>4, Commanded, Resumed, DataHandled, CommandHandled
        DEF Ftp!FtpNext, Ftp!Server, Ftp!Client

LEMMA SpecFtpInv == Spec => []FtpInv
<1>1. Init => FtpInv
  BY InitFtpInv
<1>2. FtpInv /\ [Next]_vars => FtpInv'
  BY NextFtpInv, Steps
<1> QED BY <1>1, <1>2, PTL DEF Spec

\* A transfer runs only for a client that is logged in and in one direction, and
\* the lock of the file system is an upload's, for every order in which the three
\* greenlets, their waits and the data connection can come.
THEOREM TransfersOwned == Spec => []FtpOwned
<1>1. FtpInv => FtpOwned
  BY DEF FtpInv
<1> QED BY <1>1, SpecFtpInv, PTL

\* Past the bad logins a command has none of the steps that log in: the ones that
\* waited go on without looking at the login, and are not among those.
LEMMA StepLockedOut ==
  ASSUME FtpInv, [Ftp!FtpNext]_ftpState, acct.bad >= MaxAttempts, acct'.in
  PROVE  acct.in
<1>1. CASE UNCHANGED acct
  BY <1>1
<1>2. CASE Ftp!StopResumes
  <2>1. todo \in {"REIN", "PASV", "PORT"} /\ Ftp!Dispatch(todo)
    BY <1>2 DEF Ftp!StopResumes, FtpInv, Awaited
  <2>2. Ftp!do_REIN \/ Ftp!do_PASV \/ Ftp!do_PORT
    BY <2>1 DEF Ftp!Dispatch
  <2>3. UNCHANGED acct \/ acct' = [acct EXCEPT !.user = "none", !.in = FALSE]
    BY <2>2 DEF Ftp!do_REIN, Ftp!do_PASV, Ftp!do_PORT
  <2>4. [acct EXCEPT !.user = "none", !.in = FALSE].in = FALSE
    BY ChannelNow DEF Accounts
  <2> QED BY <1>1, <2>3, <2>4
<1>3. CASE Ftp!process_ftp_command
  <2>1. ASSUME NEW c \in Ftp!Commands, Ftp!pre_process_cmd(c) PROVE UNCHANGED acct
    BY <2>1 DEF Ftp!pre_process_cmd, Ftp!process_command, Ftp!do_NOOP
  <2> QED BY <1>1, <1>3, <2>1 DEF Ftp!process_ftp_command
<1>4. Ftp!StopResumes \/ Ftp!process_ftp_command \/ UNCHANGED acct
  BY DEF ftpState, Ftp!FtpNext, Ftp!Server, Ftp!Client, Ftp!Select, Ftp!handle_data_channel,
         Ftp!handle_cmd_channel, Ftp!NextRound, Ftp!AcceptTimesOut, Ftp!Connected,
         Ftp!StartResumes, Ftp!TakeLock, Ftp!RecvDone, Ftp!WriteUpload, Ftp!SendCommand,
         Ftp!Leave, Ftp!Accepted, Ftp!DataReceived, Ftp!GoStale, Ftp!OtherUpload
<1> QED BY <1>1, <1>2, <1>3, <1>4

\* A client with too many bad logins never becomes logged in, whichever command
\* was waiting when the last of them was counted.
THEOREM NeverLoggedIn == Spec => LockedOut
<1> DEFINE Once == acct.bad >= MaxAttempts => (acct'.in => acct.in)
<1>1. FtpInv /\ [Next]_vars => [Once]_(Ftp!ftpVars)
  BY StepLockedOut, Steps
<1>2. LockedOut <=> [][Once]_(Ftp!ftpVars)
  BY DEF LockedOut, Ftp!LockedOut
<1> QED BY <1>1, <1>2, SpecFtpInv, PTL DEF Spec

(* --------------------------------- TFTP ---------------------------------- *)
TftpPhases == {"new", "expectACK", "expectDAT", "complete", "written", "cut", "failed", "ended"}
Jobs == [op : {"none", "read", "write"}, len : Nat, last : BOOLEAN, ready : BOOLEAN]
Units == Transfers \union {"none"}

\* Where a transfer of one kind can be; what has been stored of it only shows once
\* it has ended, and the job it ends with is the one it began with.
TftpTyped ==
  /\ at \in [Transfers -> TftpPhases]
  /\ job \in [Transfers -> Jobs]
  /\ stored \in Seq(Units)
  /\ copies \in [Transfers -> Seq(Units)]
StartedOnce ==
  \A t \in Transfers :
    /\ at[t] = "expectDAT" => job[t].op = "write"
    /\ at[t] = "expectACK" => job[t].op = "read"
    /\ at[t] = "complete" => job[t].op = "read" \/ job[t].last
Unseen(t) == copies[t] = Tftp!NoFile /\ \A i \in 1..Len(stored) : stored[i] # t
Copied(t) ==
  copies[t] # Tftp!NoFile =>
    /\ job[t].last
    /\ job[t].len <= Len(copies[t])
    /\ \A i \in 1..Len(copies[t]) : IF i <= job[t].len THEN copies[t][i] = t ELSE copies[t][i] # t
TftpInv ==
  /\ TftpTyped /\ StartedOnce
  /\ \A t \in Transfers : at[t] # "ended" => Unseen(t)
  /\ \A t \in Transfers : Copied(t)

Overlaid(t, file) ==
  /\ job[t].len <= Len(file)
  /\ \A i \in 1..Len(file) :
       IF i <= job[t].len THEN file[i] = t ELSE i <= Len(stored) /\ file[i] = stored[i]
Writes(t) == job[t].op = "write" /\ at[t] \in {"complete", "written"}

\* What closing the file of a transfer leaves: its block over what was there.
LEMMA ClosedFile ==
  ASSUME TftpTyped, NEW t \in Transfers
  PROVE  /\ Tftp!Closed(t) \in Seq(Units)
         /\ ~Writes(t) => Tftp!Closed(t) = stored
         /\ Writes(t) => Overlaid(t, Tftp!Closed(t))
<1> DEFINE n == job[t].len
           block == Tftp!Block(t, n)
           rest == SubSeq(stored, n + 1, Len(stored))
<1>0. job[t] \in Jobs /\ stored \in Seq(Units)
  BY DEF TftpTyped
<1>1. n \in Nat /\ Len(stored) \in Nat /\ t \in Units
  BY <1>0 DEF Jobs, Units
<1> HIDE DEF n
<1>2. block \in Seq(Units) /\ Len(block) = n /\ \A i \in 1..n : block[i] = t
  BY <1>1 DEF Tftp!Block
<1>3. /\ rest \in Seq(Units)
      /\ Len(rest) = IF n + 1 <= Len(stored) THEN Len(stored) - n ELSE 0
      /\ \A i \in 1..Len(stored) - n : rest[i] = stored[n + i]
  <2>1. n + 1 \in Int /\ Len(stored) \in Int
    BY <1>1
  <2>2. \A i \in n + 1..Len(stored) : stored[i] \in Units
    <3> TAKE i \in n + 1..Len(stored)
    <3>1. i \in 1..Len(stored)
      BY <1>1
    <3> QED BY <1>0, <3>1, ElementOfSeq
  <2>3. /\ rest \in Seq(Units)
        /\ Len(rest) = IF n + 1 <= Len(stored) THEN Len(stored) - (n + 1) + 1 ELSE 0
        /\ \A i \in 1..Len(stored) - (n + 1) + 1 : rest[i] = stored[n + 1 + i - 1]
    BY <2>1, <2>2, SubSeqProperties
  <2> QED BY <1>1, <2>3
<1> HIDE DEF block, rest
<1>4. /\ block \o rest \in Seq(Units)
      /\ Len(block \o rest) = n + Len(rest)
      /\ \A i \in 1..n + Len(rest) : (block \o rest)[i] = IF i <= n THEN block[i] ELSE rest[i - n]
  BY <1>2, <1>3, ConcatProperties
<1>5. Tftp!Closed(t) = IF Writes(t) THEN block \o rest ELSE stored
  BY DEF Tftp!Closed, Writes, block, rest, n
<1>6. CASE Writes(t)
  <2>1. n <= Len(block \o rest)
    BY <1>1, <1>3, <1>4
  <2>2. ASSUME NEW i \in 1..Len(block \o rest)
        PROVE  IF i <= n THEN (block \o rest)[i] = t
               ELSE i <= Len(stored) /\ (block \o rest)[i] = stored[i]
    <3>1. i \in Nat /\ 1 <= i /\ i <= n + Len(rest)
      BY <1>1, <1>3, <1>4
    <3>2. CASE i <= n
      BY <1>1, <1>2, <1>4, <3>1, <3>2
    <3>3. CASE ~(i <= n)
      <4>1. i - n \in 1..Len(stored) - n /\ n + (i - n) = i
        BY <1>1, <1>3, <3>1, <3>3
      <4>2. (block \o rest)[i] = rest[i - n]
        BY <1>1, <1>3, <1>4, <3>1, <3>3
      <4> QED BY <1>1, <1>3, <3>3, <4>1, <4>2
    <3> QED BY <3>2, <3>3
  <2> QED BY <1>4, <1>5, <1>6, <2>1, <2>2 DEF Overlaid, n
<1> QED BY <1>0, <1>5, <1>6

LEMMA InitTftpInv == Init /\ "none" \notin Transfers => TftpInv
<1> SUFFICES ASSUME Init, "none" \notin Transfers PROVE TftpInv
  OBVIOUS
<1>1. Tftp!TftpInit
  BY DEF Init
<1>2. TftpTyped
  <2>1. at \in [Transfers -> TftpPhases]
    BY <1>1 DEF Tftp!TftpInit, TftpPhases
  <2>2. [op |-> "none", len |-> 0, last |-> FALSE, ready |-> FALSE] \in Jobs
    BY DEF Jobs
  <2>3. job \in [Transfers -> Jobs]
    BY <1>1, <2>2 DEF Tftp!TftpInit
  <2>4. Tftp!NoFile \in Seq(Units)
    BY DEF Tftp!NoFile, Units
  <2>5. stored \in Seq(Units) /\ copies \in [Transfers -> Seq(Units)]
    BY <1>1, <2>4 DEF Tftp!TftpInit
  <2> QED BY <2>1, <2>3, <2>5 DEF TftpTyped
<1>3. StartedOnce
  BY <1>1 DEF Tftp!TftpInit, StartedOnce
<1>4. \A t \in Transfers : copies[t] = Tftp!NoFile
  BY <1>1 DEF Tftp!TftpInit
<1>5. \A t \in Transfers : \A i \in 1..Len(stored) : stored[i] # t
  BY <1>1 DEF Tftp!TftpInit, Tftp!NoFile
<1> QED BY <1>2, <1>3, <1>4, <1>5 DEF TftpInv, Unseen, Copied

\* A step that neither stores nor copies anything, and keeps the jobs under way.
LEMMA TransferKept ==
  ASSUME TftpInv, NEW t \in Transfers, NEW phase \in TftpPhases, Tftp!Goes(t, phase),
         at[t] # "ended", phase # "ended", job' \in [Transfers -> Jobs],
         \A u \in Transfers \ {t} : job'[u] = job[u],
         stored' = stored \/ stored' = <<>>, copies' = copies,
         phase = "expectDAT" => job'[t].op = "write",
         phase = "expectACK" => job'[t].op = "read",
         phase = "complete" => job'[t].op = "read" \/ job'[t].last
  PROVE  TftpInv'
<1>0. /\ at \in [Transfers -> TftpPhases] /\ stored \in Seq(Units)
      /\ at' = [at EXCEPT ![t] = phase] /\ copies \in [Transfers -> Seq(Units)]
  BY DEF TftpInv, TftpTyped, Tftp!Goes
<1>1. at'[t] = phase /\ \A u \in Transfers : u # t => at'[u] = at[u]
  BY <1>0
<1>2. TftpTyped'
  <2>1. at' \in [Transfers -> TftpPhases]
    BY <1>0
  <2>2. stored' \in Seq(Units)
    <3>1. <<>> \in Seq(Units)
      BY EmptySeq
    <3> QED BY <1>0, <3>1
  <2> QED BY <1>0, <2>1, <2>2 DEF TftpTyped
<1>3. StartedOnce'
  BY <1>1 DEF TftpInv, StartedOnce
<1>4. ASSUME NEW u \in Transfers, at'[u] # "ended" PROVE Unseen(u)'
  <2>1. at[u] # "ended"
    BY <1>1, <1>4
  <2>2. Unseen(u)
    BY <2>1 DEF TftpInv
  <2> QED BY <2>2 DEF Unseen
<1>5. ASSUME NEW u \in Transfers PROVE Copied(u)'
  <2>1. CASE u = t
    BY <2>1 DEF TftpInv, Unseen, Copied
  <2>2. CASE u # t
    BY <2>2 DEF TftpInv, Copied
  <2> QED BY <2>1, <2>2
<1> QED BY <1>2, <1>3, <1>4, <1>5 DEF TftpInv

\* The end of a transfer: its file is closed, and copied if it is a whole upload.
LEMMA TransferEnds ==
  ASSUME TftpInv, NEW t \in Transfers, Tftp!end(t)
  PROVE  TftpInv'
<1>0. /\ at \in [Transfers -> TftpPhases] /\ stored \in Seq(Units)
      /\ at' = [at EXCEPT ![t] = "ended"] /\ copies \in [Transfers -> Seq(Units)]
      /\ job' = job /\ stored' = Tftp!Closed(t) /\ TftpTyped
  BY DEF TftpInv, TftpTyped, Tftp!Goes, Tftp!end
<1>1. at'[t] = "ended" /\ (\A u \in Transfers : u # t => at'[u] = at[u]) /\ at[t] # "ended"
  BY <1>0 DEF Tftp!end
<1>2. Tftp!Closed(t) \in Seq(Units)
  BY <1>0, ClosedFile
<1>3. copies' \in [Transfers -> Seq(Units)] /\ \A u \in Transfers \ {t} : copies'[u] = copies[u]
  <2>1. copies' = copies \/ copies' = [copies EXCEPT ![t] = Tftp!Closed(t)]
    BY DEF Tftp!end
  <2> QED BY <1>0, <1>2, <2>1
<1>4. TftpTyped'
  BY <1>0, <1>2, <1>3 DEF TftpTyped, TftpPhases
<1>5. StartedOnce'
  BY <1>0, <1>1 DEF TftpInv, StartedOnce
<1>6. ASSUME NEW u \in Transfers, at'[u] # "ended" PROVE Unseen(u)'
  <2>1. at[u] # "ended" /\ u # t
    BY <1>1, <1>6
  <2>2. Unseen(u)
    BY <2>1 DEF TftpInv
  <2>3. \A i \in 1..Len(Tftp!Closed(t)) : Tftp!Closed(t)[i] # u
    <3>1. CASE Tftp!Closed(t) = stored
      BY <2>2, <3>1 DEF Unseen
    <3>2. CASE Overlaid(t, Tftp!Closed(t))
      <4> SUFFICES ASSUME NEW i \in 1..Len(Tftp!Closed(t)), Tftp!Closed(t)[i] = u PROVE FALSE
        OBVIOUS
      <4>1. i <= Len(stored) /\ stored[i] = u
        BY <2>1, <3>2 DEF Overlaid
      <4>2. i \in 1..Len(stored)
        BY <1>0, <1>2, <4>1, LenProperties
      <4> QED BY <2>2, <4>1, <4>2 DEF Unseen
    <3> QED BY <1>0, <3>1, <3>2, ClosedFile
  <2> QED BY <1>0, <1>3, <2>1, <2>2, <2>3 DEF Unseen
<1>7. ASSUME NEW u \in Transfers PROVE Copied(u)'
  <2>1. CASE u = t
    <3>1. Unseen(t)
      BY <1>1 DEF TftpInv
    <3>2. CASE copies' = copies
      BY <2>1, <3>1, <3>2 DEF Unseen, Copied
    <3>3. CASE at[t] = "complete" /\ job[t].op = "write"
               /\ copies' = [copies EXCEPT ![t] = Tftp!Closed(t)]
      <4>1. job[t].last
        BY <3>3 DEF TftpInv, StartedOnce
      <4>2. copies'[t] = Tftp!Closed(t)
        BY <1>0, <3>3
      <4>3. ASSUME NEW i \in 1..Len(Tftp!Closed(t)), i <= Len(stored), Tftp!Closed(t)[i] = stored[i]
            PROVE  Tftp!Closed(t)[i] # t
        <5>1. i \in 1..Len(stored)
          BY <1>0, <1>2, <4>3, LenProperties
        <5> QED BY <3>1, <4>3, <5>1 DEF Unseen
      <4>4. Overlaid(t, Tftp!Closed(t))
        BY <1>0, <3>3, ClosedFile DEF Writes
      <4> QED BY <1>0, <2>1, <4>1, <4>2, <4>3, <4>4 DEF Copied, Overlaid
    <3> QED BY <3>2, <3>3 DEF Tftp!end
  <2>2. CASE u # t
    BY <1>0, <1>3, <2>2 DEF TftpInv, Copied
  <2> QED BY <2>1, <2>2
<1> QED BY <1>4, <1>5, <1>6, <1>7 DEF TftpInv

LEMMA NextTftpInv ==
  ASSUME MaxUnits \in Nat, TftpInv, [Tftp!TftpNext]_tftpState
  PROVE  TftpInv'
<1>0. at \in [Transfers -> TftpPhases] /\ job \in [Transfers -> Jobs] /\ stored \in Seq(Units)
  BY DEF TftpInv, TftpTyped
<1>1. CASE UNCHANGED tftpState
  BY <1>1 DEF tftpState, TftpInv, TftpTyped, StartedOnce, Unseen, Copied
<1>2. ASSUME NEW t \in Transfers, Tftp!start(t) PROVE TftpInv'
  <2>0. at[t] = "new"
    BY <1>2 DEF Tftp!start
  <2>1. ASSUME NEW options \in BOOLEAN, Tftp!TFTPStateServerRecvRRQ(t, options) PROVE TftpInv'
    <3> DEFINE j == [job[t] EXCEPT !.op = "read", !.ready = ~options]
    <3>1. job' = [job EXCEPT ![t] = j]
      BY <2>1 DEF Tftp!TFTPStateServerRecvRRQ
    <3>2. j \in Jobs
      BY <1>0 DEF Jobs
    <3>3. j.op = "read"
      BY <1>0 DEF Jobs
    <3> HIDE DEF j
    <3>4. /\ job' \in [Transfers -> Jobs] /\ job'[t].op = "read"
          /\ \A u \in Transfers \ {t} : job'[u] = job[u]
      BY <1>0, <3>1, <3>2, <3>3
    <3>5. \E phase \in {"failed", "expectACK"} : Tftp!Goes(t, phase)
      BY <2>1 DEF Tftp!TFTPStateServerRecvRRQ
    <3>6. stored' = stored /\ copies' = copies
      BY <2>1 DEF Tftp!TFTPStateServerRecvRRQ
    <3> QED BY <2>0, <3>4, <3>5, <3>6, TransferKept DEF TftpPhases
  <2>2. ASSUME NEW len \in 1..MaxUnits, NEW last \in BOOLEAN,
               Tftp!TFTPStateServerRecvWRQ(t, len, last)
        PROVE  TftpInv'
    <3> DEFINE j == [op |-> "write", len |-> len, last |-> last, ready |-> FALSE]
    <3>1. job' = [job EXCEPT ![t] = j]
      BY <2>2 DEF Tftp!TFTPStateServerRecvWRQ
    <3>2. len \in Nat
      OBVIOUS
    <3>3. j \in Jobs /\ j.op = "write"
      BY <3>2 DEF Jobs
    <3> HIDE DEF j
    <3>4. /\ job' \in [Transfers -> Jobs] /\ job'[t].op = "write"
          /\ \A u \in Transfers \ {t} : job'[u] = job[u]
      BY <1>0, <3>1, <3>3
    <3>5. Tftp!Goes(t, "expectDAT") /\ stored' = <<>> /\ copies' = copies
      BY <2>2 DEF Tftp!TFTPStateServerRecvWRQ
    <3> QED BY <2>0, <3>4, <3>5, TransferKept DEF TftpPhases
  <2>3. CASE Tftp!Goes(t, "failed") /\ UNCHANGED <<job, stored, copies>>
    BY <1>0, <2>0, <2>3, TransferKept DEF TftpPhases
  <2> QED BY <1>2, <2>1, <2>2, <2>3 DEF Tftp!start
<1>3. ASSUME NEW t \in Transfers, Tftp!cycle(t) \/ Tftp!TftpTimeout(t) PROVE TftpInv'
  <2>1. at[t] \in {"expectDAT", "expectACK"} /\ UNCHANGED <<job, stored, copies>>
    BY <1>3 DEF Tftp!cycle, Tftp!TftpTimeout
  <2>2. PICK phase \in {"complete", "written", "cut", "failed"} :
          /\ Tftp!Goes(t, phase)
          /\ phase = "complete" => job[t].last \/ at[t] = "expectACK"
    BY <1>3 DEF Tftp!cycle, Tftp!TftpTimeout
  <2>3. at[t] = "expectACK" => job[t].op = "read"
    BY DEF TftpInv, StartedOnce
  <2> QED BY <1>0, <2>1, <2>2, <2>3, TransferKept DEF TftpPhases
<1> QED BY <1>1, <1>2, <1>3, TransferEnds DEF Tftp!TftpNext

LEMMA WholeCopies == TftpInv => Tftp!CopyIsWhole
<1> SUFFICES ASSUME TftpInv, NEW t \in Transfers, copies[t] # Tftp!NoFile
             PROVE  /\ job[t].last /\ Tftp!IsPrefix(Tftp!Block(t, job[t].len), copies[t])
                    /\ \A i \in 1..Len(copies[t]) : copies[t][i] = t => i <= job[t].len
  BY DEF Tftp!CopyIsWhole
<1> DEFINE n == job[t].len
           c == copies[t]
           block == Tftp!Block(t, n)
<1>1. n \in Nat /\ c \in Seq(Units) /\ t \in Units
  BY DEF TftpInv, TftpTyped, Jobs, Units
<1>2. /\ job[t].last /\ n <= Len(c)
      /\ \A i \in 1..Len(c) : IF i <= n THEN c[i] = t ELSE c[i] # t
  BY DEF TftpInv, Copied
<1> HIDE DEF n, c
<1>3. block \in Seq(Units) /\ Len(block) = n /\ \A i \in 1..n : block[i] = t
  BY <1>1 DEF Tftp!Block
<1> HIDE DEF block
<1>4. SubSeq(block, 1, n) = block
  BY <1>3, SubSeqFull
<1>5. Len(c) \in Nat /\ \A i \in 1..n : i \in 1..Len(c) /\ i <= n
  BY <1>1, <1>2
<1>6. /\ SubSeq(c, 1, n) \in Seq(Units)
      /\ Len(SubSeq(c, 1, n)) = n
      /\ \A i \in 1..n : SubSeq(c, 1, n)[i] = c[i]
  <2>1. \A i \in 1..n : c[i] \in Units
    BY <1>1, <1>5, ElementOfSeq
  <2>2. /\ SubSeq(c, 1, n) \in Seq(Units)
        /\ Len(SubSeq(c, 1, n)) = IF 1 <= n THEN n - 1 + 1 ELSE 0
        /\ \A i \in 1..n - 1 + 1 : SubSeq(c, 1, n)[i] = c[1 + i - 1]
    BY <1>1, <2>1, SubSeqProperties
  <2> QED BY <1>1, <2>2
<1>7. SubSeq(c, 1, n) = block
  <2>1. \A i \in 1..n : SubSeq(c, 1, n)[i] = block[i]
    BY <1>2, <1>3, <1>5, <1>6
  <2> QED BY <1>3, <1>6, <2>1, SeqEqual
<1>8. Tftp!IsPrefix(block, c)
  BY <1>2, <1>3, <1>4, <1>7 DEF Tftp!IsPrefix
<1> QED BY <1>2, <1>8 DEF n, c, block

LEMMA SpecTftp ==
  ASSUME "none" \notin Transfers, MaxUnits \in Nat
  PROVE  Spec => []Tftp!CopyIsWhole
<1>1. Init => TftpInv
  BY InitTftpInv
<1>2. TftpInv /\ [Next]_vars => TftpInv'
  BY NextTftpInv, Steps
<1>3. TftpInv => Tftp!CopyIsWhole
  BY WholeCopies
<1> QED BY <1>1, <1>2, <1>3, PTL DEF Spec

(* -------------------------- FTP's file system ---------------------------- *)
\* A path with a length and names of its own; what is stored has its directory,
\* the root is one, and the cache answers for nothing else.
Path(p) == p \in Files!Paths
UploadsTyped ==
  upload \in [FtpClients -> [path : Files!Paths, cmd : {"none", "STOR", "APPE", "REST"}]]
FilesTyped ==
  /\ tree \in [Files!Paths -> {"none", "dir", "file"}]
  /\ DOMAIN meta = Files!Paths
Rooted == Path(Files!Root) /\ tree[Files!Root] = "dir"
FilesInv == FilesTyped /\ Rooted /\ Files!NoGhost

LEMMA PathLengths ==
  ASSUME MaxDepth \in Nat, NEW p
  PROVE  /\ Path(p) => p \in Seq(1..MaxName) /\ Len(p) \in 0..MaxDepth /\ Len(p) \in Nat
         /\ p \in Seq(1..MaxName) /\ Len(p) <= MaxDepth => Path(p)
<1>1. ASSUME Path(p)
      PROVE  p \in Seq(1..MaxName) /\ Len(p) \in 0..MaxDepth /\ Len(p) \in Nat
  <2>1. PICK n \in 0..MaxDepth : p \in [1..n -> 1..MaxName]
    BY <1>1 DEF Path, Files!Paths
  <2>2. n \in Nat
    OBVIOUS
  <2>3. p \in Seq(1..MaxName)
    BY <2>1, <2>2, SeqDef
  <2>4. Len(p) = n
    <3>1. DOMAIN p = 1..n /\ DOMAIN p = 1..Len(p) /\ Len(p) \in Nat
      BY <2>1, <2>3, LenProperties
    <3> QED BY <2>2, <3>1
  <2> QED BY <2>2, <2>3, <2>4
<1>2. ASSUME p \in Seq(1..MaxName), Len(p) <= MaxDepth PROVE Path(p)
  <2>1. Len(p) \in Nat /\ p \in [1..Len(p) -> 1..MaxName]
    BY <1>2, LenProperties
  <2>2. Len(p) \in 0..MaxDepth
    BY <1>2, <2>1
  <2> QED BY <2>1, <2>2 DEF Path, Files!Paths
<1> QED BY <1>1, <1>2

\* The directory of a path is one name shorter, and the start of the path.
LEMMA ParentPath ==
  ASSUME MaxDepth \in Nat, NEW p, Path(p), p # Files!Root
  PROVE  /\ Path(Files!Parent(p)) /\ Len(p) >= 1
         /\ Files!Parent(p) = SubSeq(p, 1, Len(p) - 1)
         /\ Files!Parent(p) = Files!Front(p)
         /\ Len(Files!Parent(p)) = Len(p) - 1
         /\ \A i \in 1..Len(p) - 1 : Files!Parent(p)[i] = p[i]
<1>1. p \in Seq(1..MaxName) /\ Len(p) \in Nat /\ Len(p) <= MaxDepth
  BY PathLengths
<1>2. Len(p) >= 1
  BY <1>1, EmptySeq DEF Files!Root
<1>3. Files!Parent(p) = SubSeq(p, 1, Len(p) - 1) /\ Files!Parent(p) = Files!Front(p)
  BY DEF Files!Parent, Files!Front
<1> DEFINE d == SubSeq(p, 1, Len(p) - 1)
<1>4. \A i \in 1..Len(p) - 1 : p[i] \in 1..MaxName
  <2> TAKE i \in 1..Len(p) - 1
  <2>1. i \in 1..Len(p)
    BY <1>1
  <2> QED BY <1>1, <2>1, ElementOfSeq
<1>5. /\ d \in Seq(1..MaxName)
      /\ Len(d) = IF 1 <= Len(p) - 1 THEN Len(p) - 1 - 1 + 1 ELSE 0
      /\ \A i \in 1..Len(p) - 1 - 1 + 1 : d[i] = p[1 + i - 1]
  <2>1. Len(p) - 1 \in Int
    BY <1>1
  <2> HIDE DEF d
  <2> QED BY <1>4, <2>1, SubSeqProperties DEF d
<1> HIDE DEF d
<1>6. Len(d) = Len(p) - 1 /\ \A i \in 1..Len(p) - 1 : d[i] = p[i]
  <2>1. Len(p) - 1 - 1 + 1 = Len(p) - 1 /\ Len(p) - 1 \in Nat
    BY <1>1, <1>2
  <2> DEFINE n == Len(p) - 1
  <2>2. Len(d) = Len(p) - 1
    <3>1. n \in Nat /\ Len(d) = IF 1 <= n THEN n - 1 + 1 ELSE 0
      BY <1>5, <2>1
    <3> HIDE DEF n
    <3>2. Len(d) = n
      BY <3>1
    <3> QED BY <3>2 DEF n
  <2>3. ASSUME NEW i \in 1..Len(p) - 1 PROVE d[i] = p[i]
    <3>1. i \in 1..Len(p) - 1 - 1 + 1 /\ 1 + i - 1 = i
      BY <2>1
    <3> QED BY <1>5, <3>1
  <2> QED BY <2>2, <2>3
<1>7. Len(d) <= MaxDepth
  BY <1>1, <1>6
<1> QED BY <1>2, <1>3, <1>5, <1>6, <1>7, PathLengths DEF d

\* A path lies below each of its starts, and below nothing else; the directory of
\* what lies below p is p or lies below it.
Start(p, q) == Len(p) <= Len(q) /\ \A i \in 1..Len(p) : p[i] = q[i]

LEMMA Prefixes ==
  ASSUME MaxDepth \in Nat, NEW p, NEW q, Path(p), Path(q)
  PROVE  Files!IsPrefix(p, q) <=> Start(p, q)
<1> DEFINE s == SubSeq(p, 1, Len(p))
           t == SubSeq(q, 1, Len(p))
<1>1. /\ p \in Seq(1..MaxName) /\ Len(p) \in Nat
      /\ q \in Seq(1..MaxName) /\ Len(q) \in Nat
  BY PathLengths
<1>2. s = p
  BY <1>1, SubSeqFull
<1>3. ASSUME Len(p) <= Len(q)
      PROVE  t \in Seq(1..MaxName) /\ Len(t) = Len(p) /\ \A i \in 1..Len(p) : t[i] = q[i]
  <2>1. \A i \in 1..Len(p) : q[i] \in 1..MaxName
    <3> TAKE i \in 1..Len(p)
    <3>1. i \in 1..Len(q)
      BY <1>1, <1>3
    <3> QED BY <1>1, <3>1, ElementOfSeq
  <2>2. /\ t \in Seq(1..MaxName)
        /\ Len(t) = IF 1 <= Len(p) THEN Len(p) - 1 + 1 ELSE 0
        /\ \A i \in 1..Len(p) - 1 + 1 : t[i] = q[1 + i - 1]
    BY <1>1, <2>1, SubSeqProperties
  <2> HIDE DEF t
  <2> QED BY <1>1, <2>2
<1> HIDE DEF s, t
<1>4. ASSUME Len(p) <= Len(q) PROVE p = t <=> \A i \in 1..Len(p) : p[i] = q[i]
  <2>1. ASSUME \A i \in 1..Len(p) : p[i] = q[i] PROVE p = t
    <3>1. \A i \in 1..Len(p) : p[i] = t[i]
      BY <1>3, <1>4, <2>1
    <3> QED BY <1>1, <1>3, <1>4, <3>1, SeqEqual
  <2> QED BY <1>3, <1>4, <2>1
<1> QED BY <1>2, <1>4 DEF Files!IsPrefix, Start, s, t

LEMMA BelowPath ==
  ASSUME MaxDepth \in Nat, NEW p, NEW q, Path(p), Path(q), p # q
  PROVE  /\ q \in Files!Below(p) <=> Start(p, q)
         /\ Start(p, q) => Len(p) < Len(q)
<1>1. q \in Files!Below(p) <=> Start(p, q)
  BY Prefixes DEF Files!Below, Path
<1>2. ASSUME Start(p, q) PROVE Len(p) < Len(q)
  <2>1. /\ p \in Seq(1..MaxName) /\ Len(p) \in Nat
        /\ q \in Seq(1..MaxName) /\ Len(q) \in Nat
    BY PathLengths
  <2>2. Len(p) = Len(q) => p = q
    BY <1>2, <2>1, SeqEqual DEF Start
  <2> QED BY <1>2, <2>1, <2>2 DEF Start
<1> QED BY <1>1, <1>2

LEMMA ParentBelow ==
  ASSUME MaxDepth \in Nat, NEW p, NEW q, Path(p), Path(q), q # Files!Root,
         Files!Parent(q) = p \/ Files!Parent(q) \in Files!Below(p)
  PROVE  q \in Files!Below(p)
<1> DEFINE d == Files!Parent(q)
<1>1. /\ Path(d) /\ Len(q) >= 1 /\ Len(d) = Len(q) - 1
      /\ \A i \in 1..Len(q) - 1 : d[i] = q[i]
  BY ParentPath
<1>2. Len(p) \in Nat /\ Len(q) \in Nat
  BY PathLengths
<1>3. Start(p, d)
  <2>1. CASE d = p
    BY <1>2, <1>1, <2>1 DEF Start
  <2>2. CASE d # p
    BY <1>1, <2>2, BelowPath
  <2> QED BY <2>1, <2>2
<1> HIDE DEF d
<1>4. Start(p, q) /\ Len(p) < Len(q)
  <2>1. Len(p) <= Len(q) - 1
    BY <1>1, <1>3 DEF Start
  <2>2. \A i \in 1..Len(p) : i \in 1..Len(q) - 1
    BY <1>2, <2>1
  <2>3. \A i \in 1..Len(p) : p[i] = q[i]
    BY <1>1, <1>3, <2>2 DEF Start
  <2> QED BY <1>2, <2>1, <2>3 DEF Start
<1>5. p # q
  BY <1>2, <1>4
<1> QED BY <1>4, <1>5, BelowPath

\* What has to hold of a new store and a new cache.
Consistent(store, cache) ==
  /\ store \in [Files!Paths -> {"none", "dir", "file"}]
  /\ DOMAIN cache = Files!Paths
  /\ store[Files!Root] = "dir"
  /\ \A q \in Files!Paths : cache[q] # Files!NoMeta => store[q] # "none"
  /\ \A q \in Files!Paths \ {Files!Root} :
       store[q] # "none" => store[Files!Parent(q)] = "dir"

LEMMA StoreKept ==
  ASSUME MaxDepth \in Nat
  PROVE  /\ FilesInv => Consistent(tree, meta) /\ Path(Files!Root)
         /\ Consistent(tree', meta') /\ Path(Files!Root) => FilesInv'
<1>1. FilesInv => Consistent(tree, meta) /\ Path(Files!Root)
  <2> SUFFICES ASSUME FilesInv PROVE Consistent(tree, meta) /\ Path(Files!Root)
    OBVIOUS
  <2>1. \A q \in Files!Paths \ {Files!Root} : tree[q] # "none" => tree[Files!Parent(q)] = "dir"
    BY DEF FilesInv, Files!NoGhost, Files!WellFounded, Files!Stored
  <2>2. \A q \in Files!Paths : meta[q] # Files!NoMeta => tree[q] # "none"
    BY DEF FilesInv, Files!NoGhost, Files!Stored
  <2> QED BY <2>1, <2>2 DEF FilesInv, FilesTyped, Rooted, Consistent
<1>2. \A q : Path(q) /\ q # Files!Root => Path(Files!Parent(q))
  BY ParentPath
<1>3. Consistent(tree', meta') /\ Path(Files!Root) => FilesInv'
  <2> SUFFICES ASSUME Consistent(tree', meta'), Path(Files!Root) PROVE FilesInv'
    OBVIOUS
  <2>1. FilesTyped' /\ Rooted'
    BY DEF Consistent, FilesTyped, Rooted, Path
  <2>2. \A q \in Files!Paths : (tree'[q] # "none" \/ q = Files!Root) => tree'[Files!Parent(q)] = "dir"
    BY DEF Consistent, Files!Parent
  <2>3. Files!NoGhost'
    BY <2>2 DEF Consistent, Files!NoGhost, Files!WellFounded, Files!Stored
  <2> QED BY <2>1, <2>3 DEF FilesInv
<1> QED BY <1>1, <1>3

LEMMA PutKeeps ==
  ASSUME MaxDepth \in Nat, FilesInv, NEW p, Path(p), NEW kind \in {"dir", "file"}, NEW m,
         Files!Put(p, kind, m), kind = "dir" => tree[p] # "file",
         kind = "file" => tree[p] # "dir"
  PROVE  FilesInv'
<1>1. Consistent(tree, meta) /\ Path(Files!Root)
  BY StoreKept
<1>2. /\ tree' = [tree EXCEPT ![p] = kind] /\ meta' = [meta EXCEPT ![p] = m]
      /\ p = Files!Root \/ tree[Files!Parent(p)] = "dir"
  BY DEF Files!Put
<1>3. p \in Files!Paths
  BY DEF Path
<1>4. tree'[p] = kind /\ \A q \in Files!Paths : q # p => tree'[q] = tree[q] /\ meta'[q] = meta[q]
  BY <1>1, <1>2, <1>3 DEF Consistent
<1>5. p = Files!Root => kind = "dir"
  BY <1>1 DEF Consistent
<1>6. ASSUME NEW q \in Files!Paths, q # Files!Root, tree'[q] # "none"
      PROVE  tree'[Files!Parent(q)] = "dir"
  <2>1. Path(q) /\ Path(Files!Parent(q)) /\ Files!Parent(q) # q
    <3>1. Path(q)
      BY DEF Path
    <3>2. Len(q) \in Nat /\ Len(Files!Parent(q)) = Len(q) - 1 /\ Path(Files!Parent(q))
      BY <1>6, <3>1, PathLengths, ParentPath
    <3> QED BY <3>1, <3>2
  <2>2. CASE q = p
    BY <1>2, <1>4, <1>6, <2>1, <2>2 DEF Path
  <2>3. CASE q # p
    <3>1. tree[Files!Parent(q)] = "dir"
      BY <1>1, <1>4, <1>6, <2>3 DEF Consistent
    <3> QED BY <1>4, <2>1, <3>1 DEF Path
  <2> QED BY <2>2, <2>3
<1>7. Consistent(tree', meta')
  <2>1. tree' \in [Files!Paths -> {"none", "dir", "file"}] /\ DOMAIN meta' = Files!Paths
    BY <1>1, <1>2, <1>3 DEF Consistent
  <2>2. tree'[Files!Root] = "dir"
    BY <1>1, <1>4, <1>5 DEF Consistent, Path
  <2>3. \A q \in Files!Paths : meta'[q] # Files!NoMeta => tree'[q] # "none"
    BY <1>1, <1>4 DEF Consistent
  <2> QED BY <1>6, <2>1, <2>2, <2>3 DEF Consistent
<1> QED BY <1>1, <1>7, StoreKept

\* Only a directory has something in it.
LEMMA OnlyDirs ==
  ASSUME MaxDepth \in Nat, FilesInv, NEW p, Path(p), tree[p] # "dir", NEW q, Path(q),
         q # Files!Root, tree[q] # "none"
  PROVE  Files!Parent(q) # p
BY StoreKept DEF Consistent, Path

\* A directory without entries has nothing below it at all.
LEMMA NothingBelow ==
  ASSUME MaxDepth \in Nat, FilesInv, NEW p, Path(p), Files!Children(p) = {},
         NEW q \in Files!Below(p)
  PROVE  tree[q] = "none"
<1> SUFFICES ASSUME tree[q] # "none" PROVE FALSE
  OBVIOUS
<1>1. Path(q) /\ p # q
  BY DEF Files!Below, Path
<1>2. Start(p, q) /\ Len(p) < Len(q) /\ Len(p) \in Nat /\ Len(q) \in Nat
  BY <1>1, BelowPath, PathLengths
<1> DEFINE there == {n \in Nat : /\ n > Len(p)
                                 /\ \E r \in Files!Paths : Start(p, r) /\ Len(r) = n /\ tree[r] # "none"}
<1>3. Len(q) \in there
  BY <1>1, <1>2 DEF Path
<1>4. PICK n \in there : \A k \in there : n <= k
  <2>1. there \in SUBSET Nat /\ there # {}
    BY <1>3
  <2> HIDE DEF there
  <2> QED BY <2>1, LeastNat
<1>5. PICK r \in Files!Paths : Start(p, r) /\ Len(r) = n /\ tree[r] # "none"
  OBVIOUS
<1>6. n \in Nat /\ n > Len(p) /\ Path(r) /\ r # Files!Root
  BY <1>2, <1>5 DEF Path, Files!Root
<1> DEFINE d == Files!Parent(r)
<1>7. /\ Path(d) /\ Len(d) = n - 1 /\ \A i \in 1..n - 1 : d[i] = r[i]
  BY <1>5, <1>6, ParentPath
<1>8. tree[d] = "dir"
  BY <1>5, <1>6, StoreKept DEF Consistent
<1>9. Start(p, d)
  <2>1. Len(p) <= n - 1
    BY <1>2, <1>6
  <2>2. \A i \in 1..Len(p) : i \in 1..n - 1 /\ p[i] = r[i]
    BY <1>2, <1>5, <2>1 DEF Start
  <2> QED BY <1>7, <2>1, <2>2 DEF Start
<1>10. d # p
  <2>1. r \notin Files!Children(p)
    OBVIOUS
  <2> QED BY <1>5, <1>6, <2>1 DEF Files!Children, Files!Stored
<1>11. Len(d) > Len(p)
  BY <1>7, <1>9, <1>10, BelowPath
<1> HIDE DEF d
<1>12. n - 1 \in there
  <2>1. n - 1 \in Nat /\ n - 1 > Len(p)
    BY <1>2, <1>6, <1>7, <1>11
  <2> QED BY <1>7, <1>8, <1>9, <2>1 DEF Path
<1> QED BY <1>4, <1>6, <1>12

LEMMA RemovedDir ==
  ASSUME MaxDepth \in Nat, FilesInv, NEW p, Path(p), Files!removedir(p)
  PROVE  FilesInv'
<1>1. Consistent(tree, meta) /\ Path(Files!Root)
  BY StoreKept
<1> DEFINE Gone(q) == q = p \/ q \in Files!Below(p)
<1>2. /\ p # Files!Root
      /\ tree' = [q \in Files!Paths |-> IF Gone(q) THEN "none" ELSE tree[q]]
      /\ meta' = [q \in Files!Paths |->
           IF q = p \/ (Files!Children(p) # {} /\ Files!StringIn(p, q)) THEN Files!NoMeta ELSE meta[q]]
  BY DEF Files!removedir
<1>3. ~Gone(Files!Root)
  <2>1. ASSUME Files!Root \in Files!Below(p) PROVE FALSE
    <3>1. Len(p) < Len(Files!Root) /\ Len(p) \in Nat
      BY <1>1, <1>2, <2>1, BelowPath, PathLengths
    <3> QED BY <3>1 DEF Files!Root
  <2> QED BY <1>2, <2>1
<1>4. ASSUME NEW q \in Files!Paths, q # Files!Root, ~Gone(q), Gone(Files!Parent(q))
      PROVE  FALSE
  BY <1>4, ParentBelow DEF Path
<1>5. ASSUME NEW q \in Files!Paths, Gone(q) PROVE meta'[q] = Files!NoMeta
  <2>1. CASE q = p
    BY <1>2, <2>1
  <2>2. CASE q \in Files!Below(p) /\ q # p /\ Files!Children(p) = {}
    <3>1. tree[q] = "none"
      BY <2>2, NothingBelow
    <3> QED BY <1>1, <1>2, <3>1 DEF Consistent
  <2>3. CASE q \in Files!Below(p) /\ q # p /\ Files!Children(p) # {}
    <3>1. Path(q) /\ Start(p, q) /\ Len(p) < Len(q)
      BY <2>3, BelowPath DEF Path
    <3>2. /\ p \in Seq(1..MaxName) /\ Len(p) \in Nat /\ q \in Seq(1..MaxName) /\ Len(q) \in Nat
      BY <3>1, PathLengths
    <3>3. Len(p) >= 1
      BY <1>2, ParentPath
    <3>4. 0 \in 0..(Len(q) - Len(p))
      BY <3>1, <3>2
    <3>5. \A j \in 1..(Len(p) - 1) : q[0 + j] = p[j]
      <4> TAKE j \in 1..(Len(p) - 1)
      <4>1. j \in 1..Len(p) /\ 0 + j = j
        BY <3>2
      <4> QED BY <3>1, <4>1 DEF Start
    <3>6. p[Len(p)] <= q[0 + Len(p)]
      <4>1. Len(p) \in 1..Len(p) /\ 0 + Len(p) = Len(p)
        BY <3>2, <3>3
      <4>2. p[Len(p)] = q[Len(p)] /\ p[Len(p)] \in 1..MaxName
        BY <3>1, <3>2, <4>1, ElementOfSeq DEF Start
      <4>3. p[Len(p)] \in Int
        BY <4>2
      <4> QED BY <3>1, <3>2, <4>2, <4>3
    <3>7. Files!StringIn(p, q)
      BY <1>2, <3>4, <3>5, <3>6 DEF Files!StringIn
    <3> QED BY <1>2, <2>3, <3>7
  <2> QED BY <1>5, <2>1, <2>2, <2>3
<1> HIDE DEF Gone
<1>6. Consistent(tree', meta')
  <2>1. tree' \in [Files!Paths -> {"none", "dir", "file"}] /\ DOMAIN meta' = Files!Paths
    BY <1>1, <1>2 DEF Consistent
  <2>2. tree'[Files!Root] = "dir"
    BY <1>1, <1>2, <1>3 DEF Consistent, Path
  <2>3. ASSUME NEW q \in Files!Paths, meta'[q] # Files!NoMeta PROVE tree'[q] # "none"
    <3>1. ~Gone(q) /\ meta'[q] = meta[q]
      BY <1>2, <1>5, <2>3
    <3> QED BY <1>1, <1>2, <2>3, <3>1 DEF Consistent
  <2>4. ASSUME NEW q \in Files!Paths, q # Files!Root, tree'[q] # "none"
        PROVE  tree'[Files!Parent(q)] = "dir"
    <3>1. ~Gone(q) /\ tree[q] # "none"
      BY <1>2, <2>4
    <3>2. tree[Files!Parent(q)] = "dir" /\ ~Gone(Files!Parent(q)) /\ Files!Parent(q) \in Files!Paths
      BY <1>1, <1>4, <2>4, <3>1, ParentPath DEF Consistent, Path
    <3> QED BY <1>2, <3>2
  <2> QED BY <2>1, <2>2, <2>3, <2>4 DEF Consistent
<1> QED BY <1>1, <1>6, StoreKept

LEMMA Removed ==
  ASSUME MaxDepth \in Nat, FilesInv, NEW u, NEW p, Path(p), Files!do_DELE(u, p)
  PROVE  FilesInv'
<1>1. Consistent(tree, meta) /\ Path(Files!Root)
  BY StoreKept
<1>2. /\ tree[p] = "file" /\ tree' = [tree EXCEPT ![p] = "none"]
      /\ meta' = [meta EXCEPT ![p] = Files!NoMeta]
  BY DEF Files!do_DELE
<1>3. ASSUME NEW q \in Files!Paths, q # Files!Root, tree'[q] # "none"
      PROVE  tree'[Files!Parent(q)] = "dir"
  <2>1. tree[q] # "none" /\ tree[Files!Parent(q)] = "dir"
    BY <1>1, <1>2, <1>3 DEF Consistent
  <2>2. Files!Parent(q) # p
    BY <1>2, <2>1
  <2> QED BY <1>1, <1>2, <2>1, <2>2 DEF Consistent
<1>4. Consistent(tree', meta')
  <2>1. tree' \in [Files!Paths -> {"none", "dir", "file"}] /\ DOMAIN meta' = Files!Paths
    BY <1>1, <1>2 DEF Consistent
  <2>2. tree'[Files!Root] = "dir"
    BY <1>1, <1>2 DEF Consistent
  <2>3. \A q \in Files!Paths : meta'[q] # Files!NoMeta => tree'[q] # "none"
    BY <1>1, <1>2 DEF Consistent
  <2> QED BY <1>3, <2>1, <2>2, <2>3 DEF Consistent
<1> QED BY <1>1, <1>4, StoreKept

LEMMA Renamed ==
  ASSUME MaxDepth \in Nat, FilesInv, NEW u, NEW name \in 1..MaxName, Files!do_RNTO(u, name)
  PROVE  FilesInv'
<1> DEFINE src == rnfr[u]
           dst == Append(Files!Parent(src), name)
<1>0. Consistent(tree, meta) /\ Path(Files!Root)
  BY StoreKept
<1>1. CASE UNCHANGED <<tree, meta>>
  BY <1>0, <1>1, StoreKept
<1>2. CASE /\ Files!Stored(src) /\ tree[src] = "file" /\ src # dst /\ tree[dst] # "dir"
           /\ tree' = [tree EXCEPT ![src] = "none", ![dst] = "file"]
           /\ meta' = [meta EXCEPT ![src] = Files!NoMeta, ![dst] = Files!Meta("root", "777")]
  <2>1. Path(src) /\ src # Files!Root
    BY <1>2 DEF Files!do_RNTO, Files!Stored, Path
  <2>2. Path(Files!Parent(src)) /\ Len(src) >= 1 /\ Len(Files!Parent(src)) = Len(src) - 1
    BY <2>1, ParentPath
  <2> HIDE DEF src
  <2>3. /\ Len(src) \in Nat /\ Len(src) <= MaxDepth
        /\ Files!Parent(src) \in Seq(1..MaxName)
    BY <2>1, <2>2, PathLengths
  <2>4. /\ dst \in Seq(1..MaxName) /\ Len(dst) = Len(src) /\ dst # <<>>
        /\ \A i \in 1..Len(src) - 1 : dst[i] = Files!Parent(src)[i]
    BY <2>2, <2>3, AppendProperties
  <2>5. Path(dst) /\ dst # Files!Root
    BY <2>3, <2>4, PathLengths DEF Files!Root
  <2>6. Files!Parent(dst) = Files!Parent(src)
    <3> HIDE DEF dst
    <3>1. /\ Path(Files!Parent(dst)) /\ Len(Files!Parent(dst)) = Len(src) - 1
          /\ \A i \in 1..Len(src) - 1 : Files!Parent(dst)[i] = dst[i]
      BY <2>4, <2>5, ParentPath
    <3>2. Files!Parent(dst) \in Seq(1..MaxName)
      BY <3>1, PathLengths
    <3> QED BY <2>2, <2>3, <2>4, <3>1, <3>2, SeqEqual
  <2>7. tree[Files!Parent(src)] = "dir"
    BY <1>0, <1>2, <2>1 DEF Consistent, Path
  <2> HIDE DEF dst
  <2>8. /\ src \in Files!Paths /\ dst \in Files!Paths /\ Files!Parent(src) \in Files!Paths
        /\ tree[src] = "file" /\ tree[dst] # "dir" /\ src # dst
    BY <1>2, <2>1, <2>2, <2>5 DEF Path
  <2>9. /\ tree' \in [Files!Paths -> {"none", "dir", "file"}] /\ DOMAIN meta' = Files!Paths
        /\ tree'[src] = "none" /\ tree'[dst] = "file" /\ meta'[src] = Files!NoMeta
        /\ \A q \in Files!Paths \ {src, dst} : tree'[q] = tree[q] /\ meta'[q] = meta[q]
    BY <1>0, <1>2, <2>8 DEF Consistent
  <2>10. ASSUME NEW q \in Files!Paths, q # Files!Root, tree'[q] # "none"
         PROVE  tree'[Files!Parent(q)] = "dir"
    <3>1. tree[Files!Parent(q)] = "dir"
      BY <1>0, <2>6, <2>7, <2>9, <2>10 DEF Consistent
    <3>2. Files!Parent(q) \in Files!Paths
      BY <2>10, ParentPath DEF Path
    <3> QED BY <2>8, <2>9, <3>1, <3>2
  <2>11. tree'[Files!Root] = "dir"
    BY <1>0, <2>8, <2>9 DEF Consistent, Path
  <2>12. \A q \in Files!Paths : meta'[q] # Files!NoMeta => tree'[q] # "none"
    BY <1>0, <2>9 DEF Consistent
  <2>13. Consistent(tree', meta')
    BY <2>9, <2>10, <2>11, <2>12 DEF Consistent
  <2> QED BY <1>0, <2>13, StoreKept
<1> QED BY <1>1, <1>2 DEF Files!do_RNTO

\* A command that changes no file: an owner or a mode of what is stored at most.
LEMMA CacheOnly ==
  ASSUME MaxDepth \in Nat, FilesInv, tree' = tree, DOMAIN meta' = Files!Paths,
         \A q \in Files!Paths : meta'[q] # Files!NoMeta => meta[q] # Files!NoMeta \/ Files!Stored(q)
  PROVE  FilesInv'
<1>1. Consistent(tree, meta) /\ Path(Files!Root)
  BY StoreKept
<1>2. Consistent(tree', meta')
  BY <1>1 DEF Consistent, Files!Stored
<1> QED BY <1>1, <1>2, StoreKept

\* A file is written where an upload was sent, if that can still be written.
LEMMA Uploaded ==
  ASSUME MaxDepth \in Nat, FilesInv, UploadsTyped, NEW u \in FtpClients, Files!Receives(u)
  PROVE  FilesInv'
<1> DEFINE p == upload[u].path
           cmd == upload[u].cmd
<1>1. Path(p)
  BY DEF UploadsTyped, Path
<1>2. CASE UNCHANGED <<tree, meta>>
  <2>1. Consistent(tree, meta) /\ Path(Files!Root)
    BY StoreKept
  <2> QED BY <1>2, <2>1, StoreKept
<1>3. CASE Files!Written(u, p, cmd)
  <2> HIDE DEF p, cmd
  <2>1. tree[p] # "dir"
    BY <1>3 DEF Files!Written, Files!Writable
  <2>2. PICK m : Files!Put(p, "file", m)
    BY <1>3 DEF Files!Written
  <2> QED BY <1>1, <2>1, <2>2, PutKeeps
<1> QED BY <1>2, <1>3 DEF Files!Receives

LEMMA NextFilesInv ==
  ASSUME MaxDepth \in Nat, FilesInv, UploadsTyped, [Files!FilesNext]_filesState
  PROVE  FilesInv'
<1>0. Consistent(tree, meta) /\ Path(Files!Root) /\ DOMAIN meta = Files!Paths
  BY StoreKept DEF Consistent
<1>1. CASE UNCHANGED <<tree, meta>>
  BY <1>0, <1>1, StoreKept
<1>2. ASSUME NEW u, NEW p,
             Files!Look(u, p) \/ Files!do_CWD(u, p) \/ Files!do_RNFR(u, p)
      PROVE  FilesInv'
  BY <1>1, <1>2 DEF Files!Look, Files!do_CWD, Files!do_RNFR
<1>3. ASSUME NEW u, NEW p, Path(p), Files!do_LIST(u, p) PROVE FilesInv'
  <2>1. PICK entries : meta' = Files!Seen(meta, entries) /\ tree' = tree
    BY <1>3 DEF Files!do_LIST
  <2>2. \A q \in Files!Paths : meta'[q] # meta[q] => Files!Stored(q)
    BY <2>1 DEF Files!Seen
  <2>3. DOMAIN meta' = Files!Paths
    BY <2>1 DEF Files!Seen
  <2> QED BY <2>1, <2>2, <2>3, CacheOnly
<1>4. ASSUME NEW u, NEW p, Path(p), NEW m, Files!do_SITE_CHMOD(u, p, m) PROVE FilesInv'
  <2>1. tree' = tree /\ Files!Stored(p) /\ meta' = [meta EXCEPT ![p].mode = m]
    BY <1>4 DEF Files!do_SITE_CHMOD
  <2>2. \A q \in Files!Paths : q # p => meta'[q] = meta[q]
    BY <1>0, <2>1
  <2>3. DOMAIN meta' = Files!Paths
    BY <1>0, <2>1
  <2> QED BY <2>1, <2>2, <2>3, CacheOnly
<1>5. ASSUME NEW u, NEW p, Path(p), Files!do_MKD(u, p) PROVE FilesInv'
  BY <1>5, PutKeeps DEF Files!do_MKD
<1>6. ASSUME NEW u, NEW arg, NEW cmd, Files!do_STOR(u, arg, cmd) PROVE FilesInv'
  BY <1>1, <1>6 DEF Files!do_STOR, Files!Awaits
<1>7. ASSUME NEW u, NEW dir, NEW name, Files!do_STOU(u, dir, name) PROVE FilesInv'
  BY <1>1, <1>7 DEF Files!do_STOU, Files!Awaits
<1>8. ASSUME NEW u, NEW arg, Files!do_RMD(u, arg) PROVE FilesInv'
  BY <1>8, RemovedDir DEF Files!do_RMD, Path
<1>9. ASSUME NEW u, Files!do_CDUP(u) PROVE FilesInv'
  BY <1>1, <1>9 DEF Files!do_CDUP, Files!do_CWD
<1>10. CASE UNCHANGED filesState
  BY <1>1, <1>10 DEF filesState
<1>11. ASSUME NEW u, Files!Command(u) PROVE FilesInv'
  BY <1>2, <1>3, <1>4, <1>5, <1>6, <1>7, <1>8, <1>9, <1>11, Removed, Renamed
     DEF Files!Command, Path
<1> QED BY <1>10, <1>11, Uploaded DEF Files!FilesNext

\* An upload waits to write a path the model has.
LEMMA NextUploads ==
  ASSUME UploadsTyped, Path(Files!Root), [Files!FilesNext]_filesState
  PROVE  UploadsTyped'
<1>1. CASE UNCHANGED upload
  BY <1>1 DEF UploadsTyped
<1>2. ASSUME NEW u \in FtpClients, NEW p, NEW cmd \in {"STOR", "APPE", "REST"}, Files!Awaits(u, p, cmd)
      PROVE  UploadsTyped'
  BY <1>2 DEF Files!Awaits, UploadsTyped
<1>3. ASSUME NEW u \in FtpClients, Files!Receives(u) PROVE UploadsTyped'
  BY <1>3 DEF Files!Receives, Files!NoUpload, UploadsTyped, Path
<1>4. ASSUME NEW u, NEW p,
             Files!Look(u, p) \/ Files!do_LIST(u, p) \/ Files!do_CWD(u, p) \/ Files!do_MKD(u, p)
             \/ Files!do_DELE(u, p) \/ Files!do_RNFR(u, p) \/ Files!do_CDUP(u)
      PROVE  UNCHANGED upload
  BY <1>4 DEF Files!Answered, Files!Look, Files!do_LIST, Files!do_CWD, Files!do_MKD, Files!do_DELE,
              Files!do_RNFR, Files!do_CDUP
<1>5. ASSUME NEW u, NEW p, NEW m, NEW arg,
             Files!do_SITE_CHMOD(u, p, m) \/ Files!do_RMD(u, arg) \/ Files!do_RNTO(u, m)
      PROVE  UNCHANGED upload
  BY <1>5 DEF Files!Answered, Files!do_SITE_CHMOD, Files!do_RMD, Files!do_RNTO
<1>6. ASSUME NEW u \in FtpClients, NEW dir, NEW name, Files!do_STOU(u, dir, name) PROVE UploadsTyped'
  BY <1>2, <1>6 DEF Files!do_STOU
<1>7. ASSUME NEW u \in FtpClients, NEW arg, NEW cmd \in {"STOR", "APPE", "REST"}, Files!do_STOR(u, arg, cmd)
      PROVE  UploadsTyped'
  BY <1>2, <1>7 DEF Files!do_STOR
<1>8. ASSUME NEW u \in FtpClients, Files!Command(u) PROVE UploadsTyped'
  BY <1>1, <1>4, <1>5, <1>6, <1>7, <1>8 DEF Files!Command
<1>9. CASE UNCHANGED filesState
  BY <1>1, <1>9 DEF filesState
<1> QED BY <1>3, <1>8, <1>9 DEF Files!FilesNext

LEMMA InitFilesInv ==
  ASSUME MaxDepth \in Nat, Init
  PROVE  FilesInv /\ UploadsTyped
<1>1. Files!FilesInit
  BY DEF Init
<1>2. Path(Files!Root)
  <2>1. Files!Root \in Seq(1..MaxName) /\ Len(Files!Root) = 0
    BY EmptySeq DEF Files!Root
  <2>2. Len(Files!Root) <= MaxDepth
    BY <2>1
  <2> QED BY <2>1, <2>2, PathLengths
<1>3. /\ tree \in [Files!Paths -> {"none", "dir", "file"}] /\ DOMAIN meta = Files!Paths
      /\ Files!WellFounded
  BY <1>1 DEF Files!FilesInit
<1>4. \A q \in Files!Paths : meta[q] # Files!NoMeta => Files!Stored(q)
  BY <1>1 DEF Files!FilesInit
<1>5. tree[Files!Root] = "dir"
  BY <1>2, <1>3 DEF Files!WellFounded, Files!Parent, Path
<1>6. FilesInv
  BY <1>2, <1>3, <1>4, <1>5 DEF FilesInv, FilesTyped, Rooted, Files!NoGhost
<1>7. UploadsTyped
  BY <1>1, <1>2 DEF Files!FilesInit, Files!NoUpload, UploadsTyped, Path
<1> QED BY <1>6, <1>7

\* The cache answers for nothing that is not stored, what is stored has its directory,
\* and the copies of uploads are whole, for any clients, paths and transfers.
THEOREM LeftAsTheyWere ==
  ASSUME MaxDepth \in Nat, MaxUnits \in Nat, "none" \notin Transfers
  PROVE  Spec => []FilesAsLeft
<1>1. Init => FilesInv /\ UploadsTyped
  BY InitFilesInv
<1>2. FilesInv /\ UploadsTyped /\ [Next]_vars => (FilesInv /\ UploadsTyped)'
  BY NextFilesInv, NextUploads, Steps DEF FilesInv, Rooted
<1>3. FilesInv => Files!NoGhost
  BY DEF FilesInv
<1>4. Spec => []Tftp!CopyIsWhole
  BY SpecTftp
<1> QED BY <1>1, <1>2, <1>3, <1>4, PTL DEF Spec, FilesAsLeft

(* --------------------------------- IPMI ---------------------------------- *)
\* The proofs of two services by themselves, read with this composition's variables.
Alone == INSTANCE IpmiKamstrupProofs

LEMMA SameSession ==
  /\ Ipmi!IpmiInit => Alone!IpmiInit
  /\ [Ipmi!IpmiNext]_ipmiState => [Alone!IpmiNext]_(Alone!ipmiVars)
  /\ Alone!SessionIsListed <=> SessionIsListed
<1>1. Ipmi!IpmiInit => Alone!IpmiInit
  BY DEF Ipmi!IpmiInit, Ipmi!None, Ipmi!Nobody, Alone!IpmiInit, Alone!None, Alone!Nobody
<1>2. ASSUME NEW c
      PROVE  /\ Ipmi!NewIgnored(c) => Alone!NewIgnored(c)
             /\ \A v2 : Ipmi!NewAuthCap(c, v2) => Alone!NewAuthCap(c, v2)
             /\ Ipmi!StageZero(c) => Alone!StageZero(c)
             /\ Ipmi!Dropped(c) => Alone!Dropped(c)
             /\ Ipmi!CloseSession(c) => Alone!CloseSession(c)
             /\ Ipmi!got_rmcp_openrequest(c) => Alone!got_rmcp_openrequest(c)
             /\ \A p : Ipmi!got_rakp1(c, p) => Alone!got_rakp1(c, p)
             /\ Ipmi!got_rakp3(c) => Alone!got_rakp3(c)
             /\ \A p : Ipmi!SetPrivilege(c, p) => Alone!SetPrivilege(c, p)
             /\ Ipmi!Queried(c) => Alone!Queried(c)
             /\ \A on : Ipmi!SetUser(c, on) => Alone!SetUser(c, on)
             /\ \A op : Ipmi!Chassis(c, op) => Alone!Chassis(c, op)
  <2>1. /\ Ipmi!Known(c) <=> Alone!Known(c)
        /\ Ipmi!IsNew(c) <=> Alone!IsNew(c)
        /\ Ipmi!V2 = Alone!V2
        /\ Ipmi!None = Alone!None
        /\ Ipmi!NewSession(c) = Alone!NewSession(c)
        /\ Ipmi!Nobody = Alone!Nobody
    BY DEF Ipmi!Known, Ipmi!IsNew, Ipmi!HasSession, Ipmi!None, Ipmi!Nobody, Ipmi!V2, Ipmi!NewSession,
           Alone!Known, Alone!IsNew, Alone!HasSession, Alone!None, Alone!Nobody,
           Alone!V2, Alone!NewSession
  <2>2. Ipmi!close_server_session(c) <=> Alone!close_server_session(c)
    BY <2>1 DEF Ipmi!close_server_session, Alone!close_server_session
  <2>3. /\ Ipmi!Plain(c) <=> Alone!Plain(c)
        /\ Ipmi!Keyed(c) <=> Alone!Keyed(c)
    BY <2>1 DEF Ipmi!Plain, Ipmi!Keyed, Alone!Plain, Alone!Keyed
  <2>4. Ipmi!Reaches(c) <=> Alone!Reaches(c)
    BY <2>1, <2>3 DEF Ipmi!Reaches, Alone!Reaches
  <2>5. Ipmi!NewIgnored(c) => Alone!NewIgnored(c)
    BY <2>1 DEF Ipmi!NewIgnored, Alone!NewIgnored
  <2>6. \A v2 : Ipmi!NewAuthCap(c, v2) => Alone!NewAuthCap(c, v2)
    BY <2>1 DEF Ipmi!NewAuthCap, Alone!NewAuthCap
  <2>7. Ipmi!StageZero(c) => Alone!StageZero(c)
    BY <2>1, <2>2 DEF Ipmi!StageZero, Alone!StageZero
  <2>8. Ipmi!Dropped(c) => Alone!Dropped(c)
    BY <2>1, <2>2 DEF Ipmi!Dropped, Alone!Dropped
  <2>9. Ipmi!CloseSession(c) => Alone!CloseSession(c)
    BY <2>2, <2>3 DEF Ipmi!CloseSession, Alone!CloseSession
  <2>10. Ipmi!got_rmcp_openrequest(c) => Alone!got_rmcp_openrequest(c)
    BY <2>1 DEF Ipmi!got_rmcp_openrequest, Alone!got_rmcp_openrequest
  <2>11. \A p : Ipmi!got_rakp1(c, p) => Alone!got_rakp1(c, p)
    BY <2>1, <2>2 DEF Ipmi!got_rakp1, Alone!got_rakp1
  <2>12. Ipmi!got_rakp3(c) => Alone!got_rakp3(c)
    BY <2>1, <2>2 DEF Ipmi!got_rakp3, Alone!got_rakp3
  <2>13. \A p : Ipmi!SetPrivilege(c, p) => Alone!SetPrivilege(c, p)
    BY <2>4 DEF Ipmi!SetPrivilege, Alone!SetPrivilege
  <2>14. Ipmi!Queried(c) => Alone!Queried(c)
    BY <2>4 DEF Ipmi!Queried, Alone!Queried
  <2>15. \A on : Ipmi!SetUser(c, on) => Alone!SetUser(c, on)
    BY <2>4 DEF Ipmi!SetUser, Alone!SetUser
  <2>16. \A op : Ipmi!Chassis(c, op) => Alone!Chassis(c, op)
    BY <2>4 DEF Ipmi!Chassis, Alone!Chassis
  <2> QED BY <2>5, <2>6, <2>7, <2>8, <2>9, <2>10, <2>11, <2>12, <2>13, <2>14, <2>15, <2>16
<1>3. Ipmi!IpmiNext => Alone!IpmiNext
  BY <1>2 DEF Ipmi!IpmiNext, Alone!IpmiNext
<1>4. UNCHANGED ipmiState => UNCHANGED Alone!ipmiVars
  BY DEF ipmiState, Alone!ipmiVars
<1>5. Alone!SessionIsListed <=> SessionIsListed
  BY DEF SessionIsListed, Ipmi!SessionIsListed, Ipmi!HasSession, Ipmi!None, Ipmi!Nobody,
         Alone!SessionIsListed, Alone!HasSession, Alone!None, Alone!Nobody
<1> QED BY <1>1, <1>3, <1>4, <1>5

\* The IPMI server's session stays listed, under the first user's key, among the
\* other services as it does by itself.
THEOREM ListedAmongServices ==
  ASSUME Alone!ClientNames, MaxPriv \in Nat
  PROVE  Spec => []SessionIsListed
<1>1. Init => Alone!IpmiInv
  BY Alone!InitIpmiInv, SameSession DEF Init
<1>2. Alone!IpmiInv /\ [Next]_vars => Alone!IpmiInv'
  BY Steps, SameSession, Alone!NextIpmiInv
<1>3. Alone!IpmiInv => SessionIsListed
  BY SameSession DEF Alone!IpmiInv
<1> QED BY <1>1, <1>2, <1>3, PTL DEF Spec

(* ---------------------------- Kamstrup parser ---------------------------- *)
LEMMA SameParser ==
  /\ Parser!ParserInit => Alone!ParserInit
  /\ [Parser!ParserNext]_parserState => [Alone!ParserNext]_(Alone!parserVars)
  /\ Alone!ParsedAsSent <=> Parser!ParsedAsSent
<1>1. /\ Parser!Magic = Alone!Magic /\ Parser!Eot = Alone!Eot /\ Parser!Escape = Alone!Escape
      /\ Parser!Inverted = Alone!Inverted /\ Parser!Good = Alone!Good /\ Parser!Bad = Alone!Bad
  BY DEF Parser!Magic, Parser!Eot, Parser!Escape, Parser!Inverted, Parser!Good, Parser!Bad,
         Alone!Magic, Alone!Eot, Alone!Escape, Alone!Inverted, Alone!Good, Alone!Bad
<1>2. /\ \A s : Parser!FlattenSeq(s) = Alone!FlattenSeq(s)
      /\ \A c : Parser!Framed(c) = Alone!Framed(c)
  <2>1. \A s : Parser!FlattenSeq(s) = Alone!FlattenSeq(s)
    BY DEF Parser!FlattenSeq, Alone!FlattenSeq
  <2> QED BY <1>1, <2>1 DEF Parser!Framed, Parser!Escaped, Alone!Framed, Alone!Escaped
<1>3. Parser!ParserInit => Alone!ParserInit
  <2> DEFINE inFrames == [i \in 1..Len(frames) |-> Parser!Framed(frames[i])]
  <2>1. inFrames = [i \in 1..Len(frames) |-> Alone!Framed(frames[i])]
    BY <1>2
  <2>2. Parser!ParserInit =>
          /\ frames \in UNION {[1..n -> Alone!Good \union {Alone!Bad}] : n \in 1..MaxFrames}
          /\ \E junk \in {<<>>, <<"data">>} : toCome = junk \o Alone!FlattenSeq(inFrames)
          /\ buffer = <<>> /\ position = 0 /\ parsing = FALSE /\ escaped = FALSE
          /\ parsed = <<>> /\ unescaped = "none" /\ scan = "recv"
    <3>1. Parser!FlattenSeq(inFrames) = Alone!FlattenSeq(inFrames)
      BY <1>2
    <3>2. Parser!ParserInit =>
            \E junk \in {<<>>, <<"data">>} : toCome = junk \o Parser!FlattenSeq(inFrames)
      BY DEF Parser!ParserInit
    <3>3. Parser!ParserInit =>
            frames \in UNION {[1..n -> Alone!Good \union {Alone!Bad}] : n \in 1..MaxFrames}
      BY <1>1 DEF Parser!ParserInit
    <3>4. Parser!ParserInit =>
            /\ buffer = <<>> /\ position = 0 /\ parsing = FALSE /\ escaped = FALSE
            /\ parsed = <<>> /\ unescaped = "none" /\ scan = "recv"
      BY DEF Parser!ParserInit
    <3> HIDE DEF inFrames
    <3> QED BY <3>1, <3>2, <3>3, <3>4
  <2> QED BY <2>1, <2>2 DEF Alone!ParserInit
<1>4. /\ Parser!Byte = Alone!Byte /\ Parser!Content = Alone!Content
      /\ Parser!Scanning <=> Alone!Scanning
  BY DEF Parser!Byte, Parser!Content, Parser!Scanning, Alone!Byte, Alone!Content, Alone!Scanning
<1>5. /\ Parser!InRequest <=> Alone!InRequest
      /\ Parser!AtEnd <=> Alone!AtEnd
      /\ \A c : Parser!valid_crc(c) <=> Alone!valid_crc(c)
      /\ \A s, i : Parser!RemoveAt(s, i) = Alone!RemoveAt(s, i)
  BY <1>1, <1>4 DEF Parser!InRequest, Parser!AtEnd, Parser!valid_crc, Parser!RemoveAt,
                    Alone!InRequest, Alone!AtEnd, Alone!valid_crc, Alone!RemoveAt
<1>6. /\ Parser!add_bytes => Alone!add_bytes
      /\ Parser!NoneYet => Alone!NoneYet
  BY DEF Parser!add_bytes, Parser!NoneYet, Alone!add_bytes, Alone!NoneYet
<1>7. /\ Parser!Skip => Alone!Skip
      /\ Parser!DropEscape => Alone!DropEscape
      /\ Parser!Unescape => Alone!Unescape
      /\ Parser!Next_byte => Alone!Next_byte
  BY <1>1, <1>4, <1>5 DEF Parser!Skip, Parser!DropEscape, Parser!Unescape, Parser!Next_byte,
                          Alone!Skip, Alone!DropEscape, Alone!Unescape, Alone!Next_byte
<1>8. /\ Parser!Request => Alone!Request
      /\ Parser!BadCrc => Alone!BadCrc
  BY <1>4, <1>5 DEF Parser!Request, Parser!BadCrc, Alone!Request, Alone!BadCrc
<1>9. Parser!ParserNext => Alone!ParserNext
  BY <1>6, <1>7, <1>8 DEF Parser!ParserNext, Alone!ParserNext
<1>10. UNCHANGED parserState => UNCHANGED Alone!parserVars
  BY DEF parserState, Alone!parserVars
<1>11. Alone!ParsedAsSent <=> Parser!ParsedAsSent
  BY <1>1 DEF Parser!ParsedAsSent, Parser!IsPrefix, Alone!ParsedAsSent, Alone!IsPrefix
<1> QED BY <1>3, <1>9, <1>10, <1>11

\* Kamstrup: wherever the stream is cut, the requests returned are the client's,
\* unless a cut has bytes unescaped twice; and the meter that pretends to restart
\* serves a connection for one more piece of its stream at most.
THEOREM RequestsAreWhole ==
  ASSUME MaxFrames \in Nat
  PROVE  Spec => []RequestsWhole
<1>1. Init => Alone!ParserInv
  BY Alone!InitParserInv, SameParser DEF Init
<1>2. Alone!ParserInv /\ [Next]_vars => Alone!ParserInv'
  BY Alone!NextParserInv, Steps, SameParser
<1>3. Alone!ParserInv => Parser!ParsedAsSent
  BY Alone!SentFromInv, SameParser
<1>4. Spec => []Parser!ParsedAsSent
  BY <1>1, <1>2, <1>3, PTL DEF Spec
<1> QED BY <1>4, OnePieceServedWhileDown, PTL DEF RequestsWhole

(* ------------------------------ Guardian AST ----------------------------- *)
\* Of the commands e of a connection: those among the first k that have a response,
\* those that name tank t, and the name the last of these gave it.
Responding(e, k) == {i \in 1..k : e[i].name # "S6020"}
Naming(e, k, t) == {i \in 1..k : e[i].name = "S6020" /\ e[i].tank \in {0, t}}
LastOf(S) == CHOOSE i \in S : \A j \in S : j <= i
LastName(e, k, t) ==
  IF Naming(e, k, t) = {} THEN Ast!Default ELSE Ast!Padded[e[LastOf(Naming(e, k, t))].text]
LastNames(e, k) == [t \in Ast!Tanks |-> LastName(e, k, t)]
Answered(e, k, n) ==
  e[k + 1].name # "S6020" /\ Cardinality(Responding(e, k + 1)) = n

\* Each of the responses a shows the names its command of e found, and there is
\* one per command that has any; nm are the names now.
Recorded(e, a, nm) ==
  /\ nm = LastNames(e, Len(e))
  /\ Cardinality(Responding(e, Len(e))) = Len(a)
  /\ \A n \in 1..Len(a) : \E k \in 0..Len(e) - 1 :
       Answered(e, k, n) /\ (e[k + 1].name = "report" => a[n] = LastNames(e, k))

Labels == {"default", "fits", "cut", "blank", "part", "two"}
Shows == [Ast!Tanks -> Labels] \union {<<"9999FF1B">>}
AstTyped ==
  /\ names \in [AstPeers -> Shows]
  /\ events \in [AstPeers -> Seq(Ast!AstCommands)]
  /\ answers \in [AstPeers -> Seq(Shows)]
AstInv == AstTyped /\ \A p \in AstPeers : Recorded(events[p], answers[p], names[p])

\* A set of positions that is not empty has a last one, which LastOf is.
LEMMA LastExists ==
  ASSUME NEW k \in Nat, NEW S \in SUBSET (1..k), S # {}
  PROVE  LastOf(S) \in S /\ \A j \in S : j <= LastOf(S)
<1>0. \A i \in S : i \in Nat /\ i <= k
  OBVIOUS
<1> DEFINE after == {k - i : i \in S}
<1>1. after \in SUBSET Nat /\ after # {}
  <2>1. \A i \in S : k - i \in Nat
    BY <1>0
  <2>2. after \in SUBSET Nat
    BY <2>1
  <2>3. PICK i : i \in S
    OBVIOUS
  <2>4. k - i \in after
    BY <2>3
  <2> QED BY <2>2, <2>4
<1>2. PICK m \in after : \A d \in after : m <= d
  BY <1>1, LeastNat
<1>3. PICK i \in S : m = k - i
  BY <1>2
<1>4. \A j \in S : j <= i
  <2> TAKE j \in S
  <2>1. k - j \in after
    OBVIOUS
  <2>2. m <= k - j
    BY <1>2, <2>1
  <2> QED BY <1>0, <1>3, <2>2
<1> QED BY <1>3, <1>4 DEF LastOf

\* What came before is not changed by a command that comes after it.
LEMMA BeforeAppend ==
  ASSUME NEW e \in Seq(Ast!AstCommands), NEW c \in Ast!AstCommands, NEW k \in 0..Len(e)
  PROVE  /\ \A i \in 1..k : Append(e, c)[i] = e[i]
         /\ Responding(Append(e, c), k) = Responding(e, k)
         /\ LastNames(Append(e, c), k) = LastNames(e, k)
<1> DEFINE f == Append(e, c)
<1>1. \A i \in 1..k : f[i] = e[i]
  BY AppendProperties
<1> HIDE DEF f
<1>2. Responding(f, k) = Responding(e, k)
  BY <1>1 DEF Responding
<1>3. ASSUME NEW t \in Ast!Tanks PROVE LastName(f, k, t) = LastName(e, k, t)
  <2>1. Naming(f, k, t) = Naming(e, k, t)
    BY <1>1 DEF Naming
  <2>2. Naming(e, k, t) \in SUBSET (1..k) /\ k \in Nat
    BY DEF Naming
  <2>3. CASE Naming(e, k, t) = {}
    BY <2>1, <2>3 DEF LastName
  <2>4. CASE Naming(e, k, t) # {}
    <3>1. LastOf(Naming(e, k, t)) \in 1..k
      BY <2>2, <2>4, LastExists
    <3>2. f[LastOf(Naming(e, k, t))] = e[LastOf(Naming(e, k, t))]
      BY <1>1, <3>1
    <3> QED BY <2>1, <2>4, <3>2 DEF LastName
  <2> QED BY <2>3, <2>4
<1>4. LastNames(f, k) = LastNames(e, k)
  BY <1>3 DEF LastNames
<1> QED BY <1>1, <1>2, <1>4 DEF f

\* The names after one more command: its own where it names a tank.
LEMMA NamesAppend ==
  ASSUME NEW e \in Seq(Ast!AstCommands), NEW c \in Ast!AstCommands, NEW t \in Ast!Tanks
  PROVE  LastName(Append(e, c), Len(e) + 1, t) =
           IF c.name = "S6020" /\ t \in Ast!Named(c) THEN Ast!Padded[c.text]
           ELSE LastName(e, Len(e), t)
<1> DEFINE f == Append(e, c)
           n == Len(e)
<1>1. n \in Nat /\ f[n + 1] = c /\ \A i \in 1..n : f[i] = e[i]
  BY AppendProperties, LenProperties
<1>2. t \in Ast!Named(c) <=> c.tank \in {0, t}
  BY DEF Ast!Named
<1> HIDE DEF f, n
<1>3. Naming(f, n + 1, t) = Naming(f, n, t) \union
        (IF c.name = "S6020" /\ c.tank \in {0, t} THEN {n + 1} ELSE {})
  BY <1>1 DEF Naming
<1>4. CASE c.name = "S6020" /\ c.tank \in {0, t}
  <2>1. n + 1 \in Naming(f, n + 1, t) /\ Naming(f, n + 1, t) \in SUBSET (1..n + 1)
    BY <1>1, <1>3, <1>4 DEF Naming
  <2>2. /\ LastOf(Naming(f, n + 1, t)) \in 1..n + 1
        /\ n + 1 <= LastOf(Naming(f, n + 1, t))
    <3>1. n + 1 \in Nat /\ Naming(f, n + 1, t) # {}
      BY <1>1, <2>1
    <3> QED BY <2>1, <3>1, LastExists
  <2>3. LastOf(Naming(f, n + 1, t)) = n + 1
    BY <1>1, <2>2
  <2>4. LastName(f, n + 1, t) = Ast!Padded[c.text]
    BY <1>1, <2>1, <2>3 DEF LastName
  <2> QED BY <1>2, <1>4, <2>4 DEF f, n
<1>5. CASE ~(c.name = "S6020" /\ c.tank \in {0, t})
  <2>1. LastName(f, n + 1, t) = LastName(f, n, t)
    <3>1. Naming(f, n + 1, t) = Naming(f, n, t)
      BY <1>3, <1>5
    <3> QED BY <3>1 DEF LastName
  <2>2. LastNames(f, n) = LastNames(e, n)
    BY <1>1, BeforeAppend DEF f, n
  <2>3. LastName(f, n, t) = LastName(e, n, t)
    <3>1. LastNames(f, n)[t] = LastName(f, n, t) /\ LastNames(e, n)[t] = LastName(e, n, t)
      BY DEF LastNames
    <3> QED BY <2>2, <3>1
  <2> QED BY <1>2, <1>5, <2>1, <2>3 DEF f, n
<1> QED BY <1>4, <1>5

LEMMA RespondingAppend ==
  ASSUME NEW e \in Seq(Ast!AstCommands), NEW c \in Ast!AstCommands
  PROVE  /\ Cardinality(Responding(e, Len(e))) \in Nat
         /\ Cardinality(Responding(Append(e, c), Len(e) + 1)) =
              Cardinality(Responding(e, Len(e))) + (IF c.name = "S6020" THEN 0 ELSE 1)
<1> DEFINE f == Append(e, c)
           n == Len(e)
           R == Responding(e, n)
<1>1. n \in Nat /\ f[n + 1] = c /\ \A i \in 1..n : f[i] = e[i]
  BY AppendProperties, LenProperties
<1> HIDE DEF f, n
<1>2. IsFiniteSet(R) /\ Cardinality(R) \in Nat /\ n + 1 \notin R
  <2>1. IsFiniteSet(1..n)
    BY <1>1, FS_Interval
  <2>2. R \in SUBSET (1..n)
    BY DEF Responding
  <2>3. n + 1 \notin 1..n
    BY <1>1
  <2> QED BY <2>1, <2>2, <2>3, FS_Subset, FS_CardinalityType
<1>3. Responding(f, n + 1) = IF c.name = "S6020" THEN R ELSE R \union {n + 1}
  BY <1>1 DEF Responding
<1> HIDE DEF R
<1>4. Cardinality(R \union {n + 1}) = Cardinality(R) + 1
  BY <1>2, FS_AddElement
<1>5. Cardinality(Responding(f, n + 1)) = Cardinality(R) + (IF c.name = "S6020" THEN 0 ELSE 1)
  <2>1. CASE c.name = "S6020"
    BY <1>2, <1>3, <2>1
  <2>2. CASE c.name # "S6020"
    BY <1>3, <1>4, <2>2
  <2> QED BY <2>1, <2>2
<1> QED BY <1>2, <1>5 DEF f, n, R

\* One more command keeps the record right, if its response shows the names now.
LEMMA RecordedAppend ==
  ASSUME NEW e \in Seq(Ast!AstCommands), NEW a \in Seq(Shows), NEW nm, Recorded(e, a, nm),
         NEW c \in Ast!AstCommands, NEW b, NEW nm2, NEW x \in Shows,
         b = IF c.name = "S6020" THEN a ELSE Append(a, x),
         c.name = "report" => x = nm,
         nm2 = IF c.name = "S6020"
               THEN [t \in Ast!Tanks |-> IF t \in Ast!Named(c) THEN Ast!Padded[c.text] ELSE nm[t]]
               ELSE nm
  PROVE  Recorded(Append(e, c), b, nm2)
<1> DEFINE f == Append(e, c)
           n == Len(e)
<1>0. n \in Nat /\ Len(f) = n + 1 /\ f[n + 1] = c /\ Len(a) \in Nat
  BY AppendProperties, LenProperties
<1>1. \A k \in 0..n : /\ \A i \in 1..k : f[i] = e[i]
                      /\ Responding(f, k) = Responding(e, k)
                      /\ LastNames(f, k) = LastNames(e, k)
  BY BeforeAppend
<1>2. /\ Cardinality(Responding(e, n)) = Len(a)
      /\ Cardinality(Responding(f, n + 1)) = Len(a) + (IF c.name = "S6020" THEN 0 ELSE 1)
  BY RespondingAppend DEF Recorded
<1>3. \A t \in Ast!Tanks : LastName(f, n + 1, t) =
        IF c.name = "S6020" /\ t \in Ast!Named(c) THEN Ast!Padded[c.text] ELSE LastName(e, n, t)
  BY NamesAppend
<1>4. nm = LastNames(e, n)
  BY DEF Recorded
<1> HIDE DEF f, n
<1>5. nm2 = LastNames(f, n + 1)
  <2>1. \A t \in Ast!Tanks : nm[t] = LastName(e, n, t)
    BY <1>4 DEF LastNames
  <2>2. CASE c.name = "S6020"
    BY <1>3, <2>1, <2>2 DEF LastNames
  <2>3. CASE c.name # "S6020"
    BY <1>3, <1>4, <2>3 DEF LastNames
  <2> QED BY <2>2, <2>3
<1>6. Len(b) = Len(a) + (IF c.name = "S6020" THEN 0 ELSE 1)
      /\ \A i \in 1..Len(a) : b[i] = a[i]
  <2>1. CASE c.name = "S6020"
    BY <1>0, <2>1
  <2>2. CASE c.name # "S6020"
    <3>1. b = Append(a, x)
      BY <2>2
    <3> QED BY <2>2, <3>1, AppendProperties
  <2> QED BY <2>1, <2>2
<1>7. ASSUME NEW i \in 1..Len(a)
      PROVE  \E k \in 0..n : Answered(f, k, i) /\ (f[k + 1].name = "report" => b[i] = LastNames(f, k))
  <2>1. PICK k \in 0..n - 1 :
          Answered(e, k, i) /\ (e[k + 1].name = "report" => a[i] = LastNames(e, k))
    BY DEF Recorded, n
  <2>2. k \in 0..n /\ k + 1 \in 0..n /\ k + 1 \in 1..k + 1
    BY <1>0
  <2>3. f[k + 1] = e[k + 1] /\ Responding(f, k + 1) = Responding(e, k + 1)
        /\ LastNames(f, k) = LastNames(e, k)
    BY <1>1, <2>2
  <2>4. Answered(f, k, i)
    BY <2>1, <2>3 DEF Answered
  <2> QED BY <1>6, <2>1, <2>2, <2>3, <2>4
<1>8. ASSUME c.name # "S6020"
      PROVE  Answered(f, n, Len(b)) /\ (f[n + 1].name = "report" => b[Len(b)] = LastNames(f, n))
  <2>1. Answered(f, n, Len(b))
    BY <1>0, <1>2, <1>6, <1>8 DEF Answered
  <2>2. b[Len(b)] = x
    BY <1>0, <1>6, <1>8, AppendProperties
  <2>3. LastNames(f, n) = LastNames(e, n)
    BY <1>0, <1>1
  <2> QED BY <1>0, <1>4, <2>1, <2>2, <2>3
<1>9. ASSUME NEW i \in 1..Len(b)
      PROVE  \E k \in 0..n : Answered(f, k, i) /\ (f[k + 1].name = "report" => b[i] = LastNames(f, k))
  <2>1. CASE i \in 1..Len(a)
    BY <1>7, <2>1
  <2>2. CASE i \notin 1..Len(a)
    <3>1. i = Len(b) /\ c.name # "S6020"
      BY <1>0, <1>6, <2>2
    <3>2. n \in 0..n
      BY <1>0
    <3> QED BY <1>8, <3>1, <3>2
  <2> QED BY <2>1, <2>2
<1>10. Len(f) - 1 = n
  BY <1>0
<1>11. Cardinality(Responding(f, Len(f))) = Len(b)
  BY <1>0, <1>2, <1>6
<1> QED BY <1>0, <1>5, <1>9, <1>10, <1>11 DEF Recorded, f

\* The size of a set is what it is in the module of the server.
LEMMA SameSize ==
  ASSUME NEW S
  PROVE  Ast!Cardinality(S) = Cardinality(S)
BY DEF Ast!Cardinality, Cardinality

\* The record of one connection determines which command a response is of.
LEMMA OneCommand ==
  ASSUME NEW e \in Seq(Ast!AstCommands), NEW n,
         NEW k \in 0..Len(e) - 1, NEW l \in 0..Len(e) - 1,
         Answered(e, k, n), Answered(e, l, n)
  PROVE  k = l
<1> SUFFICES ASSUME NEW i \in 0..Len(e) - 1, NEW j \in 0..Len(e) - 1, i < j,
                    Answered(e, i, n), Answered(e, j, n)
             PROVE  FALSE
  OBVIOUS
<1> DEFINE R(m) == Responding(e, m + 1)
<1>1. i \in Nat /\ j \in Nat
  OBVIOUS
<1>2. R(i) \in SUBSET R(j)
  BY <1>1 DEF Responding
<1>3. j + 1 \in R(j) /\ j + 1 \notin R(i)
  BY <1>1 DEF Responding, Answered
<1>4. IsFiniteSet(R(j))
  <2>1. IsFiniteSet(1..j + 1)
    BY <1>1, FS_Interval
  <2>2. R(j) \in SUBSET (1..j + 1)
    BY DEF Responding
  <2> QED BY <2>1, <2>2, FS_Subset
<1>5. Cardinality(R(i)) = Cardinality(R(j))
  BY DEF Answered
<1> HIDE DEF R
<1> QED BY <1>2, <1>3, <1>4, <1>5, FS_Subset

LEMMA RecordedShows ==
  ASSUME AstInv
  PROVE  Ast!ReportsShowNames
<1> SUFFICES ASSUME NEW p \in AstPeers, NEW n \in 1..Len(answers[p]),
                    events[p][Ast!Before(p, n) + 1].name = "report"
             PROVE  answers[p][n] = [t \in Ast!Tanks |-> Ast!NameAt(p, Ast!Before(p, n), t)]
  BY DEF Ast!ReportsShowNames
<1> DEFINE e == events[p]
           k == Ast!Before(p, n)
<1>1. e \in Seq(Ast!AstCommands) /\ Recorded(e, answers[p], names[p])
  BY DEF AstInv, AstTyped
<1>2. PICK l \in 0..Len(e) - 1 :
        Answered(e, l, n) /\ (e[l + 1].name = "report" => answers[p][n] = LastNames(e, l))
  BY <1>1 DEF Recorded
<1>3. l \in 0..Len(events[p]) - 1 /\ events[p][l + 1].name # "S6020"
      /\ Ast!Cardinality({i \in 1..l + 1 : events[p][i].name # "S6020"}) = n
  BY <1>2, SameSize DEF Answered, Responding
<1>4. k \in 0..Len(e) - 1 /\ Answered(e, k, n)
  <2>1. k \in 0..Len(events[p]) - 1 /\ events[p][k + 1].name # "S6020"
        /\ Ast!Cardinality({i \in 1..k + 1 : events[p][i].name # "S6020"}) = n
    BY <1>3 DEF Ast!Before
  <2> QED BY <2>1, SameSize DEF Answered, Responding
<1>5. k = l
  BY <1>1, <1>2, <1>4, OneCommand
<1>6. \A t : Ast!NameAt(p, k, t) = LastName(e, k, t)
  BY DEF Ast!NameAt, LastName, Naming, LastOf
<1> HIDE DEF k
<1>7. answers[p][n] = LastNames(e, k)
  BY <1>2, <1>5 DEF k
<1> QED BY <1>6, <1>7 DEF LastNames, k

LEMMA InitAstInv == Init => AstInv
<1> SUFFICES ASSUME Init PROVE AstInv
  OBVIOUS
<1>1. Ast!GuardianInit
  BY DEF Init
<1>2. AstTyped
  <2>1. names \in [AstPeers -> Shows]
    BY <1>1 DEF Ast!GuardianInit, Shows, Labels, Ast!Default
  <2>2. events \in [AstPeers -> Seq(Ast!AstCommands)] /\ answers \in [AstPeers -> Seq(Shows)]
    BY <1>1 DEF Ast!GuardianInit
  <2> QED BY <2>1, <2>2 DEF AstTyped
<1>3. ASSUME NEW p \in AstPeers PROVE Recorded(events[p], answers[p], names[p])
  <2>1. events[p] = <<>> /\ answers[p] = <<>> /\ names[p] = [t \in Ast!Tanks |-> Ast!Default]
    BY <1>1 DEF Ast!GuardianInit
  <2>2. \A t : Naming(<<>>, 0, t) = {}
    BY DEF Naming
  <2>3. Responding(<<>>, 0) = {}
    BY DEF Responding
  <2>4. names[p] = LastNames(<<>>, 0)
    BY <2>1, <2>2 DEF LastNames, LastName
  <2>5. Len(<<>>) = 0 /\ 1..0 = {}
    OBVIOUS
  <2> QED BY <2>1, <2>3, <2>4, <2>5, FS_EmptySet DEF Recorded
<1> QED BY <1>2, <1>3 DEF AstInv

\* A command that is run.
LEMMA RunKeeps ==
  ASSUME AstInv, NEW p \in AstPeers, NEW cmd \in Ast!AstCommands, Ast!Run(p, cmd)
  PROVE  AstInv'
<1>0. /\ names \in [AstPeers -> Shows]
      /\ events \in [AstPeers -> Seq(Ast!AstCommands)]
      /\ answers \in [AstPeers -> Seq(Shows)]
      /\ Recorded(events[p], answers[p], names[p])
  BY DEF AstInv, AstTyped
<1> DEFINE x == IF cmd.name = "report" THEN names[p] ELSE <<"9999FF1B">>
           a == IF cmd.name = "S6020" THEN answers[p] ELSE Append(answers[p], x)
           nm == IF cmd.name = "S6020"
                 THEN [t \in Ast!Tanks |-> IF t \in Ast!Named(cmd) THEN Ast!Padded[cmd.text]
                                           ELSE names[p][t]]
                 ELSE names[p]
           e == Append(events[p], cmd)
<1>1. events' = [events EXCEPT ![p] = e]
  BY DEF Ast!Run
<1>2. answers' = [answers EXCEPT ![p] = a]
  <2>1. CASE cmd.name = "S6020"
    <3>1. answers' = answers
      BY <2>1 DEF Ast!Run
    <3>2. a = answers[p]
      BY <2>1
    <3> QED BY <1>0, <3>1, <3>2
  <2>2. CASE cmd.name # "S6020"
    BY <2>2 DEF Ast!Run
  <2> QED BY <2>1, <2>2
<1>3. names' = [names EXCEPT ![p] = nm]
  <2>1. CASE cmd.name = "S6020"
    <3>1. names' = [names EXCEPT ![p] =
            [t \in Ast!Tanks |-> IF t \in Ast!Named(cmd) THEN Ast!Padded[cmd.text] ELSE @[t]]]
      BY <2>1 DEF Ast!Run
    <3>2. nm = [t \in Ast!Tanks |-> IF t \in Ast!Named(cmd) THEN Ast!Padded[cmd.text]
                                    ELSE names[p][t]]
      BY <2>1
    <3> HIDE DEF nm
    <3> QED BY <3>1, <3>2
  <2>2. CASE cmd.name # "S6020"
    <3>1. names' = names
      BY <2>2 DEF Ast!Run
    <3>2. nm = names[p]
      BY <2>2
    <3> QED BY <1>0, <3>1, <3>2
  <2> QED BY <2>1, <2>2
<1>4. x \in Shows
  <2>1. names[p] \in Shows /\ <<"9999FF1B">> \in Shows
    BY <1>0 DEF Shows
  <2> QED BY <2>1
<1>5. Recorded(e, a, nm)
  <2>1. /\ events[p] \in Seq(Ast!AstCommands) /\ answers[p] \in Seq(Shows)
        /\ (cmd.name = "report" => x = names[p])
    BY <1>0
  <2> HIDE DEF x
  <2> QED BY <1>0, <1>4, <2>1, RecordedAppend
<1>6. e \in Seq(Ast!AstCommands) /\ a \in Seq(Shows)
  <2>1. e \in Seq(Ast!AstCommands)
    BY <1>0, AppendProperties
  <2>2. answers[p] \in Seq(Shows) /\ Append(answers[p], x) \in Seq(Shows)
    BY <1>0, <1>4, AppendProperties
  <2> QED BY <2>1, <2>2
<1>7. nm \in Shows
  <2>1. CASE cmd.name = "S6020"
    <3>1. names[p] \in [Ast!Tanks -> Labels]
      <4>1. names[p] = LastNames(events[p], Len(events[p]))
        BY <1>0 DEF Recorded
      <4>2. DOMAIN names[p] = 1..4
        BY <4>1 DEF LastNames, Ast!Tanks
      <4>3. names[p] # <<"9999FF1B">>
        <5>1. DOMAIN <<"9999FF1B">> = 1..1 /\ 4 \in 1..4 /\ 4 \notin 1..1
          OBVIOUS
        <5> QED BY <4>2, <5>1
      <4> QED BY <1>0, <4>3 DEF Shows
    <3>2. Ast!Padded[cmd.text] \in Labels
      <4>1. cmd.text \in Ast!Texts
        BY DEF Ast!AstCommands, Ast!Texts
      <4> QED BY <4>1 DEF Ast!Padded, Ast!Texts, Labels
    <3>3. \A t \in Ast!Tanks :
            (IF t \in Ast!Named(cmd) THEN Ast!Padded[cmd.text] ELSE names[p][t])
              \in Labels
      BY <3>1, <3>2
    <3>4. nm \in [Ast!Tanks -> Labels]
      BY <2>1, <3>3
    <3> QED BY <3>4 DEF Shows
  <2>2. CASE cmd.name # "S6020"
    BY <1>0, <2>2
  <2> QED BY <2>1, <2>2
<1> HIDE DEF a, nm, e
<1>8. AstTyped'
  <2>1. names' \in [AstPeers -> Shows]
    BY <1>0, <1>3, <1>7
  <2>2. events' \in [AstPeers -> Seq(Ast!AstCommands)]
    BY <1>0, <1>1, <1>6
  <2>3. answers' \in [AstPeers -> Seq(Shows)]
    BY <1>0, <1>2, <1>6
  <2> QED BY <2>1, <2>2, <2>3 DEF AstTyped
<1>9. ASSUME NEW q \in AstPeers PROVE Recorded(events'[q], answers'[q], names'[q])
  <2>1. CASE q = p
    BY <1>0, <1>1, <1>2, <1>3, <1>5, <2>1
  <2>2. CASE q # p
    <3>1. events'[q] = events[q] /\ answers'[q] = answers[q] /\ names'[q] = names[q]
      BY <1>0, <1>1, <1>2, <1>3, <2>2
    <3> QED BY <3>1 DEF AstInv
  <2> QED BY <2>1, <2>2
<1> QED BY <1>8, <1>9 DEF AstInv

LEMMA NextAstInv == AstInv /\ [Ast!GuardianNext]_astState => AstInv'
<1> SUFFICES ASSUME AstInv, [Ast!GuardianNext]_astState PROVE AstInv'
  OBVIOUS
<1>1. ASSUME UNCHANGED <<names, events, answers>> PROVE AstInv'
  BY <1>1 DEF AstInv, AstTyped
<1>2. CASE UNCHANGED astState
  BY <1>1, <1>2 DEF astState
<1>3. ASSUME NEW p \in AstPeers, NEW cmd \in Ast!AstCommands, Ast!Run(p, cmd) PROVE AstInv'
  BY <1>3, RunKeeps
<1>4. ASSUME NEW p \in AstPeers, Ast!Lost(p) PROVE AstInv'
  BY <1>1, <1>4 DEF Ast!Lost
<1>5. ASSUME NEW p \in AstPeers, Ast!Refused(p) PROVE AstInv'
  BY <1>1, <1>5 DEF Ast!Refused
<1>6. ASSUME NEW p \in AstPeers, Ast!HangUp(p) PROVE AstInv'
  BY <1>1, <1>6 DEF Ast!HangUp
<1>7. ASSUME NEW p \in AstPeers, Ast!Command(p) PROVE AstInv'
  BY <1>1, <1>3, <1>7 DEF Ast!Command
<1>8. ASSUME NEW p \in AstPeers, Ast!Rest(p) PROVE AstInv'
  BY <1>1, <1>3, <1>8 DEF Ast!Rest
<1> QED BY <1>2, <1>4, <1>5, <1>6, <1>7, <1>8 DEF Ast!GuardianNext, Ast!AstHandle

LEMMA SpecAst == Spec => []Ast!ReportsShowNames
<1>1. Init => AstInv
  BY InitAstInv
<1>2. AstInv /\ [Next]_vars => AstInv'
  BY NextAstInv, Steps
<1>3. AstInv => Ast!ReportsShowNames
  BY RecordedShows
<1> QED BY <1>1, <1>2, <1>3, PTL DEF Spec

\* What goes on record, or back to the client, follows what was read from the client,
\* in all five services, for any clients and wherever their streams are cut: a
\* Guardian name that was cut is shown cut, and an HTTP reply with headers of a fetch
\* that failed is exempt.  A CPF item has room for at least one value.
THEOREM AskedIsRecorded ==
  ASSUME MaxValues \in Nat \ {0}
  PROVE  Spec => []RecordedAsAsked
<1>1. Spec => []Enip!RecordsTheRequest
  BY SpecEnip
<1> QED BY <1>1, SpecS7, SpecHttp, SpecAst, SpecProxy, PTL DEF RecordedAsAsked

=============================================================================
