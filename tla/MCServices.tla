----------------------------- MODULE MCServices -----------------------------
(* The protocol services of one conpot process, as one instance for TLC.  The *)
(* services share no state but the hub, so a behaviour follows one of them,   *)
(* whichever it is, while the others stay as they were started: the states    *)
(* of the services add up and do not multiply.                                *)
EXTENDS Naturals

CONSTANTS MaxWire, MaxItems, MaxAttempts,                     \* FtpSession
          FtpClients, MaxName, MaxDepth, MaxStored, MaxGiven, \* FtpFiles
          Transfers, MaxUnits,                                \* TftpTransfer
          IpmiClients, MaxPriv,                               \* IpmiServer
          MaxPackets,                                         \* S7Server
          EnipPeers, EnipHandlers, MaxValues, MaxTransactions, \* EnipServer
          HttpRequests,                                       \* HttpServer
          Operators, Readers, MaxCommands, MaxRequests, MaxInPiece, \* Kamstrup
          MaxFrames,                                          \* KamstrupParser
          MbPeers, MbSlaves, MaxBlocks, MaxAddress, MaxQueries, \* Modbus
          AstPeers, AstCommandsMax,                           \* GuardianAst
          MaxPieces                                           \* ProxyRelay

VARIABLES
  svc,   \* the service this behaviour follows
  link, pc, todo, cmdQ, owed, acct, chan, vfsLock, life,
  tree, meta, cwd, rnfr, upload, commands, raised,
  at, job, stored, copies,
  listed, session, shaken, bmc,
  stage, sent7, taken, begun, gone, answered,
  serving, connections, tag, facts,
  config, step, request, reply, inStep, logged, present,
  data, notices, operator, given, active, timers, reader, whole, served, asked, simulator,
  toCome, frames, buffer, position, parsing, escaped, parsed, unescaped, scan,
  mode, booted, blocks, query, departed, queries,
  ast, names, hungup, events, answers,
  relay, readable, held, produced, fetched, recorded, sent, torn, shut, ended

Ftp == INSTANCE FtpSession
Files == INSTANCE FtpFiles
         WITH Clients <- FtpClients, Uid <- [u \in FtpClients |-> "nobody"], given <- commands
Tftp == INSTANCE TftpTransfer
Ipmi == INSTANCE IpmiServer
S7 == INSTANCE S7Server WITH sent <- sent7, answers <- answered
Enip == INSTANCE EnipServer
Http == INSTANCE HttpServer WITH MaxRequests <- HttpRequests
Meter == INSTANCE Kamstrup
Parser == INSTANCE KamstrupParser
Mb == INSTANCE Modbus
Ast == INSTANCE GuardianAst WITH MaxCommands <- AstCommandsMax
Proxy == INSTANCE ProxyRelay

ftpState == <<link, pc, todo, cmdQ, owed, acct, chan, vfsLock, life>>
filesState == <<tree, meta, cwd, rnfr, upload, commands, raised>>
tftpState == <<at, job, stored, copies>>
ipmiState == <<listed, session, shaken, bmc>>
s7State == <<stage, sent7, taken, begun, gone, answered>>
enipState == <<serving, connections, tag, facts>>
httpState == <<config, step, request, reply, inStep, logged, present>>
meterState == <<data, notices, operator, given, active, timers, reader, whole, served, asked, simulator>>
parserState == <<toCome, frames, buffer, position, parsing, escaped, parsed, unescaped, scan>>
modbusState == <<mode, booted, blocks, query, departed, queries>>
astState == <<ast, names, hungup, events, answers>>
proxyState == <<relay, readable, held, produced, fetched, recorded, sent, torn, shut, ended>>
vars == <<svc, ftpState, filesState, tftpState, ipmiState, s7State, enipState,
          httpState, meterState, parserState, modbusState, astState, proxyState>>

Names == {"ftp", "files", "tftp", "ipmi", "s7", "enip", "http", "meter",
          "parser", "modbus", "ast", "proxy"}

Kept(s) ==
  CASE s = "ftp" -> UNCHANGED ftpState      [] s = "files" -> UNCHANGED filesState
    [] s = "tftp" -> UNCHANGED tftpState   [] s = "ipmi" -> UNCHANGED ipmiState
    [] s = "s7" -> UNCHANGED s7State         [] s = "enip" -> UNCHANGED enipState
    [] s = "http" -> UNCHANGED httpState   [] s = "meter" -> UNCHANGED meterState
    [] s = "parser" -> UNCHANGED parserState [] s = "modbus" -> UNCHANGED modbusState
    [] s = "ast" -> UNCHANGED astState      [] s = "proxy" -> UNCHANGED proxyState

Follows(s) == svc = s /\ UNCHANGED svc /\ \A other \in Names \ {s} : Kept(other)

\* Bound: the file system starts with nothing, or with /a/a in /a and /aa beside it.
StartTrees == {<<{<<>>}, {}>>, <<{<<>>, <<1>>, <<2>>}, {<<1, 1>>}>>}
StartTree == <<{p \in Files!Paths : tree[p] = "dir"}, {p \in Files!Paths : tree[p] = "file"}>>

\* The services that are not followed start in one of their initial states.
Init ==
  /\ svc \in Names
  /\ Files!FilesInit /\ StartTree \in StartTrees
  /\ svc # "files" => StartTree = <<{<<>>}, {}>>
  /\ Ftp!FtpInit /\ Tftp!TftpInit /\ Ipmi!IpmiInit /\ S7!S7Init
  /\ Enip!EnipInit /\ Http!HttpInit /\ Meter!KamInit /\ Parser!ParserInit
  /\ Mb!ModbusInit /\ Ast!GuardianInit /\ Proxy!ProxyInit
  /\ svc # "http" => config = [page |-> Http!Remote, missing |-> Http!Remote,
                               unavailable |-> Http!Remote, disabled |-> {}]
  /\ svc # "parser" => toCome = Parser!Framed(Parser!Bad)
  /\ svc # "modbus" => mode = "tcp"

Next ==
  \/ Follows("ftp") /\ Ftp!FtpNext
  \/ Follows("files") /\ Files!FilesNext
  \/ Follows("tftp") /\ Tftp!TftpNext
  \/ Follows("ipmi") /\ Ipmi!IpmiNext
  \/ Follows("s7") /\ S7!S7Next
  \/ Follows("enip") /\ Enip!EnipNext
  \/ Follows("http") /\ Http!HttpNext
  \/ Follows("meter") /\ Meter!KamNext
  \/ Follows("parser") /\ Parser!ParserNext
  \/ Follows("modbus") /\ Mb!ModbusNext
  \/ Follows("ast") /\ Ast!GuardianNext
  \/ Follows("proxy") /\ Proxy!ProxyNext

\* The fairness of each service that has some, while it is the one followed.
Fairness ==
  /\ WF_ftpState(svc = "ftp" /\ Ftp!Server)
  /\ WF_ftpState(svc = "ftp" /\ Ftp!DataReceived)
  /\ SF_ftpState(svc = "ftp" /\ Ftp!GoStale)
  /\ SF_ftpState(svc = "ftp" /\ Ftp!TakeLock)
  /\ WF_ftpState(svc = "ftp" /\ Ftp!OtherUpload /\ vfsLock = "other")
  /\ WF_s7State(svc = "s7" /\ (S7!S7Packet \/ S7!S7End))
  /\ WF_meterState(svc = "meter" /\ Meter!notify_observers)
  /\ WF_meterState(svc = "meter" /\ Meter!set_reboot_done)
  /\ \A p \in MbPeers : WF_modbusState(svc = "modbus" /\ Mb!Handle(p))
  /\ \A p \in AstPeers : WF_astState(svc = "ast" /\ (Ast!Lost(p) \/ Ast!Rest(p)))
  /\ WF_proxyState(svc = "proxy" /\ (Proxy!ConnectTo \/ Proxy!Wait \/ Proxy!Read))
  /\ WF_proxyState(svc = "proxy" /\ Proxy!Send)

Spec == Init /\ [][Next]_vars /\ Fairness
(* ------------------------------ properties ------------------------------- *)
\* FTP: a transfer runs only for a client that is logged in and in one direction,
\* and the lock of the file system is held by an upload and by nothing else.
FtpOwned == Ftp!TransferIsOwned /\ Ftp!LockOfUpload

\* FTP: a client with too many bad logins never becomes logged in.
LockedOut == Ftp!LockedOut

\* FTP and TFTP: the cache of owners and modes answers for nothing that is not
\* stored, and all that is stored has its directory; the copy of an upload kept for
\* analysis is whole.
FilesAsLeft == Files!NoGhost /\ Tftp!CopyIsWhole

\* IPMI: the server's one session is listed under the address that closes it, and
\* its key is that of the first user tried, through the handshakes of others.
SessionIsListed == Ipmi!SessionIsListed

\* What goes on record, or back to the client, is what the client asked: S7 answers
\* in order and only after its handshake, EtherNet/IP records the values its client
\* sent, an HTTP reply ends where it says, a Guardian report shows the names its own
\* connection gave, and the proxy relays nothing it has not recorded.
RecordedAsAsked ==
  /\ S7!AnsweredInOrder /\ Enip!RecordsTheRequest /\ Http!RepliesDelimited
  /\ Ast!ReportsShowNames /\ Proxy!RelayedIsRecorded

\* Kamstrup: requests are parsed as they were sent, unless a cut has bytes of one
\* unescaped twice, and a meter that restarts serves a connection for one more piece
\* of its stream at most.
RequestsWhole == Parser!ParsedAsSent /\ Meter!OnePieceWhileDown

\* Kamstrup: the meter is in service again after every restart asked for.
RestartEnds == Meter!RestartEnds

\* A handler whose client has gone ends: FTP unless its command waits for what only
\* another command could bring, S7, Modbus and Guardian unless the process spins in
\* a half-read request, and the proxy when either side has closed.
PeersLetGo ==
  /\ Ftp!GoneClientDropped /\ (gone ~> ~S7!Running) /\ Mb!HandlerEnds
  /\ Ast!AstHandlerEnds /\ Proxy!RelayEnds
=============================================================================
