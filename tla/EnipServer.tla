---------------------------- MODULE EnipServer ----------------------------
(* The EtherNet/IP server (protocols/enip): TCP connections and the datagrams *)
(* of the same device share one table of statistics, keyed by the address of  *)
(* the peer, and one set of tags.  Requests are parsed and answered by cpppo, *)
(* which builds the reply inside the very dictionary the request is in.       *)
EXTENDS Naturals, Sequences

CONSTANTS EnipPeers,     \* addresses; a datagram may come from one in use by TCP
          EnipHandlers,  \* TCP handlers, each of one connection
          MaxValues,     \* _MAX_CIP_VALUES
          MaxTransactions \* bound: requests a peer makes

VARIABLES
  serving,      \* the peer of each TCP handler, or how it stands
  connections,  \* statistics by peer: requests and eof
  tag,          \* the values of the tag, each marked with who wrote it
  facts         \* the last transaction recorded, and what its client sent

enipVars == <<serving, connections, tag, facts>>

Free == "free"
Stats == [requests |-> 0, eof |-> FALSE]
Services == {"register", "unregister", "read", "write", "bad"}
Code == [register |-> 0, unregister |-> 0, read |-> 76, write |-> 77, bad |-> 78]
WriteServices == {77, 78}

EnipInit ==
  /\ serving = [h \in EnipHandlers |-> Free] /\ connections = << >>
  /\ tag = <<"template">>
  /\ facts = [service |-> 0, values |-> <<>>, asked |-> 0, sent |-> <<>>]

Has(p) == p \in DOMAIN connections

\* stats_for: the row of the peer, made when it has none.
stats_for(p) == IF Has(p) THEN connections[p] ELSE Stats
Row(p, row) == connections' = [q \in DOMAIN connections \union {p} |->
                                 IF q = p THEN row ELSE connections[q]]
Pop(p) == connections' = [q \in DOMAIN connections \ {p} |-> connections[q]]

\* What cpppo leaves in the request: the service with the bit of a reply, and
\* under .data the client's values or, for a read, the answer.
enip_process(service, values) ==
  [service |-> Code[service] + 128,
   data |-> IF service = "read" THEN tag ELSE values]

Ceiling(s) == SubSeq(s, 1, IF Len(s) < MaxValues THEN Len(s) ELSE MaxValues)

\* mutant: whatever is under .data is taken for what the client wrote.
cip_request_facts_any(req) ==
  [service |-> req.service % 128, values |-> Ceiling(req.data)]

\* _cip_request_facts, read after the call: the bit is masked, and only a write
\* reports its values, up to the ceiling.
cip_request_facts(req) ==
  LET service == req.service % 128
  IN  [service |-> service,
       values |-> IF service \notin WriteServices THEN <<>>
                  ELSE Ceiling(req.data)]

\* A transaction: processed, then recorded; a write that is good sets the tag.
record_request_event(service, values) ==
  /\ LET told == cip_request_facts(enip_process(service, values))
     IN  facts' = [service |-> told.service, values |-> told.values,
                   asked |-> Code[service], sent |-> values]
  /\ tag' = IF service = "write" THEN values ELSE tag

Values(p, service) == IF service \in {"write", "bad"}
                      THEN UNION {[1..n -> {p}] : n \in 1..(MaxValues + 1)} ELSE {<<>>}

(* ------------------------------ TCP -------------------------------------- *)
\* A connection; a peer's address is in one at a time, and may have sent datagrams.
TcpAccept(h, p) ==
  /\ serving[h] = Free /\ p \notin {serving[g] : g \in EnipHandlers}
  /\ serving' = [serving EXCEPT ![h] = p]
  /\ Row(p, stats_for(p)) /\ UNCHANGED <<tag, facts>>

\* One round of handle_tcp: a status other than 0, or a client that unregisters,
\* is the end of the session.
TcpTransaction(h, service, values) ==
  LET p == serving[h]
      row == stats_for(p)
  IN  /\ p # Free /\ ~row.eof /\ row.requests < MaxTransactions
      /\ record_request_event(service, values)
      /\ Row(p, [requests |-> row.requests + 1,
                 eof |-> service \in {"unregister", "bad"}])
      /\ UNCHANGED serving

\* The peer closed, or the server is shutting down.
TcpEof(h) ==
  LET p == serving[h]
  IN  /\ p # Free /\ ~stats_for(p).eof
      /\ Row(p, [stats_for(p) EXCEPT !.eof = TRUE]) /\ UNCHANGED <<serving, tag, facts>>

\* The loop is left, or a request failed to parse: the row goes with the handler.
TcpEnd(h) ==
  /\ serving[h] # Free /\ serving' = [serving EXCEPT ![h] = Free]
  /\ Pop(serving[h]) /\ UNCHANGED <<tag, facts>>

(* ------------------------------ UDP -------------------------------------- *)
\* One datagram, one transaction; one that does not parse is recorded as failed,
\* as is one whose address is that of a connection at its end.
UdpTransaction(p, service, values) ==
  /\ stats_for(p).requests < MaxTransactions /\ UNCHANGED serving
  /\ IF stats_for(p).eof THEN UNCHANGED <<connections, tag, facts>>
     ELSE /\ record_request_event(service, values)
          /\ Row(p, [stats_for(p) EXCEPT !.requests = @ + 1])

UdpFails(p) == Row(p, stats_for(p)) /\ UNCHANGED <<serving, tag, facts>>

EnipNext ==
  \/ \E h \in EnipHandlers :
       \/ TcpEof(h) \/ TcpEnd(h)
       \/ \E p \in EnipPeers : TcpAccept(h, p)
       \/ \E s \in Services : \E v \in Values(serving[h], s) : TcpTransaction(h, s, v)
  \/ \E p \in EnipPeers :
       UdpFails(p) \/ \E s \in Services : \E v \in Values(p, s) : UdpTransaction(p, s, v)

EnipSpec == EnipInit /\ [][EnipNext]_enipVars

(* ------------------------------ properties ------------------------------- *)
\* What is recorded of a transaction is the request's own: the service its client
\* asked for, and as written values only those it sent, never an answer that
\* was built in the same place, such as the value another peer wrote before.
RecordsTheRequest ==
  /\ facts.service = facts.asked
  /\ \A i \in 1..Len(facts.values) :
       i <= MaxValues /\ i <= Len(facts.sent) /\ facts.values[i] = facts.sent[i]
  /\ facts.sent # <<>> => facts.values # <<>>
=============================================================================
