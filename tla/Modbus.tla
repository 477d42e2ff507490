------------------------------ MODULE Modbus ------------------------------
(* The Modbus server (protocols/modbus): the slaves and their blocks as the   *)
(* template configures them, and a handler per connection over them.  A block *)
(* is [at, regs]: its registers are the list that the databus keeps.  Writing *)
(* and finding a register in a block is modbus_tk's.                          *)
EXTENDS Naturals, Sequences

LOCAL INSTANCE SequencesExt

CONSTANTS MbPeers,     \* connections
          MbSlaves,    \* ids of the slaves configured, 0 among them
          MaxBlocks,   \* bound: blocks in the template
          MaxAddress,  \* bound: addresses are 0..MaxAddress
          MaxQueries   \* bound: requests of all peers

VARIABLES
  mode,     \* self.mode: "tcp" or "serial"
  booted,   \* _configure_slaves is over
  blocks,   \* Slave._memory of one type, in its order, per slave
  query,    \* phase of each connection
  departed, \* peers that have closed their side
  queries   \* requests so far

mbVars == <<mode, booted, blocks, query, departed, queries>>

ModbusInit ==
  /\ mode \in {"tcp", "serial"} /\ booted = FALSE /\ blocks = [s \in MbSlaves |-> <<>>]
  /\ query = [p \in MbPeers |-> "idle"] /\ departed = {} /\ queries = 0

(* ---------------------------- configuration ------------------------------ *)
is_in(block, at, size) ==
  CASE at > block.at -> block.at + Len(block.regs) > at
    [] at < block.at -> at + size > block.at
    [] OTHER -> TRUE

\* add_block looks at the blocks up to the first that starts later, and puts the
\* new one before it, or before all of them when none does.
Looked(list, at, size) ==
  SelectInSeq(list, LAMBDA b : is_in(b, at, size) \/ b.at > at)

add_block(s, at, size) ==
  LET list == blocks[s]
      i == Looked(list, at, size)
      new == [at |-> at, regs |-> [k \in 1..size |-> 0]]
  IN  /\ ~booted
      /\ IF i > 0 /\ is_in(list[i], at, size)
         THEN booted' = TRUE /\ UNCHANGED blocks   \* logged: the rest is not configured
         ELSE /\ blocks' = [blocks EXCEPT ![s] = InsertAt(@, IF i = 0 THEN 1 ELSE i, new)]
              /\ UNCHANGED booted
      /\ UNCHANGED <<mode, query, departed, queries>>

Boot ==
  /\ ~booted /\ booted' = TRUE /\ UNCHANGED <<mode, blocks, query, departed, queries>>

(* ------------------------------ a request -------------------------------- *)
Holding(list, at) == SelectInSeq(list, LAMBDA b : b.at <= at /\ at < b.at + Len(b.regs))

\* MBSlave.handle_request: only a write of a register there is changes something;
\* whatever else is asked is answered, if only with an exception code.
Performed(list, q) ==
  LET i == Holding(list, q.at)
  IN  IF q.fn = "write" /\ i > 0
      THEN [list EXCEPT ![i].regs[q.at - list[i].at + 1] = q.value] ELSE list

\* slave_db's handle_request: the slaves a request is handed to.  Only a write can
\* be broadcast.
Reached(q) ==
  CASE mode = "tcp" -> {q.unit} \intersect {0, 255} \intersect MbSlaves
    [] q.unit = 0 -> IF q.fn = "write" THEN MbSlaves ELSE {}
    [] OTHER -> {q.unit} \intersect 1..247 \intersect MbSlaves

Spinning == \E p \in MbPeers : query[p] = "spinning"
Goes(p, phase) == query' = [query EXCEPT ![p] = phase]
Serves(p) == booted /\ ~Spinning /\ UNCHANGED <<mode, booted, departed>>

\* mutant: a connection that is lost is read again.
Received_again(p) ==
  /\ Serves(p) /\ query[p] = "idle" /\ UNCHANGED blocks
  /\ \/ p \in departed /\ UNCHANGED <<query, queries>>
     \/ Goes(p, "closed") /\ UNCHANGED queries /\ p \notin departed
     \/ Goes(p, "body") /\ queries < MaxQueries /\ queries' = queries + 1

\* recv(7): nothing, an error, a timeout or too little ends the connection; else
\* it is a header and the rest is read byte by byte.
Received(p) ==
  /\ Serves(p) /\ query[p] = "idle" /\ UNCHANGED blocks
  /\ \/ Goes(p, "closed") /\ UNCHANGED queries
     \/ Goes(p, "body") /\ queries < MaxQueries /\ queries' = queries + 1

\* The whole request is there.  One without a function code raises, and one to
\* unit 0 of a serial line has no answer.
Handled(p, q) ==
  /\ Serves(p) /\ query[p] = "body" /\ UNCHANGED queries
  /\ blocks' = [s \in MbSlaves |-> IF s \in Reached(q) THEN Performed(blocks[s], q) ELSE blocks[s]]
  /\ Goes(p, CASE q.fn = "none" -> "died" [] mode = "serial" /\ q.unit = 0 -> "delay"
               [] OTHER -> "reply")

\* The rest does not come.  A timeout leaves the loop with half a request, which is
\* recorded as None and raises; a peer that has closed is read for ever, and as
\* that read never waits nothing else of the process runs.
RestMissing(p) ==
  /\ Serves(p) /\ query[p] = "body" /\ Goes(p, IF p \in departed THEN "spinning" ELSE "died")
  /\ UNCHANGED <<blocks, queries>>

\* The answer is sent, or fails; after the delay of a broadcast the handler closes.
Replied(p) ==
  /\ Serves(p) /\ query[p] \in {"reply", "delay"} /\ UNCHANGED <<blocks, queries>>
  /\ \/ query[p] = "delay" /\ Goes(p, "closed")
     \/ query[p] = "reply" /\ (Goes(p, "idle") \/ (p \in departed /\ Goes(p, "died")))

PeerLeaves(p) ==
  /\ booted /\ p \notin departed /\ departed' = departed \union {p}
  /\ UNCHANGED <<mode, booted, blocks, query, queries>>

Queries == {q \in [unit : {0, 1, 5, 255}, fn : {"write", "other", "none"},
                   at : 0..MaxAddress, value : {0, 1}] :
              q.fn # "write" => q.at = 0 /\ q.value = 0}
Handle(p) == Received(p) \/ (\E q \in Queries : Handled(p, q)) \/ RestMissing(p) \/ Replied(p)

BlockCount == FoldFunction(LAMBDA list, n : n + Len(list), 0, blocks)

ModbusNext ==
  \/ \E s \in MbSlaves, at \in 0..MaxAddress, size \in 1..2 :
       BlockCount < MaxBlocks /\ add_block(s, at, size)
  \/ Boot
  \/ \E p \in MbPeers : Handle(p) \/ PeerLeaves(p)

\* The hub runs a handler whose socket is ready or whose timeout has come.
ModbusSpec == ModbusInit /\ [][ModbusNext]_mbVars /\ \A p \in MbPeers : WF_mbVars(Handle(p))

(* ------------------------------ properties ------------------------------- *)
\* The handler of a peer that has closed its side ends, unless that peer or
\* another closed in the middle of a request: then the server is lost.
HandlerEnds ==
  \A p \in MbPeers : p \in departed ~> (query[p] \in {"closed", "died"} \/ Spinning)

\* The comment of add_block: "it means that only 1 block per type must correspond
\* to a given address".
OneBlockPerAddress ==
  \A s \in MbSlaves : \A i, j \in 1..Len(blocks[s]) :
    i # j => ~is_in(blocks[s][i], blocks[s][j].at, Len(blocks[s][j].regs))
=============================================================================
