--------------------------- MODULE TftpTransfer ---------------------------
(* TFTP transfers of one file name (protocols/tftp): each request is handled  *)
(* by a greenlet and a context of its own, takes exactly one more packet and  *)
(* ends.  The states of the context are those of the library tftpy.  A file   *)
(* is a sequence of units, each marked with the transfer it came from; a      *)
(* single block of data fits in the buffer of the open file, so it reaches    *)
(* the store when the file is closed.                                         *)
EXTENDS Naturals, Sequences, SequencesExt

CONSTANTS Transfers,   \* requests, each by a client of its own
          MaxUnits     \* bound: units in one block

VARIABLES
  at,      \* phase of each transfer
  job,     \* what it asks for, and the block the client will send
  stored,  \* the file in the vfs, "none" before it exists
  copies   \* what was copied to data_fs, by transfer

tftpVars == <<at, job, stored, copies>>

Block(t, n) == [i \in 1..n |-> t]
NoFile == <<"none">>

TftpInit ==
  /\ at = [t \in Transfers |-> "new"]
  /\ job = [t \in Transfers |-> [op |-> "none", len |-> 0, last |-> FALSE,
                                 ready |-> FALSE]]
  /\ stored = NoFile /\ copies = [t \in Transfers |-> NoFile]

Goes(t, phase) == at' = [at EXCEPT ![t] = phase]

\* A read request: the file is opened, and answered with its first block or,
\* when options were asked for, with an OACK; a missing file is an error.
TFTPStateServerRecvRRQ(t, options) ==
  /\ IF stored = NoFile THEN Goes(t, "failed") ELSE Goes(t, "expectACK")
  /\ job' = [job EXCEPT ![t].op = "read", ![t].ready = ~options]
  /\ UNCHANGED <<stored, copies>>

\* A write request makes the directories and empties the file at once.
TFTPStateServerRecvWRQ(t, len, last) ==
  /\ Goes(t, "expectDAT") /\ stored' = <<>>
  /\ job' = [job EXCEPT ![t] = [op |-> "write", len |-> len, last |-> last,
                                ready |-> FALSE]]
  /\ UNCHANGED copies

\* TFTPContextServer.start: anything else is an illegal operation.
start(t) ==
  /\ at[t] = "new"
  /\ \/ \E options \in BOOLEAN : TFTPStateServerRecvRRQ(t, options)
     \/ \E len \in 1..MaxUnits, last \in BOOLEAN : TFTPStateServerRecvWRQ(t, len, last)
     \/ Goes(t, "failed") /\ UNCHANGED <<job, stored, copies>>

\* The one packet cycle() waits for: the awaited one completes the transfer when
\* it is the last, any other leaves the state as it is or is an error.
cycle(t) ==
  /\ at[t] \in {"expectDAT", "expectACK"}
  /\ \/ at[t] = "expectDAT" /\ Goes(t, IF job[t].last THEN "complete" ELSE "written")
     \/ at[t] = "expectACK" /\ job[t].ready /\ Goes(t, "complete")
     \/ Goes(t, "cut") \/ Goes(t, "failed")
  /\ UNCHANGED <<job, stored, copies>>

\* No packet in time: the last one is sent again, and the transfer ends all the same.
TftpTimeout(t) ==
  /\ at[t] \in {"expectDAT", "expectACK"} /\ Goes(t, "cut")
  /\ UNCHANGED <<job, stored, copies>>

\* Closing the file writes what was received over what is there.
Closed(t) ==
  IF job[t].op = "write" /\ at[t] \in {"complete", "written"}
  THEN Block(t, job[t].len) \o SubSeq(stored, job[t].len + 1, Len(stored))
  ELSE stored

\* TFTPContextServer.end: only a complete upload is copied, from the vfs.
end(t) ==
  /\ at[t] \in {"complete", "written", "cut", "failed"} /\ Goes(t, "ended")
  /\ stored' = Closed(t)
  /\ copies' = IF at[t] = "complete" /\ job[t].op = "write"
               THEN [copies EXCEPT ![t] = Closed(t)] ELSE copies
  /\ UNCHANGED job

TftpNext == \E t \in Transfers : start(t) \/ cycle(t) \/ TftpTimeout(t) \/ end(t)

TftpSpec == TftpInit /\ [][TftpNext]_tftpVars

(* ------------------------------ properties ------------------------------- *)
\* The copy kept for analysis begins with the whole of what its client sent, a
\* last block and nothing missing; where it is longer, the rest is another
\* client's upload of the same name that overlapped this one.
CopyIsWhole ==
  \A t \in Transfers : copies[t] # NoFile =>
    /\ job[t].last /\ IsPrefix(Block(t, job[t].len), copies[t])
    /\ \A i \in 1..Len(copies[t]) : copies[t][i] = t => i <= job[t].len
=============================================================================
