---------------------------- MODULE FtpSession ----------------------------
(* One FTP connection of protocols/ftp: the rounds in which the three        *)
(* greenlets of FTPHandlerBase.handle run once each, the commands that touch  *)
(* the login, the data channel and an upload, and the lock of the virtual     *)
(* file system, which an upload holds and every session shares.  The commands *)
(* that only read or change the file system are in FtpFiles.                  *)
EXTENDS Naturals, Sequences

CONSTANTS MaxWire,      \* bound: commands sent and not yet read
          MaxItems,     \* bound: items in a queue of the data channel
          MaxAttempts   \* FTPConfig.max_login_attempts

VARIABLES
  link,    \* the client's end: commands on the wire, and how it left
  pc,      \* where the three greenlets of this round are
  todo,    \* the command process_ftp_command is carrying out
  cmdQ,    \* _command_channel_input_q
  owed,    \* are there replies in _command_channel_output_q?
  acct,    \* username, authenticated, invalid_login_attempt
  chan,    \* the data channel: flag, events, address, socket, queues
  vfsLock, \* holder of vfs.lock(): this session, another one, or nobody
  life     \* disconnect_client, the idle timeout and the end of handle()

ftpVars == <<link, pc, todo, cmdQ, owed, acct, chan, vfsLock, life>>

Commands ==
  {"USER anonymous", "USER known", "PASS good", "PASS bad", "REIN", "QUIT",
   "PASV", "PORT", "LIST", "RETR", "STOR", "STOU", "ABOR", "NOOP"}

\* The commands ftp_commands lets through before the login.
NoAuth == {"USER anonymous", "USER known", "PASS good", "PASS bad", "REIN",
           "QUIT", "NOOP"}

FtpInit ==
  /\ link = [wire |-> 0, left |-> "no"]
  /\ pc = [cmd |-> "select", proc |-> "ready", data |-> "ready"]
  /\ todo = "none" /\ cmdQ = 0 /\ owed = TRUE /\ vfsLock = "free"
  /\ acct = [user |-> "none", in |-> FALSE, bad |-> 0]
  /\ chan = [on |-> FALSE, send |-> FALSE, recv |-> FALSE, addr |-> FALSE,
             sock |-> "none", listener |-> FALSE, mode |-> FALSE,
             outQ |-> <<>>, inQ |-> 0]
  /\ life = [leaving |-> FALSE, stale |-> FALSE, over |-> FALSE,
             readable |-> FALSE]

(* ------------------------- the client, the clock ------------------------- *)
\* What arrives after select() has looked is of the next round.
SendCommand ==
  /\ link.left = "no" /\ pc.cmd = "select" /\ link.wire + cmdQ < MaxWire
  /\ Len(chan.outQ) < MaxItems
  /\ link' = [link EXCEPT !.wire = @ + 1]
  /\ UNCHANGED <<pc, todo, cmdQ, owed, acct, chan, vfsLock, life>>

Leave(how) ==
  /\ link.left = "no" /\ pc.cmd # "selected" /\ link' = [link EXCEPT !.left = how]
  /\ UNCHANGED <<pc, todo, cmdQ, owed, acct, chan, vfsLock, life>>

\* FTPMetrics.timeout() reaches FTPConfig.timeout, looked at where it is read.
GoStale ==
  /\ ~life.stale /\ pc.proc = "ready" /\ pc.cmd = "selected"
  /\ life' = [life EXCEPT !.stale = TRUE]
  /\ UNCHANGED <<link, pc, todo, cmdQ, owed, acct, chan, vfsLock>>

\* Another session's upload, in the way of this one's.
OtherUpload ==
  /\ \/ vfsLock = "free" /\ pc.proc = "lock" /\ vfsLock' = "other"
     \/ vfsLock = "other" /\ vfsLock' = "free"
  /\ UNCHANGED <<link, pc, todo, cmdQ, owed, acct, chan, life>>

(* --------------------------- the data channel ---------------------------- *)
\* stop_data_channel, after its wait.
Stopped(c, purge) ==
  [c EXCEPT !.on = FALSE, !.send = TRUE, !.recv = TRUE,
            !.sock = IF @ = "open" THEN "closed" ELSE @,
            !.addr = @ /\ ~purge,
            !.inQ = IF purge THEN 0 ELSE @,
            !.outQ = IF purge THEN <<>> ELSE @]

\* What stop_data_channel waits for unless it aborts.
MayStop(q) == (chan.outQ = <<>> /\ q = 0) \/ (chan.send /\ chan.recv)

HasPeer == chan.addr /\ chan.sock # "none"

(* ------------------------ process_ftp_command ---------------------------- *)
\* The command ends with n replies, the data channel as c.
Finish(n, c) ==
  /\ pc' = [pc EXCEPT !.proc = "done"] /\ todo' = "none"
  /\ owed' = (owed \/ n > 0) /\ chan' = c

\* The command c blocks its greenlet.
Await(where, c) == pc' = [pc EXCEPT !.proc = where] /\ todo' = c

do_USER(name) ==
  /\ Finish(1, chan)
  /\ acct' = IF acct.in THEN acct ELSE [acct EXCEPT !.user = name]
  /\ UNCHANGED <<vfsLock, life>>

\* A second PASS is answered 503 and then checked all the same.
do_PASS(good) ==
  LET ok == acct.user = "anonymous" \/ (acct.user = "known" /\ good) IN
  /\ Finish(1 + (IF acct.in \/ acct.user = "none" THEN 1 ELSE 0), chan)
  /\ acct' = IF ok THEN [acct EXCEPT !.in = TRUE, !.user = "known"]
             ELSE [acct EXCEPT !.bad = @ + 1]
  /\ UNCHANGED <<vfsLock, life>>

do_REIN ==
  IF MayStop(cmdQ')
  THEN /\ Finish(1, Stopped(chan, FALSE))
       /\ acct' = [acct EXCEPT !.user = "none", !.in = FALSE]
       /\ UNCHANGED <<vfsLock, life>>
  ELSE Await("stop", "REIN") /\ UNCHANGED <<owed, acct, chan, vfsLock, life>>

do_QUIT ==
  /\ Finish(1, chan) /\ life' = [life EXCEPT !.leaving = TRUE]
  /\ UNCHANGED <<acct, vfsLock>>

\* The client learns the port only if 227 is the next reply to go and this
\* round's command greenlet is about to write: it runs while accept() waits.
do_PASV ==
  IF chan.on /\ ~MayStop(cmdQ')
  THEN Await("stop", "PASV") /\ UNCHANGED <<owed, acct, chan, vfsLock, life>>
  ELSE LET c == IF chan.on \/ pc.proc = "stop" THEN Stopped(chan, TRUE) ELSE chan IN
       /\ Await(IF ~owed /\ ~life.readable THEN "accept" ELSE "deaf", "PASV")
       /\ chan' = [c EXCEPT !.mode = TRUE, !.listener = TRUE]
       /\ owed' = TRUE
       /\ UNCHANGED <<acct, vfsLock, life>>

Accepted ==
  /\ pc.proc = "accept" /\ link.left = "no"
  /\ Finish(0, [chan EXCEPT !.addr = TRUE, !.sock = "open", !.listener = FALSE])
  /\ UNCHANGED <<link, cmdQ, acct, vfsLock, life>>

\* Five seconds without a data connection; the listener stays open.
AcceptTimesOut ==
  /\ pc.proc \in {"accept", "deaf"} /\ Finish(1, chan)
  /\ UNCHANGED <<link, cmdQ, acct, vfsLock, life>>

do_PORT ==
  IF chan.on /\ ~MayStop(cmdQ')
  THEN Await("stop", "PORT") /\ UNCHANGED <<owed, acct, chan, vfsLock, life>>
  ELSE LET c == IF chan.on \/ pc.proc = "stop" THEN Stopped(chan, TRUE) ELSE chan IN
       /\ \/ Finish(1, [c EXCEPT !.mode = TRUE])       \* 501, a malformed address
          \/ /\ Await("connect", "PORT") /\ UNCHANGED owed
             /\ chan' = [c EXCEPT !.mode = TRUE, !.addr = TRUE, !.sock = "closed"]
       /\ UNCHANGED <<acct, vfsLock, life>>

\* A refused connection is not answered at all.
Connected ==
  /\ pc.proc = "connect"
  /\ \/ link.left = "no" /\ Finish(1, [chan EXCEPT !.sock = "open"])
     \/ Finish(0, IF chan.on THEN Stopped(chan, FALSE) ELSE chan)
  /\ UNCHANGED <<link, cmdQ, acct, vfsLock, life>>

\* start_data_channel: 425 without a peer, else wait for the transfer that is
\* running, mark the direction and raise the flag.
StartWaits == HasPeer /\ chan.on /\ ~(chan.send /\ chan.recv)

\* mutant: starting does not wait, and clears an event without setting the other.
Started_one_event(c, upload) ==
  IF ~HasPeer THEN c
  ELSE IF upload THEN [c EXCEPT !.on = TRUE, !.recv = FALSE]
  ELSE [c EXCEPT !.on = TRUE, !.send = FALSE]

Started(c, upload) ==
  IF ~HasPeer THEN c
  ELSE [c EXCEPT !.on = TRUE, !.send = upload, !.recv = ~upload]

\* LIST and NLST queue their text, RETR the name of a file, whether or not the
\* channel can then be started: what a 425 leaves goes out with the next one.
do_LIST(kind) ==
  LET c == [chan EXCEPT !.outQ = Append(@, kind)] IN
  /\ IF StartWaits
     THEN Await("start", "LIST") /\ chan' = c /\ owed' = TRUE
     ELSE Finish((IF HasPeer THEN 1 ELSE 2) + (IF kind = "raw" THEN 1 ELSE 0),
                 Started(c, FALSE))
  /\ UNCHANGED <<acct, vfsLock, life>>

do_ABOR ==
  /\ IF ~chan.mode THEN Finish(1, chan)
     ELSE Finish(IF chan.on THEN 2 ELSE 1, Stopped(chan, TRUE))
  /\ UNCHANGED <<acct, vfsLock, life>>

do_STOR == Await("lock", "STOR") /\ UNCHANGED <<owed, acct, chan, vfsLock, life>>

\* STOU of a directory that is not there: the error ends the connection.
do_STOU ==
  \/ do_STOR
  \/ /\ Finish(0, chan) /\ life' = [life EXCEPT !.leaving = TRUE]
     /\ UNCHANGED <<acct, vfsLock>>

\* Any command that only answers, and a refusal of any other.
do_NOOP == Finish(1, chan) /\ UNCHANGED <<acct, vfsLock, life>>

Dispatch(c) ==
  CASE c = "USER anonymous" -> do_USER("anonymous")
    [] c = "USER known" -> do_USER("known")
    [] c = "PASS good" -> do_PASS(TRUE)
    [] c = "PASS bad" -> do_PASS(FALSE)
    [] c = "REIN" -> do_REIN
    [] c = "QUIT" -> do_QUIT
    [] c = "PASV" -> do_PASV
    [] c = "PORT" -> do_PORT
    [] c = "LIST" -> do_LIST("raw") \/ do_NOOP
    [] c = "RETR" -> do_LIST("file") \/ do_NOOP
    [] c = "STOR" -> do_STOR \/ do_NOOP
    [] c = "STOU" -> do_STOU \/ do_NOOP
    [] c = "ABOR" -> do_ABOR
    [] OTHER -> do_NOOP

\* mutant: the attempts are compared with a strict sign.
process_command_late(c) ==
  IF acct.bad > MaxAttempts
  THEN /\ Finish(1, chan) /\ life' = [life EXCEPT !.leaving = TRUE]
       /\ UNCHANGED <<acct, vfsLock>>
  ELSE Dispatch(c)

\* _process_command: too many bad logins close the connection.
process_command(c) ==
  IF acct.bad >= MaxAttempts
  THEN /\ Finish(1, chan) /\ life' = [life EXCEPT !.leaving = TRUE]
       /\ UNCHANGED <<acct, vfsLock>>
  ELSE Dispatch(c)

\* _pre_process_cmd: 530 before the login.
pre_process_cmd(c) ==
  IF ~acct.in /\ c \notin NoAuth THEN do_NOOP ELSE process_command(c)

\* One turn of process_ftp_command: one command, or the timeout, or nothing.
process_ftp_command ==
  /\ pc.proc = "ready" /\ pc.cmd # "select" /\ UNCHANGED link
  /\ \/ /\ cmdQ > 0 /\ ~life.stale /\ cmdQ' = cmdQ - 1
        /\ \E c \in Commands : pre_process_cmd(c)
     \/ /\ life.stale /\ ~chan.on /\ Finish(1, chan)
        /\ life' = [life EXCEPT !.leaving = TRUE]
        /\ UNCHANGED <<cmdQ, acct, vfsLock>>
     \/ /\ (cmdQ = 0 /\ ~life.stale) \/ (life.stale /\ chan.on)
        /\ Finish(0, chan)
        /\ UNCHANGED <<cmdQ, acct, vfsLock, life>>

\* A REIN, PASV or PORT that waited for the transfer goes on.
StopResumes ==
  /\ pc.proc = "stop" /\ MayStop(cmdQ) /\ UNCHANGED <<link, cmdQ>>
  /\ Dispatch(todo)

StartResumes ==
  /\ pc.proc = "start" /\ ~StartWaits
  /\ IF todo = "STOR"
     THEN /\ Await("recvWait", todo) /\ chan' = Started(chan, TRUE)
          /\ owed' = (owed \/ ~HasPeer)
     ELSE Finish(1, Started(chan, FALSE))
  /\ UNCHANGED <<link, cmdQ, acct, vfsLock, life>>

(* ------------------------------ recv_file -------------------------------- *)
TakeLock ==
  /\ pc.proc = "lock" /\ vfsLock = "free" /\ vfsLock' = "me" /\ Await("start", todo)
  /\ UNCHANGED <<link, cmdQ, owed, acct, chan, life>>

RecvDone ==
  /\ pc.proc = "recvWait" /\ chan.recv /\ Await("get", todo)
  /\ UNCHANGED <<link, cmdQ, owed, acct, chan, vfsLock, life>>

\* The first piece is awaited without a limit; an error of the file system
\* leaves the pieces not yet written for the next upload.
WriteUpload ==
  /\ pc.proc = "get" /\ chan.inQ > 0 /\ vfsLock' = "free"
  /\ \/ Finish(1, [chan EXCEPT !.inQ = 0])
     \/ \E k \in 1..chan.inQ :
          Finish(1, [Stopped(chan, FALSE) EXCEPT !.inQ = @ - k])
  /\ UNCHANGED <<link, cmdQ, acct, life>>

(* -------------------------- handle_data_channel -------------------------- *)
DataEnds(n, c) ==
  /\ pc' = [pc EXCEPT !.data = "done"] /\ owed' = (owed \/ n > 0) /\ chan' = c

\* One item of the queue, 226 after the last; a file that has gone is skipped,
\* one that cannot be read answers 550, a broken socket drops everything.
SendItem ==
  LET rest == [chan EXCEPT !.outQ = Tail(@)]
      last == Tail(chan.outQ) = <<>> IN
  /\ chan.outQ # <<>>
  /\ \/ /\ chan.sock = "open" \/ Head(chan.outQ) = "file"
        /\ DataEnds(IF last THEN 1 ELSE 0, [rest EXCEPT !.send = last])
     \/ DataEnds(0, Stopped(chan, TRUE))
     \/ Head(chan.outQ) = "file" /\ DataEnds(1, Stopped(rest, FALSE))

handle_data_channel ==
  /\ pc.data = "ready" /\ pc.proc # "ready"
  /\ \/ ~chan.on /\ DataEnds(0, chan) /\ UNCHANGED life
     \/ chan.on /\ ~chan.send /\ SendItem /\ life' = [life EXCEPT !.stale = FALSE]
     \/ /\ chan.on /\ chan.send /\ ~chan.recv /\ UNCHANGED life
        /\ IF chan.sock = "open"
           THEN pc' = [pc EXCEPT !.data = "recv"] /\ owed' = TRUE /\ UNCHANGED chan
           ELSE DataEnds(1, Stopped(chan, TRUE))
     \/ /\ chan.on /\ chan.send /\ chan.recv /\ UNCHANGED life
        /\ DataEnds(0, Stopped(chan, FALSE))
  /\ UNCHANGED <<link, todo, cmdQ, acct, vfsLock>>

\* The client closes its data connection after n pieces (the empty read that
\* ends a transfer is queued too), or the socket breaks.
DataReceived ==
  /\ pc.data = "recv"
  /\ \/ \E n \in 0..1 :
          /\ chan.inQ + 2 * n <= MaxItems + 1
          /\ DataEnds(1, [chan EXCEPT !.recv = TRUE, !.inQ = @ + 2 * n])
     \/ DataEnds(0, Stopped(chan, TRUE))
  /\ life' = [life EXCEPT !.stale = FALSE]
  /\ UNCHANGED <<link, todo, cmdQ, acct, vfsLock>>

(* -------------------------- handle_cmd_channel --------------------------- *)
\* select() looks at the socket and yields: what it saw is used after the other
\* two greenlets have run.
Select ==
  /\ pc.cmd = "select" /\ pc' = [pc EXCEPT !.cmd = "selected"]
  /\ life' = [life EXCEPT !.readable = link.wire > 0 \/ link.left # "no"]
  /\ UNCHANGED <<link, todo, cmdQ, owed, acct, chan, vfsLock>>

\* One read or, with nothing to read, one reply.  A closed connection reads as
\* nothing; a reset one ends the session, unless finish() stumbles over a
\* listener that is open with no data socket to close.
handle_cmd_channel ==
  /\ pc.cmd = "selected" /\ pc.data # "ready"
  /\ pc' = [pc EXCEPT !.cmd = "done"]
  /\ \/ /\ life.readable /\ link.wire > 0
        /\ cmdQ' = cmdQ + 1
        /\ link' = [link EXCEPT !.wire = @ - 1]
        /\ life' = [life EXCEPT !.stale = FALSE] /\ UNCHANGED <<owed, chan>>
     \/ /\ life.readable /\ link.wire = 0 /\ link.left = "closed"
        /\ UNCHANGED <<link, cmdQ, owed, chan, life>>
     \/ /\ life.readable /\ link.wire = 0 /\ link.left = "reset"
        /\ link' = [link EXCEPT !.left = "closed"]
        /\ chan' = Stopped(chan, TRUE) /\ UNCHANGED <<cmdQ, owed>>
        /\ life' = [life EXCEPT !.leaving = @ \/ ~(chan.listener /\ chan.sock = "none")]
     \/ /\ ~life.readable /\ owed /\ owed' \in BOOLEAN
        /\ life' = [life EXCEPT !.stale = FALSE] /\ UNCHANGED <<link, cmdQ, chan>>
     \/ /\ ~life.readable /\ ~owed /\ UNCHANGED <<link, cmdQ, owed, chan, life>>
  /\ UNCHANGED <<todo, acct, vfsLock>>

\* handle: the three are joined, and run again unless the client is to go.
NextRound ==
  /\ pc = [cmd |-> "done", proc |-> "done", data |-> "done"] /\ ~life.over
  /\ IF life.leaving
     THEN life' = [life EXCEPT !.over = TRUE] /\ UNCHANGED pc
     ELSE /\ pc' = [cmd |-> "select", proc |-> "ready", data |-> "ready"]
          /\ UNCHANGED life
  /\ UNCHANGED <<link, todo, cmdQ, owed, acct, chan, vfsLock>>

Server ==
  \/ Select \/ process_ftp_command \/ handle_data_channel
  \/ handle_cmd_channel \/ NextRound
  \/ AcceptTimesOut \/ Connected \/ StopResumes \/ StartResumes
  \/ TakeLock \/ RecvDone \/ WriteUpload

Client == \/ SendCommand
          \/ \E how \in {"closed", "reset"} : Leave(how)
          \/ Accepted

FtpNext == Server \/ Client \/ DataReceived \/ GoStale \/ OtherUpload

\* The greenlets run, the clock goes on, a data connection ends and another
\* session's upload is over at some time; the client promises nothing.
FtpFairness ==
  /\ WF_ftpVars(Server) /\ WF_ftpVars(DataReceived) /\ SF_ftpVars(GoStale)
  /\ SF_ftpVars(TakeLock)
  /\ WF_ftpVars(OtherUpload /\ vfsLock = "other")

FtpSpec == FtpInit /\ [][FtpNext]_ftpVars /\ FtpFairness

(* ------------------------------ properties ------------------------------- *)
\* A transfer is under way only for a client that is logged in, and in one
\* direction: REIN takes the channel down before it forgets the login, and
\* start_data_channel waits for the transfer before.
TransferIsOwned == chan.on => acct.in /\ (chan.send \/ chan.recv)

\* A client with too many bad logins never becomes logged in.
LockedOut == [][acct.bad >= MaxAttempts => (acct'.in => acct.in)]_ftpVars

\* The lock of the file system is held by the session's upload and by nothing
\* else it does: not after a failed upload, and never twice.
LockOfUpload ==
  vfsLock = "me" <=> pc.proc \in {"start", "recvWait", "get"} /\ todo = "STOR"

\* A command greenlet that waits for an event or a queue only another command
\* could serve: the connection is then kept for ever.
Stuck ==
  /\ pc.data = "done" /\ pc.cmd = "done"
  /\ \/ pc.proc = "stop" /\ ~MayStop(cmdQ)
     \/ pc.proc = "start" /\ StartWaits
     \/ pc.proc = "recvWait" /\ ~chan.recv
     \/ pc.proc = "get" /\ chan.inQ = 0

\* A client that has gone is let go in the end, unless its last command is stuck.
GoneClientDropped == (link.left # "no") ~> (life.over \/ Stuck)

\* What recv_file's comment says: with no data in the queue for ten seconds the
\* transfer is taken to be complete.
UploadEnds == (pc.proc = "get") ~> (pc.proc # "get")
=============================================================================
