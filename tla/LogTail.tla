------------------------------ MODULE LogTail ------------------------------
(***************************************************************************)
(* The file between conpot and the forwarder.  conpot's JsonLogger         *)
(* (core/loggers/json_log.py) appends one line per event to the file it    *)
(* opened when the process started; the forwarder, another process in      *)
(* another container, follows the file by its path                         *)
(* (forwarder/conpot_forwarder.py, tail_and_forward).  In between the file *)
(* may be renamed away by a log rotation, conpot may die and be started    *)
(* again, and so may the forwarder.                                        *)
(*                                                                         *)
(* A file's content is a sequence of pieces.  A record is one piece, or,   *)
(* when it is longer than the writer's buffer, a "head" that reaches the   *)
(* file while json.dump is still writing and a "tail" flushed with the     *)
(* newline.  A line is what readline returns: the pieces up to a newline   *)
(* or to the end of the file.                                              *)
(***************************************************************************)
EXTENDS Integers, Sequences, FiniteSets, SequencesExt

CONSTANTS
    Long,         \* records longer than the writer's buffer
    Lifecycle,    \* records _map_record drops: no exchange, or no source
    IdleChecks,   \* idle polls between two looks at the path: 20 in the code
    MaxRecords,   \* bound: records written
    MaxInodes,    \* bound: files that exist over time
    MaxDeaths,    \* bound: deaths of conpot
    MaxRestarts   \* bound: restarts of the forwarder

ASSUME TailAssumption == IdleChecks \in Nat \ {0} /\ MaxInodes \in Nat \ {0}

VARIABLES
    content,   \* the pieces in each file
    inodes,    \* files created so far
    path,      \* the file CONPOT_LOG names, 0 when there is none
    whandle,   \* the file conpot has open, 0 while conpot is down
    midway,    \* the record whose head is in the file and tail is not, or 0
    written,   \* records begun
    deaths,
    fpc,       \* where the forwarder is
    fh,        \* the file it has open, 0 for none
    off,       \* its position in it, in pieces
    idle,      \* rotation_check_counter
    restarts,
    mapped,    \* history: the records handed to _post_event, in order
    due        \* history: exchanges completed while the forwarder was tailing

writer == <<whandle, midway, written, deaths>>
reader == <<fpc, fh, off, idle, restarts, mapped>>
vars == <<content, inodes, path, writer, reader, due>>

Records == 1..MaxRecords
Whole(n) == [rec |-> n, part |-> "whole"]
HeadOf(n) == [rec |-> n, part |-> "head"]
TailOf(n) == [rec |-> n, part |-> "tail"]
EndsLine(p) == p.part # "head"

Tailing == fpc # "open"

Init ==
    /\ content = [i \in 1..MaxInodes |-> <<>>]
    /\ inodes = 0
    /\ path = 0
    /\ whandle = 0
    /\ midway = 0
    /\ written = 0
    /\ deaths = 0
    /\ fpc = "open"
    /\ fh = 0
    /\ off = 0
    /\ idle = 0
    /\ restarts = 0
    /\ mapped = <<>>
    /\ due = {}

-----------------------------------------------------------------------------
(* conpot.                                                                 *)

\* JsonLogger.__init__: open(filename, "a") creates the file if need be.
ConpotStarts ==
    /\ whandle = 0
    /\ IF path = 0
       THEN /\ inodes < MaxInodes
            /\ inodes' = inodes + 1
            /\ path' = inodes + 1
       ELSE UNCHANGED <<inodes, path>>
    /\ whandle' = path'
    /\ UNCHANGED <<content, midway, written, deaths, reader, due>>

Owes(n) == due' = IF Tailing /\ n \notin Lifecycle THEN due \cup {n} ELSE due

\* JsonLogger.log of a record that fits the buffer: one flush.
WriteRecord ==
    /\ whandle # 0 /\ midway = 0 /\ written < MaxRecords
    /\ written + 1 \notin Long
    /\ written' = written + 1
    /\ content' = [content EXCEPT ![whandle] = Append(@, Whole(written + 1))]
    /\ Owes(written + 1)
    /\ UNCHANGED <<inodes, path, whandle, midway, deaths, reader>>

\* A longer one: json.dump overflows the buffer before the newline.
WriteHead ==
    /\ whandle # 0 /\ midway = 0 /\ written < MaxRecords
    /\ written + 1 \in Long
    /\ written' = written + 1
    /\ midway' = written + 1
    /\ content' = [content EXCEPT ![whandle] = Append(@, HeadOf(written + 1))]
    /\ UNCHANGED <<inodes, path, whandle, deaths, reader, due>>

WriteTail ==
    /\ whandle # 0 /\ midway # 0
    /\ midway' = 0
    /\ content' = [content EXCEPT ![whandle] = Append(@, TailOf(midway))]
    /\ Owes(midway)
    /\ UNCHANGED <<inodes, path, whandle, written, deaths, reader>>

ConpotDies ==
    /\ whandle # 0 /\ deaths < MaxDeaths
    /\ whandle' = 0
    /\ midway' = 0
    /\ deaths' = deaths + 1
    /\ UNCHANGED <<content, inodes, path, written, reader, due>>

\* A log rotation renames the file; a fresh one may be put in its place.
\* conpot goes on writing to the file it has open.
Rotate ==
    /\ path # 0 /\ inodes < MaxInodes
    /\ \/ path' = 0 /\ UNCHANGED inodes
       \/ path' = inodes + 1 /\ inodes' = inodes + 1
    /\ UNCHANGED <<content, writer, reader, due>>

-----------------------------------------------------------------------------
(* The forwarder.                                                          *)

StartOffset_zero == 0                \* mutant: no seek, the file is replayed
StartOffset == Len(content[path])    \* fh.seek(0, 2)

\* _open_log finds no file: the loop sleeps and asks again.
NoLogYet == fpc = "open" /\ path = 0 /\ UNCHANGED vars

\* _open_log
OpenLog ==
    /\ fpc = "open" /\ path # 0
    /\ fh' = path
    /\ off' = StartOffset
    /\ idle' = 0
    /\ fpc' = "read"
    /\ UNCHANGED <<content, inodes, path, writer, restarts, mapped, due>>

Unread == SubSeq(content[fh], off + 1, Len(content[fh]))

LineLength_all == Len(Unread)   \* mutant: everything there is, read as one line

\* The length of the line at the reader's position, in pieces.
LineLength ==
    LET ends == {i \in DOMAIN Unread : EndsLine(Unread[i])}
    IN  IF ends = {} THEN Len(Unread)
        ELSE CHOOSE i \in ends : \A j \in ends : i <= j

\* json.loads accepts a line only if it is one record, complete.
Parses(line) ==
    \/ Len(line) = 1 /\ line[1].part = "whole"
    \/ Len(line) = 2 /\ line[1].part = "head" /\ line[2] = TailOf(line[1].rec)

\* readline finds something: a record that maps to an event is posted, any
\* other line is dropped.
ReadLine ==
    /\ fpc = "read" /\ Unread # <<>>
    /\ off' = off + LineLength
    /\ idle' = 0
    /\ LET line == SubSeq(Unread, 1, LineLength)
       IN  IF Parses(line) /\ line[1].rec \notin Lifecycle
           THEN fpc' = "post" /\ mapped' = Append(mapped, line[1].rec)
           ELSE UNCHANGED <<fpc, mapped>>
    /\ UNCHANGED <<content, inodes, path, writer, fh, restarts, due>>

\* _post_event is over, which can take many seconds: see EventPost.
PostDone ==
    /\ fpc = "post"
    /\ fpc' = "read"
    /\ UNCHANGED <<content, inodes, path, writer, fh, off, idle, restarts,
                   mapped, due>>

\* readline returns "": time.sleep(0.5)
ReadNothing ==
    /\ fpc = "read" /\ Unread = <<>>
    /\ fpc' = "sleep"
    /\ UNCHANGED <<content, inodes, path, writer, fh, off, idle, restarts,
                   mapped, due>>

Rotated == path # 0 /\ path # fh

NextIdle_reset == 1                    \* mutant: the counter reset at every poll
NextIdle == idle + 1

\* After the sleep, and at every IdleChecks-th idle poll the path is looked
\* up; a break out of the loop closes the file and opens the path's.
Woken ==
    /\ fpc = "sleep"
    /\ IF NextIdle >= IdleChecks
       THEN /\ idle' = 0
            /\ fpc' = IF Rotated THEN "open" ELSE "read"
       ELSE /\ idle' = NextIdle
            /\ fpc' = "read"
    /\ fh' = IF fpc' = "open" THEN 0 ELSE fh
    /\ off' = IF fpc' = "open" THEN 0 ELSE off
    /\ UNCHANGED <<content, inodes, path, writer, restarts, mapped, due>>

\* The forwarder's container is stopped, at any point, and starts again.
ForwarderRestart ==
    /\ restarts < MaxRestarts
    /\ restarts' = restarts + 1
    /\ fpc' = "open"
    /\ fh' = 0
    /\ off' = 0
    /\ idle' = 0
    /\ UNCHANGED <<content, inodes, path, writer, mapped, due>>

-----------------------------------------------------------------------------
Conpot == ConpotStarts \/ WriteRecord \/ WriteHead \/ WriteTail \/ ConpotDies
Forwarder == NoLogYet \/ OpenLog \/ ReadLine \/ PostDone \/ ReadNothing \/ Woken

Next == Conpot \/ Rotate \/ Forwarder \/ ForwarderRestart

Spec == Init /\ [][Next]_vars

(* The forwarder is one loop of calls that return, so it always takes its  *)
(* next step; json.dump, once begun, goes on to its newline.               *)
FairSpec == Spec /\ WF_vars(Forwarder) /\ WF_vars(WriteTail)

-----------------------------------------------------------------------------
(* Records are posted in the order conpot wrote them and none is posted    *)
(* twice, whatever the rotations and the restarts of either process.       *)
PostedOnceInOrder ==
    \A i, j \in DOMAIN mapped : i < j => mapped[i] < mapped[j]

\* Record n stands on a line of its own.
OnOneLine(n) ==
    \E i \in 1..inodes : \E j \in DOMAIN content[i] :
        /\ content[i][j] = Whole(n)
        /\ j = 1 \/ EndsLine(content[i][j - 1])

(* An exchange written as one line while the forwarder was tailing is      *)
(* posted, deaths of conpot and torn lines around it notwithstanding, as   *)
(* long as there is but one log file and the forwarder is not restarted.   *)
WholeLinePosted ==
    \A n \in Records :
        (n \in due /\ OnOneLine(n))
            ~> (n \in ToSet(mapped) \/ inodes > 1 \/ restarts > 0)

(* conpot_forwarder.py:3 "maps each JSON record ... and POSTs": an exchange*)
(* that conpot finished writing while the forwarder was tailing is posted. *)
EachRecordPosted ==
    \A n \in Records : (n \in due) ~> (n \in ToSet(mapped))

(* conpot_forwarder.py:15 "detects log rotation and reopens the file": once*)
(* the path names another file and conpot has left the one the forwarder   *)
(* reads, the forwarder comes to have the path's file open, unless the     *)
(* path stops naming one.  While conpot still writes to the renamed file,  *)
(* nothing is promised: each line starts the counter anew, and with lines  *)
(* more often than every IdleChecks polls it never gets to the look at the *)
(* path.                                                                   *)
RotationNoticed ==
    (Tailing /\ Rotated /\ whandle # fh) ~> (path = 0 \/ fh = path)

=============================================================================
