----------------------------- MODULE Iec104Link -----------------------------
(***************************************************************************)
(* One connection of the IEC 60870-5-104 server: the loop that receives    *)
(* frames (IEC104_server.py) and the link layer it calls (IEC104.py):      *)
(* start and stop of data transfer, send and receive numbers,              *)
(* acknowledgements, and the timers T1 (an answer to what was sent), T2    *)
(* (an acknowledgement of what was received) and T3 (a test frame when the *)
(* peer is silent).                                                        *)
(*                                                                         *)
(* The connection has one greenlet.  It gives way to the hub, and so to    *)
(* the timers, when it waits for a frame that has not come and when a send *)
(* must wait.  A frame that has already come is taken without giving way.  *)
(* What the ASDU of an I-frame asks for is abstracted to the number of     *)
(* I-frames it is answered with, the numbers 0, 2, .., 65534 to            *)
(* 0 .. M - 1, time to ticks.  The six octets T2 sends do not wait.        *)
(***************************************************************************)
EXTENDS Integers, Sequences

CONSTANTS
    M,           \* send and receive numbers are counted modulo M (2^15)
    T1, T2, T3,  \* the timeouts, in ticks
    W,           \* w: acknowledge at the latest after that many I-frames
    BufferCap,   \* send_buffer takes that many frames (50)
    MaxReplies,  \* bound: I-frames a command is answered with
    MaxFrames    \* bound: frames the peer sends

ASSUME Iec104Assumption ==
    /\ {M, T1, T2, T3, W} \subseteq Nat \ {0}
    /\ {BufferCap, MaxReplies, MaxFrames} \subseteq Nat

VARIABLES
    link,        \* "open", "closed" by disconnect(), "died" of an exception
    waiting,     \* the greenlet waits in recv, the hub runs
    todo,        \* frames the handler has still to send, a generator
    allow_DT,
    ssn, rsn, ack,
    telegram_count,
    sentmsgs,    \* the frames under T1, whose order nothing depends on
    buffered,    \* length of send_buffer, whose frames are 1 .. buffered
    t2,          \* t2_caller: "timer" while its start is pending, or "none"
    t2left, t3left,
    frames,      \* frames the peer has sent
    sentN,       \* history: I-frames on the wire
    peerAck,     \* history: how many of them the peer has acknowledged
    lied,        \* history: the peer acknowledged what was never sent
    owed,        \* history: I-frames taken since a receive number was sent
    confirmed,   \* history: STARTDT_con was sent, STOPDT_con not since
    silence      \* history: ticks since the last frame of the peer

numbers == <<ssn, rsn, ack>>
peer == <<frames, silence>>
acked == <<peerAck, lied>>
vars == <<link, waiting, todo, allow_DT, numbers, telegram_count, sentmsgs,
          buffered, t2, t2left, t3left, peer, sentN, acked, owed, confirmed>>

Seqs == 0..(M - 1)

\* A frame under T1.  num is what an I-frame was sent as, counted without
\* wrapping; seq is the SendSeq in the frame now; buf its place in send_buffer.
Timed == [kind : {"I", "TESTFR_act"}, num : Nat, seq : Seqs, buf : Nat,
          left : 0..T1]

\* A frame a handler is about to send, out of send_buffer or new.
Outputs == [name : {"I", "S", "STARTDT_con", "STOPDT_con", "TESTFR_con"},
            buf : 0..BufferCap]

Init ==
    /\ link = "open"
    /\ waiting = FALSE
    /\ todo = <<>>
    /\ allow_DT = FALSE
    /\ ssn = 0 /\ rsn = 0 /\ ack = 0
    /\ telegram_count = 0
    /\ sentmsgs = {}
    /\ buffered = 0
    /\ t2 = "none" /\ t2left = 0
    /\ t3left = T3
    /\ frames = 0 /\ silence = 0
    /\ sentN = 0
    /\ peerAck = 0 /\ lied = FALSE
    /\ owed = 0
    /\ confirmed = FALSE

-----------------------------------------------------------------------------
(* Pieces of the handlers.                                                 *)

Increment_nowrap(n) == n + 1   \* mutant: no wrap

\* The counters wrap after 65534.
Increment(n) == IF n < M - 1 THEN n + 1 ELSE 0

\* gevent.kill of a greenlet whose start is still pending cancels the start:
\* t2_caller is false at once.
KillT2 == t2' = "none" /\ t2left' = 0

\* `if not self.t2_caller': the timer is started unless there is one.
StartT2 ==
    IF t2 = "none" THEN t2' = "timer" /\ t2left' = T2
                   ELSE UNCHANGED <<t2, t2left>>

Unacknowledged_last(k) ==   \* mutant: the last acknowledged frame is kept
    {e \in sentmsgs : e.kind # "I" \/ e.seq + 1 >= k}

\* What stays under T1 when the peer acknowledges all numbers below k.
Unacknowledged(k) ==
    {e \in sentmsgs : e.kind # "I" \/ e.seq >= k}

\* A test frame in either direction answers our own.
Untested == {e \in sentmsgs : e.kind # "TESTFR_act"}

\* disconnect(): the timers of sentmsgs are left to fire at a dead greenlet.
Disconnect ==
    /\ link' = "closed"
    /\ KillT2
    /\ ssn' = 0 /\ rsn' = 0 /\ ack' = 0
    /\ telegram_count' = 0
    /\ UNCHANGED <<waiting, todo, allow_DT, sentmsgs, buffered, t3left, sentN,
                   acked, owed, confirmed>>

\* An exception that handle() does not catch ends the greenlet, and the
\* server closes the socket.  A T2 still pending finds it closed.
Dies ==
    /\ link' = "died"
    /\ UNCHANGED <<waiting, todo, allow_DT, numbers, telegram_count, sentmsgs,
                   buffered, t2, t2left, t3left, sentN, acked, owed,
                   confirmed>>

\* History: the number k of the peer as a count of our I-frames.
Acknowledges(k) ==
    LET n == sentN - ((sentN - k) % M) IN
    /\ peerAck' = IF n > peerAck THEN n ELSE peerAck
    /\ lied' = (lied \/ n < 0)

-----------------------------------------------------------------------------
(* The loop of handle().                                                   *)

\* recv finds nothing: T3 has started, and the hub runs.
Wait ==
    /\ link = "open" /\ todo = <<>> /\ ~waiting
    /\ waiting' = TRUE
    /\ t3left' = T3
    /\ UNCHANGED <<link, todo, allow_DT, numbers, telegram_count, sentmsgs,
                   buffered, t2, t2left, peer, sentN, acked, owed,
                   confirmed>>

\* A whole frame is received, at once if it was there already.
Receives ==
    /\ link = "open" /\ todo = <<>> /\ frames < MaxFrames
    /\ frames' = frames + 1
    /\ silence' = 0

Runs == waiting' = FALSE /\ link' = link /\ t3left' = t3left

\* No 0x68 in it, a U- or S-frame that is not valid, or one nothing is done
\* for (STARTDT_con, STOPDT_con).
Ignored ==
    /\ Receives /\ Runs
    /\ UNCHANGED <<todo, allow_DT, numbers, telegram_count, sentmsgs, buffered,
                   t2, t2left, sentN, acked, owed, confirmed>>

\* Too short for the octet that tells its type, or an I-frame with no ASDU,
\* of which TypeID is asked all the same.
Truncated == Receives /\ Dies

\* recv returns nothing, or a socket call fails.
PeerGone == link = "open" /\ Disconnect /\ UNCHANGED peer

-----------------------------------------------------------------------------
(* The frames that are acted on.                                           *)

Out(name) == [name |-> name, buf |-> 0]

StartDT ==
    /\ Receives /\ Runs
    /\ allow_DT' = TRUE
    /\ todo' = <<Out("STARTDT_con")>>
                 \o [b \in 1..buffered |-> [name |-> "I", buf |-> b]]
    /\ UNCHANGED <<numbers, telegram_count, sentmsgs, buffered, t2, t2left,
                   sentN, acked, owed, confirmed>>

StopDT ==
    /\ Receives /\ Runs
    /\ allow_DT' = FALSE
    /\ todo' = <<Out("S"), Out("STOPDT_con")>>
    /\ UNCHANGED <<numbers, telegram_count, sentmsgs, buffered, t2, t2left,
                   sentN, acked, owed, confirmed>>

TestFR(type) ==
    /\ Receives /\ Runs
    /\ sentmsgs' = Untested
    /\ todo' = IF type = "act" THEN <<Out("TESTFR_con")>> ELSE <<>>
    /\ UNCHANGED <<allow_DT, numbers, telegram_count, buffered, t2, t2left,
                   sentN, acked, owed, confirmed>>

SFrame(k) ==
    /\ Receives /\ Runs
    /\ ack' = IF k <= ssn THEN k ELSE ack
    /\ sentmsgs' = Unacknowledged(ack')
    /\ Acknowledges(k)
    /\ UNCHANGED <<todo, allow_DT, ssn, rsn, telegram_count, buffered, t2,
                   t2left, sentN, owed, confirmed>>

\* How many I-frames a command is answered with: an activation confirmation,
\* the related object, the termination; one negative one; none where the cause
\* or the ASDU does not fit; as many as there are objects for an interrogation.
Replies == 0..MaxReplies

\* The rest of handle_i_frame for the count-th telegram since something was
\* sent.  At w a T2 started for it is killed again; the S-frame is built and
\* returned, as bytes, which handle() iterates over: sock.send of a number is a
\* TypeError.
Answers(count, n) ==
    \/ /\ count < W
       /\ StartT2
       /\ telegram_count' = count
       /\ todo' = [i \in 1..n |-> Out("I")]
       /\ link' = link
    \/ /\ count >= W
       /\ KillT2
       /\ telegram_count' = 0
       /\ link' = "died"
       /\ todo' = todo

\* The expected number: counted, its acknowledgement taken, answered with n
\* I-frames (none, for an ASDU that is only recorded).
IFrame(k, n) ==
    /\ Receives
    /\ waiting' = FALSE
    /\ rsn' = Increment(rsn)
    /\ sentmsgs' = Unacknowledged(k)
    /\ Acknowledges(k)
    /\ Answers(telegram_count + 1, n)
    /\ owed' = owed + 1
    /\ UNCHANGED <<allow_DT, ssn, ack, buffered, t3left, sentN, confirmed>>

\* Its length field is wrong: the exception is caught before the counters are
\* touched, and the frame is answered all the same.
IFrameOfWrongLength(n) ==
    /\ Receives
    /\ waiting' = FALSE
    /\ Answers(telegram_count, n)
    /\ UNCHANGED <<allow_DT, numbers, sentmsgs, buffered, t3left, sentN, acked,
                   owed, confirmed>>

\* Another number than the expected one.  disconnect() is called where its
\* result was meant to be spawned, so nothing is sent before.
SequenceError == Receives /\ Disconnect

-----------------------------------------------------------------------------
(* The answers: send_104frame, then sock.send.                             *)

Sends(name) ==
    /\ link = "open" /\ todo # <<>> /\ Head(todo).name = name
    /\ todo' = Tail(todo)
    /\ UNCHANGED <<link, waiting, allow_DT, rsn, ack, t3left, peer, acked>>

SendU(name) ==
    /\ Sends(name)
    /\ confirmed' = CASE name = "STARTDT_con" -> TRUE
                      [] name = "STOPDT_con" -> FALSE
                      [] OTHER -> confirmed
    /\ UNCHANGED <<ssn, telegram_count, sentmsgs, buffered, t2, t2left, sentN,
                   owed>>

SendS ==
    /\ Sends("S")
    /\ KillT2
    /\ telegram_count' = 0
    /\ owed' = 0
    /\ UNCHANGED <<ssn, sentmsgs, buffered, sentN, confirmed>>

\* A buffered frame that is sent again gets a new number where the frame
\* object is: in its earlier entries of sentmsgs too.
Renumbered(b) ==
    {IF b # 0 /\ e.buf = b THEN [e EXCEPT !.seq = ssn] ELSE e : e \in sentmsgs}

MaySend_full == allow_DT \/ buffered = BufferCap   \* mutant: sent when the buffer is full
MaySend == allow_DT

SendI ==
    /\ Sends("I")
    /\ MaySend
    /\ KillT2
    /\ sentmsgs' = Renumbered(Head(todo).buf) \cup
                    {[kind |-> "I", num |-> sentN, seq |-> ssn,
                      buf |-> Head(todo).buf, left |-> T1]}
    /\ ssn' = Increment(ssn)
    /\ telegram_count' = 0
    /\ sentN' = sentN + 1
    /\ owed' = 0
    /\ UNCHANGED <<buffered, confirmed>>

BufferI_kill ==   \* mutant: T2 is killed before it is known whether the answer leaves
    /\ Sends("I")
    /\ ~MaySend
    /\ KillT2
    /\ telegram_count' = 0
    /\ buffered' = IF buffered < BufferCap THEN buffered + 1 ELSE buffered
    /\ UNCHANGED <<ssn, sentmsgs, sentN, owed, confirmed>>

\* Before STARTDT_act the answer is kept, and lost when the buffer is full.
BufferI ==
    /\ Sends("I")
    /\ ~MaySend
    /\ buffered' = IF buffered < BufferCap THEN buffered + 1 ELSE buffered
    /\ UNCHANGED <<ssn, telegram_count, sentmsgs, t2, t2left, sentN, owed,
                   confirmed>>

-----------------------------------------------------------------------------
(* The hub, while the greenlet waits in recv or in a send.                 *)

InHub == link = "open" /\ (waiting \/ todo # <<>>)

\* send_frame_imm, in the greenlet of T2, which then ends.
T2Fires ==
    /\ InHub /\ t2 = "timer" /\ t2left = 0
    /\ t2' = "none"
    /\ telegram_count' = 0
    /\ owed' = 0
    /\ UNCHANGED <<link, waiting, todo, allow_DT, numbers, sentmsgs, buffered,
                   t2left, t3left, peer, sentN, acked, confirmed>>

T3Start_T2 == T2   \* mutant: the wrong timeout
T3Start == T3

UnderT1_not == sentmsgs   \* mutant: only a STARTDT_act is put under T1
UnderT1 == sentmsgs \cup {[kind |-> "TESTFR_act", num |-> 0, seq |-> 0,
                           buf |-> 0, left |-> T1]}

\* The test frame is sent and the loop starts T3 again.
T3Fires ==
    /\ link = "open" /\ waiting /\ t3left = 0
    /\ sentmsgs' = UnderT1
    /\ t3left' = T3Start
    /\ UNCHANGED <<link, waiting, todo, allow_DT, numbers, telegram_count,
                   buffered, t2, t2left, peer, sentN, acked, owed,
                   confirmed>>

T1Fires ==
    /\ InHub
    /\ \E e \in sentmsgs : e.left = 0
    /\ Disconnect
    /\ UNCHANGED peer

\* Time passes only while the greenlet waits for the peer and no timer is due.
Tick ==
    /\ link = "open" /\ waiting
    /\ t3left > 0 /\ (t2 = "timer" => t2left > 0)
    /\ \A e \in sentmsgs : e.left > 0
    /\ t3left' = t3left - 1
    /\ t2left' = IF t2 = "timer" THEN t2left - 1 ELSE t2left
    /\ sentmsgs' = {[e EXCEPT !.left = @ - 1] : e \in sentmsgs}
    /\ silence' = silence + 1
    /\ UNCHANGED <<link, waiting, todo, allow_DT, numbers, telegram_count,
                   buffered, t2, frames, sentN, acked, owed, confirmed>>

-----------------------------------------------------------------------------
Next ==
    \/ Wait \/ Ignored \/ Truncated \/ PeerGone
    \/ StartDT \/ StopDT
    \/ \E type \in {"act", "con"} : TestFR(type)
    \/ \E k \in Seqs : SFrame(k)
    \/ \E k \in Seqs, n \in Replies : IFrame(k, n)
    \/ \E n \in Replies : IFrameOfWrongLength(n)
    \/ SequenceError
    \/ \E name \in {"STARTDT_con", "STOPDT_con", "TESTFR_con"} : SendU(name)
    \/ SendS \/ SendI \/ BufferI
    \/ T1Fires \/ T2Fires \/ T3Fires \/ Tick

Spec == Init /\ [][Next]_vars
-----------------------------------------------------------------------------
(* Properties.                                                             *)

\* Every variable stays in its range: numbers below M, a count below w, a
\* buffer within its capacity.
TypeOK ==
    /\ link \in {"open", "closed", "died"}
    /\ waiting \in BOOLEAN /\ allow_DT \in BOOLEAN /\ lied \in BOOLEAN
    /\ confirmed \in BOOLEAN
    /\ todo \in Seq(Outputs)
    /\ ssn \in Seqs /\ rsn \in Seqs /\ ack \in Seqs
    /\ telegram_count \in 0..(W - 1)
    /\ sentmsgs \subseteq Timed
    /\ buffered \in 0..BufferCap
    /\ t2 \in {"none", "timer"} /\ t2left \in 0..T2
    /\ t3left \in 0..T3
    /\ frames \in 0..MaxFrames
    /\ sentN \in Nat /\ peerAck \in Nat /\ silence \in Nat
    /\ owed \in 0..W

\* T1 supervises what the peer has yet to acknowledge (handle_s_frame and
\* handle_i_frame clear sentmsgs).  The send number is in step with what was
\* sent; a frame the peer has acknowledged is under T1 only if a resend out of
\* send_buffer has renumbered it or the send number has wrapped since it was
\* sent; and until the first wrap, with a peer that acknowledges only what was
\* sent, nothing unacknowledged escapes T1.
T1SupervisesUnacknowledged ==
    link = "open" =>
        /\ ssn = sentN % M
        /\ \A e \in sentmsgs :
              e.kind = "I" /\ e.num < peerAck =>
                  e.seq # e.num % M \/ e.num \div M < sentN \div M
        /\ sentN < M /\ ~lied =>
              \A n \in peerAck..(sentN - 1) :
                  \E e \in sentmsgs : e.kind = "I" /\ e.num = n

\* A peer that says nothing at all for T3 + T1 is disconnected then: the test
\* frame of T3 is itself under T1 (handle's Timeout_t3 and gevent.Timeout).
SilentPeerDropped == link = "open" => silence <= T3 + T1

\* I-frames leave only between a STARTDT_con and the next STOPDT_con, those
\* of a command or out of send_buffer that were begun before included.
DataOnlyStarted == [][sentN' > sentN => confirmed]_vars

\* An I-frame that was taken and is not acknowledged has T2 pending, however
\* the answers that kill T2 come between the frames that start it
\* (handle_i_frame, send_104frame, send_frame_imm).
T2CoversUnacknowledged == link = "open" /\ owed > 0 => t2 = "timer"

\* A second test frame is never sent while the first has neither been
\* answered nor closed the link; two would be cleared by one answer.
OneTestOutstanding ==
    \A e, f \in sentmsgs \ Untested : e = f

\* What template.xml says of w: "Latest acknowledge after receiving w I-format
\* APDUs".
AcknowledgedAtW == owed < W

=============================================================================
