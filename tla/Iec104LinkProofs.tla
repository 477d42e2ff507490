-------------------------- MODULE Iec104LinkProofs --------------------------
(* What holds of one IEC 104 connection for every value of the constants.  *)
EXTENDS Iec104Link, TLAPS

\* The constants, one fact each.
LEMMA Constants ==
    /\ M \in Nat /\ M > 0
    /\ T1 \in Nat /\ T1 > 0
    /\ T2 \in Nat /\ T2 > 0
    /\ T3 \in Nat /\ T3 > 0
    /\ W \in Nat /\ W > 0
    /\ BufferCap \in Nat /\ MaxReplies \in Nat /\ MaxFrames \in Nat
BY Iec104Assumption DEF Iec104Assumption

-----------------------------------------------------------------------------
(* Types.  The count of telegrams stays below w because it equals what is  *)
(* owed, and the one that would reach w ends the connection.               *)

\* What is owed to the peer is what is counted, while the link is open.
CountIsOwed == link = "open" => owed = telegram_count

\* TypeOK is the numbers and sets, which SMT proves, and the flags, which
\* Zenon does.
Ranges ==
    /\ link \in {"open", "closed", "died"}
    /\ todo \in Seq(Outputs)
    /\ ssn \in Seqs /\ rsn \in Seqs /\ ack \in Seqs
    /\ telegram_count \in 0..(W - 1)
    /\ sentmsgs \subseteq Timed
    /\ buffered \in 0..BufferCap
    /\ t2 \in {"none", "timer"} /\ t2left \in 0..T2
    /\ t3left \in 0..T3
    /\ frames \in 0..MaxFrames
    /\ sentN \in Nat /\ peerAck \in Nat /\ silence \in Nat
    /\ owed \in 0..W

Flags ==
    /\ waiting \in BOOLEAN /\ allow_DT \in BOOLEAN /\ lied \in BOOLEAN
    /\ confirmed \in BOOLEAN

TypeInv == Ranges /\ CountIsOwed

\* The connection starts with its types.
LEMMA InitTypes == Init => TypeInv
<1> SUFFICES ASSUME Init PROVE TypeInv
  OBVIOUS
<1>1. todo \in Seq(Outputs)
  BY DEF Init
<1>2. sentmsgs \subseteq Timed
  BY DEF Init
<1> QED
  BY <1>1, <1>2, Constants DEF Init, TypeInv, Ranges, CountIsOwed, Seqs

\* What disconnect() leaves is well typed.
LEMMA DisconnectTypes ==
    ASSUME TypeInv, Disconnect, UNCHANGED peer \/ (frames' \in 0..MaxFrames /\ silence' = 0)
    PROVE  TypeInv'
BY Constants DEF TypeInv, Ranges, CountIsOwed, Disconnect, KillT2,
   Seqs, Timed, acked, peer

\* An acknowledgement is counted in the natural numbers.
LEMMA AcknowledgesTypes ==
    ASSUME TypeInv, NEW k \in Seqs, Acknowledges(k)
    PROVE  peerAck' \in Nat
<1> DEFINE n == sentN - ((sentN - k) % M)
<1>1. sentN - k \in Int
  BY Constants DEF TypeInv, Ranges, Seqs
<1>2. (sentN - k) % M \in Int
  BY <1>1, Constants
<1>3. n \in Int
  BY <1>2 DEF TypeInv, Ranges
<1> HIDE DEF n
<1>4. peerAck' = IF n > peerAck THEN n ELSE peerAck
  BY DEF Acknowledges, n
<1>6. peerAck \in Nat
  BY DEF TypeInv, Ranges
<1> QED BY <1>3, <1>4, <1>6

\* The answers to an I-frame are typed, and the count stays below w.
LEMMA AnswersTypes ==
    ASSUME TypeInv, NEW count \in 0..W, NEW n \in Replies,
           Answers(count, n)
    PROVE  /\ link' \in {"open", "closed", "died"}
           /\ todo' \in Seq(Outputs)
           /\ telegram_count' \in 0..(W - 1)
           /\ t2' \in {"none", "timer"} /\ t2left' \in 0..T2
           /\ link' # "died" => link' = link /\ telegram_count' = count
<1>1. CASE count < W
  <2>1. /\ StartT2
        /\ telegram_count' = count
        /\ todo' = [i \in 1..n |-> Out("I")]
        /\ link' = link
    BY <1>1, Constants DEF Answers
  <2>2. Out("I") \in Outputs
    BY Constants DEF Out, Outputs
  <2>3. todo' \in Seq(Outputs)
    BY <2>1, <2>2, Constants DEF Replies
  <2> QED BY <1>1, <2>1, <2>3, Constants DEF StartT2, TypeInv, Ranges
<1>2. CASE count >= W
  BY <1>2, Constants DEF Answers, KillT2, TypeInv, Ranges, Outputs
<1> QED BY <1>1, <1>2, Constants

\* Every step keeps the types.
LEMMA StepTypes == TypeInv /\ [Next]_vars => TypeInv'
<1> SUFFICES ASSUME TypeInv, [Next]_vars PROVE TypeInv'
  OBVIOUS
<1> USE Constants DEF TypeInv, CountIsOwed
<1>1. CASE Wait
  BY <1>1 DEF Wait, Ranges, numbers, peer, acked, Seqs
<1>2. CASE Ignored
  BY <1>2 DEF Ignored, Receives, Runs, Ranges, numbers, acked, Seqs
<1>3. CASE Truncated
  BY <1>3 DEF Truncated, Receives, Dies, Ranges, numbers, acked, Seqs
<1>4. CASE PeerGone
  BY <1>4, DisconnectTypes DEF PeerGone
<1>5. CASE StartDT
  <2>1. [b \in 1..buffered |-> [name |-> "I", buf |-> b]] \in Seq(Outputs)
    BY DEF Outputs, Ranges
  <2>2. <<Out("STARTDT_con")>> \in Seq(Outputs)
    BY DEF Outputs, Out
  <2>3. todo' \in Seq(Outputs)
    BY <1>5, <2>1, <2>2 DEF StartDT
  <2> QED
    BY <1>5, <2>3
    DEF StartDT, Receives, Runs, Ranges, numbers, acked, Seqs, Outputs
<1>6. CASE StopDT
  <2>1. todo' \in Seq(Outputs)
    BY <1>6 DEF StopDT, Outputs, Out
  <2> QED
    BY <1>6, <2>1
    DEF StopDT, Receives, Runs, Ranges, numbers, acked, Seqs, Outputs
<1>7. ASSUME NEW type \in {"act", "con"}, TestFR(type) PROVE TypeInv'
  <2>1. todo' \in Seq(Outputs)
    <3>1. <<Out("TESTFR_con")>> \in Seq(Outputs) /\ <<>> \in Seq(Outputs)
      BY DEF Outputs, Out
    <3> QED BY <1>7, <3>1 DEF TestFR
  <2> QED
    BY <1>7, <2>1
    DEF TestFR, Untested, Receives, Runs, Ranges, numbers, acked, Seqs, Outputs
<1>8. ASSUME NEW k \in Seqs, SFrame(k) PROVE TypeInv'
  <2>1. peerAck' \in Nat
    BY <1>8, AcknowledgesTypes DEF SFrame
  <2> QED
    BY <1>8, <2>1
    DEF SFrame, Unacknowledged, Receives, Runs, Ranges, Seqs
<1>9. ASSUME NEW k \in Seqs, NEW n \in Replies, IFrame(k, n)
      PROVE  TypeInv'
  <2>1. peerAck' \in Nat
    BY <1>9, AcknowledgesTypes DEF IFrame
  <2>2. telegram_count + 1 \in 0..W
    BY DEF Ranges
  <2>3. Answers(telegram_count + 1, n)
    BY <1>9 DEF IFrame
  <2>4. /\ link' \in {"open", "closed", "died"}
        /\ todo' \in Seq(Outputs)
        /\ telegram_count' \in 0..(W - 1)
        /\ t2' \in {"none", "timer"} /\ t2left' \in 0..T2
        /\ link' # "died" => link' = link /\ telegram_count' = telegram_count + 1
    BY <2>2, <2>3, AnswersTypes
  <2> QED
    BY <1>9, <2>1, <2>4
    DEF IFrame, Unacknowledged, Increment, Receives, Ranges, Seqs, Outputs
<1>10. ASSUME NEW n \in Replies, IFrameOfWrongLength(n) PROVE TypeInv'
  <2>1. telegram_count \in 0..W
    BY DEF Ranges
  <2>2. Answers(telegram_count, n)
    BY <1>10 DEF IFrameOfWrongLength
  <2>3. /\ link' \in {"open", "closed", "died"}
        /\ todo' \in Seq(Outputs)
        /\ telegram_count' \in 0..(W - 1)
        /\ t2' \in {"none", "timer"} /\ t2left' \in 0..T2
        /\ link' # "died" => link' = link /\ telegram_count' = telegram_count
    BY <2>1, <2>2, AnswersTypes
  <2> QED
    BY <1>10, <2>3
    DEF IFrameOfWrongLength, Receives, Ranges, numbers, acked, Seqs, Outputs
<1>11. CASE SequenceError
  <2>1. frames' \in 0..MaxFrames /\ silence' = 0
    BY <1>11 DEF SequenceError, Receives, Ranges
  <2> QED BY <1>11, <2>1, DisconnectTypes DEF SequenceError
<1>12. ASSUME NEW name \in {"STARTDT_con", "STOPDT_con", "TESTFR_con"},
              SendU(name)
       PROVE  TypeInv'
  <2>1. Tail(todo) \in Seq(Outputs)
    BY <1>12 DEF SendU, Sends, Ranges, Outputs
  <2> QED
    BY <1>12, <2>1 DEF SendU, Sends, Ranges, peer, acked, Seqs, Outputs
<1>13. CASE SendS
  <2>1. Tail(todo) \in Seq(Outputs)
    BY <1>13 DEF SendS, Sends, Ranges, Outputs
  <2> QED
    BY <1>13, <2>1
    DEF SendS, Sends, KillT2, Ranges, peer, acked, Seqs, Outputs
<1>14. CASE SendI
  <2>1. Tail(todo) \in Seq(Outputs) /\ Head(todo) \in Outputs
    BY <1>14 DEF SendI, Sends, Ranges
  <2>2. [kind |-> "I", num |-> sentN, seq |-> ssn, buf |-> Head(todo).buf,
         left |-> T1] \in Timed
    BY <2>1 DEF Timed, Ranges, Outputs
  <2>3. Renumbered(Head(todo).buf) \subseteq Timed
    BY DEF Renumbered, Timed, Ranges
  <2>4. sentmsgs' \subseteq Timed
    BY <1>14, <2>2, <2>3 DEF SendI
  <2>5. ssn' \in Seqs
    BY <1>14 DEF SendI, Increment, Ranges, Seqs
  <2> QED
    BY <1>14, <2>1, <2>4, <2>5
    DEF SendI, Sends, KillT2, Ranges, peer, acked, Outputs
<1>15. CASE BufferI
  <2>1. Tail(todo) \in Seq(Outputs)
    BY <1>15 DEF BufferI, Sends, Ranges, Outputs
  <2> QED
    BY <1>15, <2>1 DEF BufferI, Sends, Ranges, peer, acked, Seqs, Outputs
<1>17. CASE T1Fires
  BY <1>17, DisconnectTypes DEF T1Fires
<1>18. CASE T2Fires
  BY <1>18 DEF T2Fires, Ranges, numbers, peer, acked, Seqs
<1>19. CASE T3Fires
  BY <1>19
  DEF T3Fires, T3Start, UnderT1, Timed, Ranges, numbers, peer, acked, Seqs
<1>20. CASE Tick
  <2>1. sentmsgs' \subseteq Timed
    <3> SUFFICES ASSUME NEW f \in sentmsgs' PROVE f \in Timed
      OBVIOUS
    <3>1. PICK e \in sentmsgs : f = [e EXCEPT !.left = @ - 1]
      BY <1>20 DEF Tick
    <3>2. e \in Timed /\ e.left > 0
      BY <1>20 DEF Tick, Ranges
    <3> QED BY <3>1, <3>2 DEF Timed
  <2>2. t2left' \in 0..T2 /\ t3left' \in 0..T3 /\ silence' \in Nat
    <3>1. t2left \in 0..T2 /\ t3left \in 0..T3 /\ silence \in Nat
      BY DEF Ranges
    <3>2. /\ t3left > 0 /\ (t2 = "timer" => t2left > 0)
          /\ t3left' = t3left - 1
          /\ t2left' = IF t2 = "timer" THEN t2left - 1 ELSE t2left
          /\ silence' = silence + 1
      BY <1>20 DEF Tick
    <3> QED BY <3>1, <3>2
  <2> QED
    BY <1>20, <2>1, <2>2 DEF Tick, Ranges, numbers, acked, Seqs
<1>21. CASE UNCHANGED vars
  BY <1>21 DEF vars, Ranges, numbers, peer, acked, Seqs
<1> QED
  BY <1>1, <1>2, <1>3, <1>4, <1>5, <1>6, <1>7, <1>8, <1>9, <1>10, <1>11,
     <1>12, <1>13, <1>14, <1>15, <1>17, <1>18, <1>19, <1>20, <1>21
  DEF Next

\* Every step keeps the flags Boolean.
LEMMA StepFlags == Flags /\ [Next]_vars => Flags'
<1> SUFFICES ASSUME Flags, [Next]_vars PROVE Flags'
  OBVIOUS
<1> USE DEF Flags
<1>1. CASE Wait
  BY <1>1, Zenon DEF Wait, acked
<1>2. CASE Ignored
  BY <1>2, Zenon DEF Ignored, Runs, acked
<1>3. CASE Truncated
  BY <1>3, Zenon DEF Truncated, Dies, acked
<1>4. CASE PeerGone \/ SequenceError \/ T1Fires
  BY <1>4, Zenon DEF PeerGone, SequenceError, T1Fires, Disconnect, acked
<1>5. CASE StartDT \/ StopDT
  BY <1>5, Zenon DEF StartDT, StopDT, Runs, acked
<1>6. ASSUME NEW type \in {"act", "con"}, TestFR(type) PROVE Flags'
  BY <1>6, Zenon DEF TestFR, Runs, acked
<1>7. ASSUME NEW k \in Seqs, SFrame(k) PROVE Flags'
  BY <1>7, Zenon DEF SFrame, Runs, Acknowledges
<1>8. ASSUME NEW k \in Seqs, NEW n \in Replies, IFrame(k, n)
      PROVE  Flags'
  BY <1>8, Zenon DEF IFrame, Acknowledges
<1>9. ASSUME NEW n \in Replies, IFrameOfWrongLength(n) PROVE Flags'
  BY <1>9, Zenon DEF IFrameOfWrongLength, acked
<1>10. ASSUME NEW name \in {"STARTDT_con", "STOPDT_con", "TESTFR_con"},
              SendU(name)
       PROVE  Flags'
  <2>1. confirmed' \in {TRUE, FALSE, confirmed}
    BY <1>10, Zenon DEF SendU
  <2> QED BY <1>10, <2>1, Zenon DEF SendU, Sends, acked
<1>11. CASE SendS \/ SendI \/ BufferI
  BY <1>11, Zenon DEF SendS, SendI, BufferI, Sends, acked
<1>12. CASE T2Fires \/ T3Fires \/ Tick
  BY <1>12, Zenon DEF T2Fires, T3Fires, Tick, acked
<1>13. CASE UNCHANGED vars
  BY <1>13, Zenon DEF vars, acked
<1> QED
  BY <1>1, <1>2, <1>3, <1>4, <1>5, <1>6, <1>7, <1>8, <1>9, <1>10, <1>11,
     <1>12, <1>13
  DEF Next

\* The invariant of every behaviour.
LEMMA TypeInvariant == Spec => [](TypeInv /\ Flags)
<1>1. Init => Flags
  BY DEF Init, Flags
<1> QED BY <1>1, InitTypes, StepTypes, StepFlags, PTL DEF Spec

\* Type correctness, for every modulus, window, buffer and timeout.
THEOREM TypeCorrect == Spec => []TypeOK
<1>1. TypeInv /\ Flags => TypeOK
  BY DEF TypeInv, Ranges, Flags, TypeOK
<1> QED BY <1>1, TypeInvariant, PTL

-----------------------------------------------------------------------------
(* Acknowledgements.  What T2 must cover is its own inductive invariant:   *)
(* every way for T2 to go leaves nothing owed or the link not open.        *)

\* Every step keeps what is owed under T2.
LEMMA StepCovers ==
    TypeInv /\ T2CoversUnacknowledged /\ [Next]_vars => T2CoversUnacknowledged'
<1> SUFFICES ASSUME TypeInv, T2CoversUnacknowledged, [Next]_vars
             PROVE  T2CoversUnacknowledged'
  OBVIOUS
<1> USE DEF T2CoversUnacknowledged
<1>0. t2 \in {"none", "timer"}
  BY DEF TypeInv, Ranges
<1>1. CASE Wait
  BY <1>1 DEF Wait
<1>2. CASE Ignored \/ StartDT \/ StopDT
  BY <1>2 DEF Ignored, StartDT, StopDT, Runs
<1>3. CASE Truncated
  BY <1>3 DEF Truncated, Dies
<1>4. CASE PeerGone \/ SequenceError \/ T1Fires
  BY <1>4 DEF PeerGone, SequenceError, T1Fires, Disconnect
<1>5. ASSUME NEW type \in {"act", "con"}, TestFR(type)
      PROVE  T2CoversUnacknowledged'
  BY <1>5 DEF TestFR, Runs
<1>6. ASSUME NEW k \in Seqs, SFrame(k) PROVE T2CoversUnacknowledged'
  BY <1>6 DEF SFrame, Runs
<1>7. ASSUME NEW k \in Seqs, NEW n \in Replies, IFrame(k, n)
      PROVE  T2CoversUnacknowledged'
  <2>1. link' = "died" \/ StartT2
    BY <1>7 DEF IFrame, Answers
  <2> QED BY <1>0, <2>1 DEF StartT2
<1>8. ASSUME NEW n \in Replies, IFrameOfWrongLength(n)
      PROVE  T2CoversUnacknowledged'
  <2>1. link = "open" /\ owed' = owed
    BY <1>8 DEF IFrameOfWrongLength, Receives
  <2>2. link' = "died" \/ StartT2
    BY <1>8 DEF IFrameOfWrongLength, Answers
  <2> QED BY <1>0, <2>1, <2>2 DEF StartT2
<1>9. ASSUME NEW name \in {"STARTDT_con", "STOPDT_con", "TESTFR_con"},
             SendU(name)
      PROVE  T2CoversUnacknowledged'
  BY <1>9 DEF SendU, Sends
<1>10. CASE SendS \/ SendI \/ T2Fires
  BY <1>10 DEF SendS, SendI, T2Fires
<1>11. CASE BufferI
  BY <1>11 DEF BufferI, Sends
<1>13. CASE T3Fires \/ Tick
  BY <1>13 DEF T3Fires, Tick
<1>14. CASE UNCHANGED vars
  BY <1>14 DEF vars
<1> QED
  BY <1>1, <1>2, <1>3, <1>4, <1>5, <1>6, <1>7, <1>8, <1>9, <1>10, <1>11,
     <1>13, <1>14
  DEF Next

\* Whatever is taken and not acknowledged has T2 pending.
THEOREM Covered == Spec => []T2CoversUnacknowledged
<1>1. Init => T2CoversUnacknowledged
  BY DEF Init, T2CoversUnacknowledged
<1> QED BY <1>1, StepCovers, TypeInvariant, PTL DEF Spec

-----------------------------------------------------------------------------
(* Start and stop of data transfer.  allow_DT turns true one frame before  *)
(* STARTDT_con leaves and false two frames before STOPDT_con does; the     *)
(* frames in todo say how far that has come.                               *)

\* Data transfer is allowed and confirmed, or its confirmation is next; a
\* confirmed stop still to be sent means it is not allowed.
Phases ==
    /\ allow_DT => confirmed \/ (todo # <<>> /\ Head(todo).name = "STARTDT_con")
    /\ \A i \in DOMAIN todo : todo[i].name = "STOPDT_con" => ~allow_DT

\* Taking the first frame of todo keeps the second half of Phases.
LEMMA TailPhases ==
    ASSUME TypeInv, Phases, NEW name, Sends(name)
    PROVE  \A i \in DOMAIN todo' : todo'[i].name = "STOPDT_con" => ~allow_DT'
<1>1. todo \in Seq(Outputs) /\ todo # <<>> /\ todo' = Tail(todo)
  BY DEF Sends, TypeInv, Ranges
<1>2. allow_DT' = allow_DT
  BY DEF Sends
<1>3. \A i \in DOMAIN todo' : i + 1 \in DOMAIN todo /\ todo'[i] = todo[i + 1]
  BY <1>1
<1> QED BY <1>2, <1>3 DEF Phases

\* The first frame of todo, when something is sent.
LEMMA HeadPhases ==
    ASSUME TypeInv, Phases, NEW name, Sends(name)
    PROVE  name = "STOPDT_con" => ~allow_DT
<1>1. todo \in Seq(Outputs) /\ todo # <<>> /\ Head(todo).name = name
  BY DEF Sends, TypeInv, Ranges
<1>2. 1 \in DOMAIN todo /\ Head(todo) = todo[1]
  BY <1>1
<1> QED BY <1>1, <1>2 DEF Phases

\* A step that leaves todo and both flags alone keeps Phases.
LEMMA SamePhases ==
    ASSUME Phases, UNCHANGED <<todo, allow_DT, confirmed>>
    PROVE  Phases'
BY DEF Phases

\* A handler that answers with frames other than STOPDT_con keeps Phases.
LEMMA AnswerPhases ==
    ASSUME TypeInv, Phases, todo = <<>>, UNCHANGED <<allow_DT, confirmed>>,
           \A i \in DOMAIN todo' : todo'[i].name # "STOPDT_con"
    PROVE  Phases'
BY DEF Phases

\* Every step keeps Phases.
LEMMA StepPhases == TypeInv /\ Phases /\ [Next]_vars => Phases'
<1> SUFFICES ASSUME TypeInv, Phases, [Next]_vars PROVE Phases'
  OBVIOUS
<1>1. CASE Wait \/ T2Fires \/ T3Fires \/ Tick
  BY <1>1, SamePhases DEF Wait, T2Fires, T3Fires, Tick
<1>2. CASE Ignored
  BY <1>2, SamePhases DEF Ignored
<1>3. CASE Truncated
  BY <1>3, SamePhases DEF Truncated, Dies
<1>4. CASE PeerGone \/ SequenceError \/ T1Fires
  BY <1>4, SamePhases DEF PeerGone, SequenceError, T1Fires, Disconnect
<1>5. CASE StartDT
  <2> DEFINE resent == [b \in 1..buffered |-> [name |-> "I", buf |-> b]]
  <2>1. resent \in Seq(Outputs) /\ Len(resent) = buffered
    BY Constants DEF TypeInv, Ranges, Outputs
  <2>2. \A b \in 1..buffered : resent[b].name = "I"
    OBVIOUS
  <2>3. Out("STARTDT_con") \in Outputs /\ Out("STARTDT_con").name = "STARTDT_con"
    BY Constants DEF Out, Outputs
  <2>4. todo' = <<Out("STARTDT_con")>> \o resent
    BY <1>5 DEF StartDT
  <2> HIDE DEF resent
  <2>5. buffered \in Nat
    BY Constants DEF TypeInv, Ranges
  <2>6. todo' # <<>> /\ Head(todo') = Out("STARTDT_con")
    BY <2>1, <2>3, <2>4
  <2>7. \A i \in DOMAIN todo' :
           \/ todo'[i] = Out("STARTDT_con")
           \/ i - 1 \in 1..buffered /\ todo'[i] = resent[i - 1]
    BY <2>1, <2>3, <2>4, <2>5
  <2>8. \A i \in DOMAIN todo' : todo'[i].name # "STOPDT_con"
    BY <2>2, <2>3, <2>7
  <2> QED BY <2>3, <2>6, <2>8 DEF Phases
<1>6. CASE StopDT
  BY <1>6 DEF StopDT, Phases
<1>7. ASSUME NEW type \in {"act", "con"}, TestFR(type) PROVE Phases'
  <2>1. \A i \in DOMAIN todo' : todo'[i].name # "STOPDT_con"
    BY <1>7 DEF TestFR, Out
  <2> QED BY <1>7, <2>1, AnswerPhases DEF TestFR, Receives
<1>8. ASSUME NEW k \in Seqs, SFrame(k) PROVE Phases'
  BY <1>8, SamePhases DEF SFrame
<1>9. ASSUME NEW k \in Seqs, NEW n \in Replies, IFrame(k, n)
      PROVE  Phases'
  <2>1. \A i \in DOMAIN todo' : todo'[i].name # "STOPDT_con"
    BY <1>9 DEF IFrame, Answers, Receives, Replies, Out
  <2> QED BY <1>9, <2>1, AnswerPhases DEF IFrame, Receives
<1>10. ASSUME NEW n \in Replies, IFrameOfWrongLength(n) PROVE Phases'
  <2>1. \A i \in DOMAIN todo' : todo'[i].name # "STOPDT_con"
    BY <1>10 DEF IFrameOfWrongLength, Answers, Receives, Replies,
                Out
  <2> QED BY <1>10, <2>1, AnswerPhases DEF IFrameOfWrongLength, Receives
<1>11. ASSUME NEW name \in {"STARTDT_con", "STOPDT_con", "TESTFR_con"},
              SendU(name)
       PROVE  Phases'
  <2>1. Sends(name) /\ allow_DT' = allow_DT /\ Head(todo).name = name
    BY <1>11 DEF SendU, Sends
  <2>2. CASE name = "STARTDT_con"
    BY <1>11, <2>1, <2>2, TailPhases DEF SendU, Phases
  <2>3. CASE name = "STOPDT_con"
    BY <2>1, <2>3, HeadPhases, TailPhases DEF Phases
  <2>4. CASE name = "TESTFR_con"
    BY <1>11, <2>1, <2>4, TailPhases DEF SendU, Phases
  <2> QED BY <2>2, <2>3, <2>4
<1>12. CASE SendS
  <2>1. Sends("S") /\ UNCHANGED <<allow_DT, confirmed>> /\ Head(todo).name = "S"
    BY <1>12 DEF SendS, Sends
  <2> QED BY <2>1, TailPhases DEF Phases
<1>13. CASE SendI \/ BufferI
  <2>1. Sends("I") /\ UNCHANGED <<allow_DT, confirmed>> /\ Head(todo).name = "I"
    BY <1>13 DEF SendI, BufferI, Sends
  <2> QED BY <2>1, TailPhases DEF Phases
<1>14. CASE UNCHANGED vars
  BY <1>14, SamePhases DEF vars
<1> QED
  BY <1>1, <1>2, <1>3, <1>4, <1>5, <1>6, <1>7, <1>8, <1>9, <1>10, <1>11,
     <1>12, <1>13, <1>14
  DEF Next

\* Only SendI puts an I-frame on the wire.
LEMMA OnlySendI == TypeInv /\ [Next]_vars => SendI \/ sentN' = sentN
<1> SUFFICES ASSUME [Next]_vars PROVE SendI \/ sentN' = sentN
  OBVIOUS
<1>1. CASE Next
  BY <1>1
  DEF Next, Wait, Ignored, Truncated, Dies, PeerGone, Disconnect, StartDT,
      StopDT, TestFR, SFrame, IFrame, IFrameOfWrongLength, SequenceError,
      SendU, SendS, BufferI, T1Fires, T2Fires, T3Fires, Tick
<1>2. CASE UNCHANGED vars
  BY <1>2 DEF vars
<1> QED BY <1>1, <1>2

\* No I-frame leaves before a STARTDT_con or after a STOPDT_con.
THEOREM OnlyStarted == Spec => DataOnlyStarted
<1>1. Init => Phases
  BY DEF Init, Phases
<1>2. Spec => [](TypeInv /\ Phases)
  BY <1>1, StepPhases, TypeInvariant, PTL DEF Spec
<1>3. TypeInv /\ Phases /\ [Next]_vars => [sentN' > sentN => confirmed]_vars
  <2> SUFFICES ASSUME TypeInv, Phases, [Next]_vars, sentN' > sentN
               PROVE  confirmed
    OBVIOUS
  <2>1. SendI
    BY OnlySendI DEF TypeInv, Ranges
  <2>2. allow_DT /\ Head(todo).name = "I"
    BY <2>1 DEF SendI, MaySend, Sends
  <2> QED BY <2>2 DEF Phases
<1> QED BY <1>2, <1>3, PTL DEF Spec, DataOnlyStarted

-----------------------------------------------------------------------------
(* The silent peer.  A test frame is younger than T3's last start, so with *)
(* T1 < T3 it is answered or has closed the link before T3 is due again.   *)

\* The test frames under T1.
Tests == sentmsgs \ Untested

\* How T3, the peer's silence and the test frame under T1 are related.
Clocks ==
    /\ ~waiting => silence = 0
    /\ \A e \in Tests : /\ t3left >= T3 - T1 + e.left
                        /\ silence <= T3 + T1 - e.left
                        /\ e.buf = 0
    /\ Tests = {} => silence <= T3 - t3left
    /\ \A e, f \in Tests : e = f

\* Test frames are the entries of that kind, typed like the others.
LEMMA TestsKind ==
    ASSUME TypeInv
    PROVE  /\ Tests = {e \in sentmsgs : e.kind = "TESTFR_act"}
           /\ \A e \in Tests : e \in Timed /\ e.left \in 0..T1
           /\ t3left \in 0..T3 /\ silence \in Nat
BY DEF Tests, Untested, TypeInv, Ranges, Timed

\* A step that leaves the test frames and T3 alone, and may have heard the
\* peer, keeps the clocks.
LEMMA KeepClocks ==
    ASSUME TypeInv, Clocks, Tests' = Tests, t3left' = t3left,
           silence' = silence \/ silence' = 0, ~waiting' => silence' = 0
    PROVE  Clocks'
<1>1. \A e \in Tests : e.left \in 0..T1
  BY TestsKind
<1>2. t3left \in 0..T3 /\ silence \in Nat
  BY TestsKind
<1> QED BY <1>1, <1>2, Constants DEF Clocks

\* A step that changes only other variables keeps the clocks.
LEMMA SameClocks ==
    ASSUME TypeInv, Clocks, UNCHANGED <<sentmsgs, t3left, silence, waiting>>
    PROVE  Clocks'
BY KeepClocks DEF Clocks, Tests, Untested

\* A frame of the peer that leaves sentmsgs alone keeps the clocks.
LEMMA HeardClocks ==
    ASSUME TypeInv, Clocks, silence' = 0, UNCHANGED <<sentmsgs, t3left>>
    PROVE  Clocks'
BY KeepClocks DEF Tests, Untested

\* Every step keeps the clocks.
LEMMA StepClocks == T1 < T3 => (TypeInv /\ Clocks /\ [Next]_vars => Clocks')
<1> SUFFICES ASSUME T1 < T3, TypeInv, Clocks, [Next]_vars PROVE Clocks'
  OBVIOUS
<1>0. /\ Tests = {e \in sentmsgs : e.kind = "TESTFR_act"}
      /\ \A e \in Tests : e \in Timed /\ e.left \in 0..T1
      /\ t3left \in 0..T3 /\ silence \in Nat
  BY TestsKind
<1>00. Tests' = {e \in sentmsgs' : e.kind = "TESTFR_act"}
  BY DEF Tests, Untested
<1>1. CASE Wait
  <2>1. Tests' = Tests /\ t3left' = T3 /\ silence = 0 /\ silence' = 0
    BY <1>1 DEF Wait, Clocks, Tests, Untested, peer
  <2> QED BY <1>0, <2>1, Constants DEF Clocks
<1>2. CASE Ignored \/ StartDT \/ StopDT
  BY <1>2, HeardClocks DEF Ignored, StartDT, StopDT, Receives, Runs
<1>3. CASE Truncated \/ SequenceError
  BY <1>3, HeardClocks DEF Truncated, SequenceError, Receives, Dies, Disconnect
<1>4. CASE PeerGone \/ T1Fires
  BY <1>4, SameClocks DEF PeerGone, T1Fires, Disconnect, peer
<1>5. ASSUME NEW type \in {"act", "con"}, TestFR(type) PROVE Clocks'
  <2>1. Tests' = {} /\ silence' = 0 /\ t3left' = t3left
    BY <1>5, <1>00 DEF TestFR, Untested, Receives, Runs
  <2> QED BY <1>0, <2>1, Constants DEF Clocks
<1>6. ASSUME NEW k, sentmsgs' = Unacknowledged(k) PROVE Tests' = Tests
  BY <1>0, <1>00, <1>6 DEF Unacknowledged
<1>7. ASSUME NEW k \in Seqs, SFrame(k) PROVE Clocks'
  BY <1>6, <1>7, KeepClocks DEF SFrame, Receives, Runs
<1>8. ASSUME NEW k \in Seqs, NEW n \in Replies, IFrame(k, n)
      PROVE  Clocks'
  BY <1>6, <1>8, KeepClocks DEF IFrame, Receives
<1>9. ASSUME NEW n \in Replies, IFrameOfWrongLength(n) PROVE Clocks'
  BY <1>9, HeardClocks DEF IFrameOfWrongLength, Receives
<1>10. ASSUME NEW name \in {"STARTDT_con", "STOPDT_con", "TESTFR_con"},
              SendU(name)
       PROVE  Clocks'
  BY <1>10, SameClocks DEF SendU, Sends, peer
<1>11. CASE SendS \/ BufferI
  BY <1>11, SameClocks DEF SendS, BufferI, Sends, peer
<1>12. CASE SendI
  <2> DEFINE b == Head(todo).buf
             new == [kind |-> "I", num |-> sentN, seq |-> ssn, buf |-> b,
                     left |-> T1]
             G(e) == IF b # 0 /\ e.buf = b THEN [e EXCEPT !.seq = ssn] ELSE e
  <2>1. sentmsgs' = {G(e) : e \in sentmsgs} \cup {new}
    BY <1>12 DEF SendI, Renumbered
  <2>2. \A e \in sentmsgs : e \in Timed
    BY DEF TypeInv, Ranges
  <2>3. \A e \in sentmsgs : G(e).kind = e.kind
    BY <2>2 DEF Timed
  <2>4. \A e \in Tests : G(e) = e
    BY DEF Clocks
  <2>5. new.kind # "TESTFR_act"
    OBVIOUS
  <2> HIDE DEF G, new
  <2>6. Tests' = Tests
    BY <1>0, <1>00, <2>1, <2>3, <2>4, <2>5
  <2>7. UNCHANGED <<t3left, silence, waiting>>
    BY <1>12 DEF SendI, Sends, peer
  <2> QED BY <2>6, <2>7, KeepClocks DEF Clocks
<1>13. CASE T2Fires
  BY <1>13, SameClocks DEF T2Fires, peer
<1>14. CASE T3Fires
  <2> DEFINE new == [kind |-> "TESTFR_act", num |-> 0, seq |-> 0, buf |-> 0,
                     left |-> T1]
  <2>1. t3left = 0
    BY <1>14 DEF T3Fires
  <2>2. Tests = {}
    BY <1>0, <2>1, Constants DEF Clocks
  <2>3. Tests' = {new}
    BY <1>0, <1>00, <1>14, <2>2 DEF T3Fires, UnderT1
  <2>4. t3left' = T3 /\ silence' = silence /\ waiting' = waiting
    BY <1>14 DEF T3Fires, T3Start, peer
  <2>5. silence <= T3
    BY <1>0, <2>1, <2>2, Constants DEF Clocks
  <2>6. new.left = T1 /\ new.buf = 0
    OBVIOUS
  <2> HIDE DEF new
  <2>7. \A e \in Tests' : /\ t3left' >= T3 - T1 + e.left
                         /\ silence' <= T3 + T1 - e.left
                         /\ e.buf = 0
    BY <1>0, <2>3, <2>4, <2>5, <2>6, Constants
  <2>8. ~waiting' => silence' = 0
    BY <2>4 DEF Clocks
  <2> QED BY <2>3, <2>7, <2>8 DEF Clocks
<1>15. CASE Tick
  <2> DEFINE D(e) == [e EXCEPT !.left = @ - 1]
  <2>1. /\ sentmsgs' = {D(e) : e \in sentmsgs}
        /\ t3left' = t3left - 1 /\ silence' = silence + 1 /\ waiting'
    BY <1>15 DEF Tick
  <2>2. \A e \in sentmsgs : /\ D(e).kind = e.kind /\ D(e).left = e.left - 1
                           /\ D(e).buf = e.buf
    BY DEF TypeInv, Ranges, Timed
  <2> HIDE DEF D
  <2>3. Tests' = {D(e) : e \in Tests}
    BY <1>0, <1>00, <2>1, <2>2
  <2>4. \A e \in Tests : e \in sentmsgs
    BY DEF Tests
  <2>5. \A f \in Tests' : /\ t3left' >= T3 - T1 + f.left
                         /\ silence' <= T3 + T1 - f.left
                         /\ f.buf = 0
    <3> SUFFICES ASSUME NEW e \in Tests
                 PROVE  /\ t3left' >= T3 - T1 + D(e).left
                        /\ silence' <= T3 + T1 - D(e).left
                        /\ D(e).buf = 0
      BY <2>3
    <3> QED BY <1>0, <2>1, <2>2, <2>4, Constants DEF Clocks
  <2>6. Tests' = {} => silence' <= T3 - t3left'
    BY <1>0, <2>1, <2>3, Constants DEF Clocks
  <2>7. \A f, g \in Tests' : f = g
    BY <2>3 DEF Clocks
  <2> QED BY <2>1, <2>5, <2>6, <2>7 DEF Clocks
<1>16. CASE UNCHANGED vars
  BY <1>16, SameClocks DEF vars, peer
<1> QED
  BY <1>1, <1>2, <1>3, <1>4, <1>5, <1>7, <1>8, <1>9, <1>10, <1>11, <1>12,
     <1>13, <1>14, <1>15, <1>16
  DEF Next

\* The clocks are related so in every state.
LEMMA ClocksInvariant == T1 < T3 => (Spec => [](TypeInv /\ Clocks))
<1> SUFFICES ASSUME T1 < T3 PROVE Spec => [](TypeInv /\ Clocks)
  OBVIOUS
<1>1. Init => Clocks
  BY Constants DEF Init, Clocks, Tests, Untested
<1>2. TypeInv /\ Clocks /\ [Next]_vars => Clocks'
  BY StepClocks
<1> QED BY <1>1, <1>2, TypeInvariant, PTL DEF Spec

\* With T1 below T3, as every template has it, there is never a second test
\* frame to answer.
THEOREM OneTest == T1 < T3 => (Spec => []OneTestOutstanding)
<1> SUFFICES ASSUME T1 < T3 PROVE Spec => []OneTestOutstanding
  OBVIOUS
<1>1. Clocks => OneTestOutstanding
  BY DEF Clocks, Tests, OneTestOutstanding
<1> QED BY <1>1, ClocksInvariant, PTL

\* With T1 below T3, a peer that says nothing for T3 + T1 is disconnected.
THEOREM SilentDropped == T1 < T3 => (Spec => []SilentPeerDropped)
<1> SUFFICES ASSUME T1 < T3 PROVE Spec => []SilentPeerDropped
  OBVIOUS
<1>1. TypeInv /\ Clocks => SilentPeerDropped
  <2> SUFFICES ASSUME TypeInv, Clocks PROVE silence <= T3 + T1
    BY DEF SilentPeerDropped
  <2>1. /\ \A e \in Tests : e.left \in 0..T1
        /\ t3left \in 0..T3 /\ silence \in Nat
    BY TestsKind
  <2>2. CASE Tests = {}
    BY <2>1, <2>2, Constants DEF Clocks
  <2>3. CASE Tests # {}
    BY <2>1, <2>3, Constants DEF Clocks
  <2> QED BY <2>2, <2>3
<1> QED BY <1>1, ClocksInvariant, PTL


-----------------------------------------------------------------------------
(* The arithmetic of numbers that wrap at M, which the solver has to be    *)
(* told because M is not a numeral.                                        *)

\* A multiple of M below the one after another is not above the other.
LEMMA BelowNextMultiple == ASSUME NEW a \in Int, NEW b \in Int, a * M < b * M + M PROVE a <= b
<1> SUFFICES ASSUME b + 1 <= a PROVE FALSE
  OBVIOUS
<1>0. M \in Int /\ M > 0
  BY Constants
<1>1. \A m, d \in Nat : d * m >= 0
  OBVIOUS
<1>2. (a - (b + 1)) * M >= 0
  BY <1>1, Constants
<1>3. (a - (b + 1)) * M = a * M - (b * M + M)
  BY <1>0
<1>4. a * M \in Int /\ b * M \in Int
  BY <1>0
<1> QED
  BY <1>0, <1>2, <1>3, <1>4

\* Division by M leaves a number of Seqs ...
LEMMA Division == \A a \in Int :
     /\ a \div M \in Int /\ (a % M) \in Seqs /\ (a \div M) * M \in Int
     /\ a = (a \div M) * M + (a % M)
<1> SUFFICES ASSUME NEW a \in Int
    PROVE /\ a \div M \in Int /\ (a % M) \in Seqs /\ (a \div M) * M \in Int
          /\ a = (a \div M) * M + (a % M)
   OBVIOUS
<1>1. M \in Int /\ M > 0
  BY Constants
<1>2. a \div M \in Int /\ (a % M) \in Seqs
  BY <1>1 DEF Seqs
<1>3. (a \div M) * M \in Int
  BY <1>1, <1>2
<1>4. (a % M) = a - M * (a \div M)
  BY <1>1
<1>5. (a \div M) * M = M * (a \div M)
  BY <1>1, <1>2
<1> DEFINE x == (a \div M) * M
           r == (a % M)
<1>6. x \in Int /\ r \in Int /\ r = a - x
  BY <1>1, <1>2, <1>3, <1>4, <1>5 DEF Seqs
<1> HIDE DEF x, r
<1>7. a = x + r
  BY <1>6
<1> QED
  BY <1>2, <1>3, <1>7 DEF x, r

\* ... and does so in one way only.
LEMMA DivisionUnique == ASSUME NEW q \in Int, NEW r \in Seqs
  PROVE (q * M + r) \div M = q /\ (q * M + r) % M = r
<1> DEFINE a == q * M + r
           p == a \div M
           t == (a % M)
<1>1. a \in Int /\ M \in Int /\ M > 0 /\ q * M \in Int /\ r \in Int /\ 0 <= r /\ r < M
  <2>1. M \in Int /\ M > 0 /\ r \in Int /\ 0 <= r /\ r < M
    BY Constants DEF Seqs
  <2>2. q * M \in Int
    BY <2>1
  <2> QED
    BY <2>1, <2>2
<1>2. p \in Int /\ t \in Seqs /\ p * M \in Int /\ a = p * M + t
  BY <1>1, Division
<1> HIDE DEF p, t
<1>4. t \in Int /\ 0 <= t /\ t < M
  BY <1>1, <1>2 DEF Seqs
<1>5. p * M < q * M + M /\ q * M < p * M + M
  <2> DEFINE x == p * M
             y == q * M
  <2>1. x \in Int /\ y \in Int /\ y + r = x + t
    BY <1>1, <1>2
  <2> HIDE DEF x, y
  <2>2. x < y + M /\ y < x + M
    BY <2>1, <1>1, <1>4
  <2> QED
    BY <2>2 DEF x, y
<1>6. p = q
  BY <1>1, <1>2, <1>5, BelowNextMultiple
<1> QED
  BY <1>1, <1>2, <1>4, <1>6 DEF p, t

\* Counting wraps as Increment does, and never goes back a round.
LEMMA NextRemainder == ASSUME NEW n \in Nat
  PROVE /\ (n + 1) % M = IF (n % M) < M - 1 THEN (n % M) + 1 ELSE 0
        /\ n \div M <= (n + 1) \div M
<1> DEFINE q == n \div M
           r == (n % M)
<1>1. q \in Int /\ r \in Seqs /\ q * M \in Int /\ n = q * M + r
  BY Division
<1>2. M \in Int /\ M > 0 /\ r \in Int /\ 0 <= r /\ r < M
  BY <1>1, Constants DEF Seqs
<1> HIDE DEF q, r
<1>3. CASE r < M - 1
  <2>1. r + 1 \in Seqs
    BY <1>2, <1>3 DEF Seqs
  <2>2. n + 1 = q * M + (r + 1)
    BY <1>1, <1>2
  <2>3. (n + 1) \div M = q /\ (n + 1) % M = r + 1
    BY <1>1, <2>1, <2>2, DivisionUnique
  <2> QED
    BY <1>1, <1>3, <2>3 DEF q, r
<1>4. CASE ~(r < M - 1)
  <2>1. 0 \in Seqs
    BY <1>2 DEF Seqs
  <2>2. n + 1 = (q + 1) * M + 0
    <3>1. (q + 1) * M = q * M + M
      BY <1>1, <1>2
    <3> QED
      BY <1>1, <1>2, <1>4, <3>1
  <2>3. (n + 1) \div M = q + 1 /\ (n + 1) % M = 0
    BY <1>1, <2>1, <2>2, DivisionUnique
  <2> QED
    BY <1>1, <1>4, <2>3 DEF q, r
<1> QED
  BY <1>3, <1>4

\* Let a number of s's round or a later one be below the last number up to s
\* that is k modulo M: its remainder is below k, and k is at most s's own.
LEMMA AcknowledgedRemainder ==
  ASSUME NEW s \in Nat, NEW k \in Seqs, NEW e \in Nat,
         s \div M <= e \div M, e < s - ((s - k) % M)
  PROVE  k <= (s % M) /\ (e % M) < k
<1> DEFINE d == (s - k) % M
           p == (s - k) \div M
           Q == s \div M
           E == e \div M
           r == (s % M)
           f == (e % M)
<1>1. M \in Int /\ M > 0 /\ k \in Int /\ 0 <= k /\ k < M /\ s \in Int /\ e \in Int
  BY Constants DEF Seqs
<1>2. /\ p \in Int /\ d \in Seqs /\ p * M \in Int /\ s - k = p * M + d
  <2>1. s - k \in Int
    BY <1>1
  <2> QED
    BY <2>1, Division
<1>3. Q \in Int /\ r \in Seqs /\ Q * M \in Int /\ s = Q * M + r
  BY <1>1, Division
<1>4. E \in Int /\ f \in Seqs /\ E * M \in Int /\ e = E * M + f
  BY <1>1, Division
<1>5. Q <= E /\ e < s - d
  OBVIOUS
<1> HIDE DEF d, p, Q, E, r, f
<1>6. /\ d \in Int /\ 0 <= d /\ d < M
      /\ r \in Int /\ 0 <= r /\ r < M
      /\ f \in Int /\ 0 <= f /\ f < M
  BY <1>2, <1>3, <1>4, Constants DEF Seqs
<1>7. s - d = p * M + k
  BY <1>1, <1>2, <1>6
<1>8. p <= Q /\ E <= p
  <2> DEFINE x == p * M
             y == Q * M
             z == E * M
  <2>1. x \in Int /\ y \in Int /\ z \in Int /\ s = y + r /\ s - d = x + k /\ e = z + f
        /\ e < s - d
    BY <1>2, <1>3, <1>4, <1>5, <1>7
  <2> HIDE DEF x, y, z
  <2>2. x < y + M /\ z < x + M
    BY <1>1, <1>6, <2>1
  <2>3. p * M < Q * M + M /\ E * M < p * M + M
    BY <2>2 DEF x, y, z
  <2> QED
    BY <1>2, <1>3, <1>4, <2>3, BelowNextMultiple
<1>9. p = Q /\ E = Q
  BY <1>2, <1>3, <1>4, <1>5, <1>8
<1>10. k <= r /\ f < k
  <2> DEFINE y == Q * M
  <2>1. y \in Int /\ s = y + r /\ s - d = y + k /\ e = y + f /\ e < s - d
    BY <1>3, <1>4, <1>5, <1>7, <1>9
  <2> HIDE DEF y
  <2> QED
    BY <1>1, <1>6, <2>1
<1> QED
  BY <1>10 DEF r, f

\* Before the first wrap a number is its own remainder.
LEMMA FirstRound ==
  ASSUME NEW s \in Nat, s < M, NEW k \in Seqs
  PROVE  /\ (s % M) = s
         /\ (s - k) % M = IF k <= s THEN s - k ELSE s - k + M
<1>1. M \in Int /\ M > 0 /\ k \in Int /\ 0 <= k /\ k < M /\ s \in Int
  BY Constants DEF Seqs
<1>2. \A r \in Seqs : r \in Int /\ r = 0 * M + r /\ r - M = (-1) * M + r
  BY Constants DEF Seqs
<1>3. s \in Seqs
  BY <1>1 DEF Seqs
<1>4. CASE k <= s
  <2>1. s - k \in Seqs
    BY <1>1, <1>4 DEF Seqs
  <2>2. (0 * M + (s - k)) % M = s - k /\ (0 * M + s) % M = s
    BY <1>3, <2>1, DivisionUnique
  <2> QED
    BY <1>2, <1>3, <1>4, <2>1, <2>2
<1>5. CASE ~(k <= s)
  <2> DEFINE q == 0 - 1
  <2>1. s - k + M \in Seqs
    BY <1>1, <1>5 DEF Seqs
  <2>2. q \in Int /\ q * M = 0 - M
    BY <1>1
  <2> HIDE DEF q
  <2>4. s - k = q * M + (s - k + M)
    BY <1>1, <2>2
  <2> DEFINE r == s - k + M
  <2>5. r \in Seqs
    BY <2>1
  <2> HIDE DEF r
  <2>6. (q * M + r) % M = r
    BY <2>2, <2>5, DivisionUnique
  <2>3. (q * M + (s - k + M)) % M = s - k + M
    BY <2>6 DEF r
  <2>7. (0 * M + s) % M = s
    BY <1>3, DivisionUnique
  <2> QED
    BY <1>2, <1>3, <1>5, <2>3, <2>4, <2>7
<1> QED
  BY <1>4, <1>5

\* Of two numbers with one remainder the smaller is of an earlier round.
LEMMA SameRemainder ==
  ASSUME NEW a \in Nat, NEW b \in Nat, a < b, a % M = b % M
  PROVE  a \div M < b \div M
<1> DEFINE A == a \div M
           B == b \div M
           r == (b % M)
<1>1. A \in Int /\ B \in Int /\ r \in Seqs /\ A * M \in Int /\ B * M \in Int
      /\ a = A * M + r /\ b = B * M + r
  BY Division
<1>2. M \in Int /\ M > 0 /\ r \in Int
  BY <1>1, Constants DEF Seqs
<1> HIDE DEF A, B, r
<1>3. A * M < B * M
  <2> DEFINE x == A * M
             y == B * M
  <2>1. x \in Int /\ y \in Int /\ a = x + r /\ b = y + r
    BY <1>1
  <2> HIDE DEF x, y
  <2>2. x < y
    BY <1>2, <2>1
  <2> QED
    BY <2>2 DEF x, y
<1>4. A <= B
  <2>1. A * M < B * M + M
    <3> DEFINE x == A * M
               y == B * M
    <3>1. x \in Int /\ y \in Int /\ x < y
      BY <1>1, <1>3
    <3> HIDE DEF x, y
    <3>2. x < y + M
      BY <1>2, <3>1
    <3> QED
      BY <3>2 DEF x, y
  <2> QED
    BY <1>1, <2>1, BelowNextMultiple
<1>5. A # B
  BY <1>1
<1>6. A < B
  BY <1>1, <1>4, <1>5
<1> QED
  BY <1>6 DEF A, B

-----------------------------------------------------------------------------
(* What T1 supervises.                                                     *)

\* The property, with what it rests on: no frame is acknowledged or under T1
\* before it was sent, and until the first wrap an entry's number never falls
\* below the one it was first sent with.
Numbered ==
    /\ ssn = sentN % M
    /\ peerAck <= sentN
    /\ \A e \in sentmsgs : e.kind = "I" =>
          /\ e.num < sentN
          /\ sentN < M => e.num <= e.seq
          /\ e.num < peerAck => e.seq # e.num % M \/ e.num \div M < sentN \div M
    /\ sentN < M /\ ~lied =>
          \A n \in peerAck..(sentN - 1) : \E e \in sentmsgs : e.kind = "I" /\ e.num = n

Supervised == link = "open" => Numbered

\* The entries of sentmsgs and the counters are typed.
LEMMA NumbersTyped ==
  ASSUME TypeInv
  PROVE  /\ M \in Int /\ M > 0 /\ sentN \in Nat /\ peerAck \in Nat /\ ssn \in Seqs
         /\ \A e \in sentmsgs : e \in Timed /\ e.num \in Nat /\ e.seq \in Seqs /\ e.seq \in Nat
  BY Constants DEF TypeInv, Ranges, Timed, Seqs

\* A step that leaves the numbers of the I-frames under T1 alone.
LEMMA SameNumbers ==
  ASSUME Numbered, UNCHANGED <<ssn, sentN, peerAck, lied>>,
         \A e \in sentmsgs' : e.kind = "I" =>
             \E f \in sentmsgs : f.kind = "I" /\ f.num = e.num /\ f.seq = e.seq,
         \A f \in sentmsgs : f.kind = "I" =>
             \E e \in sentmsgs' : e.kind = "I" /\ e.num = f.num
  PROVE  Numbered'
<1>1. ssn' = sentN' % M /\ peerAck' <= sentN'
  BY DEF Numbered
<1>2. ASSUME NEW e \in sentmsgs', e.kind = "I"
      PROVE  /\ e.num < sentN'
             /\ sentN' < M => e.num <= e.seq
             /\ e.num < peerAck' => e.seq # e.num % M \/ e.num \div M < sentN' \div M
  <2>1. PICK f \in sentmsgs : f.kind = "I" /\ f.num = e.num /\ f.seq = e.seq
    BY <1>2
  <2> QED
    BY <2>1 DEF Numbered
<1>3. ASSUME sentN' < M, ~lied', NEW n \in peerAck'..(sentN' - 1)
      PROVE  \E e \in sentmsgs' : e.kind = "I" /\ e.num = n
  <2>1. PICK f \in sentmsgs : f.kind = "I" /\ f.num = n
    BY <1>3 DEF Numbered
  <2> QED
    BY <2>1
<1> QED
  BY <1>1, <1>2, <1>3 DEF Numbered

\* The peer acknowledges the numbers below k, and the entries below a go: k
\* itself, or what was acknowledged before when k is not one that was sent.
LEMMA AcknowledgedNumbers ==
  ASSUME TypeInv, Numbered, NEW k \in Seqs, NEW a, Acknowledges(k), k <= ssn => a = k,
         sentmsgs' = Unacknowledged(a), UNCHANGED <<ssn, sentN>>
  PROVE  Numbered'
<1> DEFINE d == (sentN - k) % M
           n == sentN - d
<1>1. /\ M \in Int /\ M > 0 /\ sentN \in Nat /\ peerAck \in Nat /\ ssn \in Seqs
      /\ \A e \in sentmsgs : e \in Timed /\ e.num \in Nat /\ e.seq \in Seqs /\ e.seq \in Nat
      /\ k \in Nat /\ k < M
  BY NumbersTyped, Constants DEF Seqs
<1>2. d \in Nat
  <2>1. sentN - k \in Int
    BY <1>1
  <2>2. d \in Seqs
    BY <2>1, Division
  <2> QED
    BY <2>2, Constants DEF Seqs
<1>3. peerAck' = IF n > peerAck THEN n ELSE peerAck
  BY DEF Acknowledges
<1>4. ssn = sentN % M /\ peerAck <= sentN
  BY DEF Numbered
<1>5. sentmsgs' = {e \in sentmsgs : e.kind # "I" \/ e.seq >= a}
  BY DEF Unacknowledged
<1>6. ssn' = sentN' % M /\ peerAck' <= sentN'
  <2> HIDE DEF d
  <2> QED
    BY <1>1, <1>2, <1>3, <1>4
<1>7. ASSUME NEW e \in sentmsgs', e.kind = "I"
      PROVE  /\ e.num < sentN
             /\ sentN < M => e.num <= e.seq
             /\ e.num < peerAck' => e.seq # e.num % M \/ e.num \div M < sentN \div M
  <2>1. e \in sentmsgs /\ e.seq >= a
    BY <1>5, <1>7
  <2>2. /\ e.num < sentN
        /\ sentN < M => e.num <= e.seq
        /\ e.num < peerAck => e.seq # e.num % M \/ e.num \div M < sentN \div M
    BY <1>7, <2>1 DEF Numbered
  <2>3. ASSUME e.num < n, ~(e.num < peerAck), e.seq = e.num % M,
               ~(e.num \div M < sentN \div M)
        PROVE  FALSE
    <3>1. e.num \in Nat /\ e.seq \in Nat
      BY <1>1, <2>1
    <3>2. e.num \div M \in Int /\ sentN \div M \in Int
      BY <1>1, <3>1, Division
    <3>3. sentN \div M <= e.num \div M
      BY <2>3, <3>2
    <3>4. k <= sentN % M /\ e.num % M < k
      BY <1>1, <2>3, <3>1, <3>3, AcknowledgedRemainder
    <3>5. a = k
      BY <1>4, <3>4
    <3> QED
      BY <1>1, <2>1, <2>3, <3>1, <3>4, <3>5
  <2> HIDE DEF n
  <2>4. e.num < peerAck' => e.num < n \/ e.num < peerAck
    BY <1>3
  <2> QED
    BY <2>2, <2>3, <2>4
<1>8. ASSUME sentN < M, ~lied', NEW i \in peerAck'..(sentN - 1)
      PROVE  \E e \in sentmsgs' : e.kind = "I" /\ e.num = i
  <2>1. ~lied /\ ~(n < 0)
    BY <1>8 DEF Acknowledges
  <2>2. sentN % M = sentN /\ d = IF k <= sentN THEN sentN - k ELSE sentN - k + M
    BY <1>1, <1>8, FirstRound
  <2>3. k <= sentN /\ n = k
    <3> HIDE DEF d
    <3> QED
      BY <1>1, <1>2, <2>1, <2>2
  <2>4. a = k
    BY <1>4, <2>2, <2>3
  <2>5. k <= peerAck' /\ peerAck <= peerAck' /\ peerAck' \in Nat
    <3> HIDE DEF n
    <3> QED
      BY <1>1, <1>3, <2>3
  <2>6. i \in peerAck..(sentN - 1) /\ i \in Int /\ k <= i
    BY <1>1, <2>5
  <2>7. PICK e \in sentmsgs : e.kind = "I" /\ e.num = i
    BY <1>8, <2>1, <2>6 DEF Numbered
  <2>8. e.num <= e.seq /\ e.seq \in Nat
    BY <1>1, <1>8, <2>7 DEF Numbered
  <2>9. e.seq >= a
    BY <1>1, <2>4, <2>6, <2>7, <2>8
  <2> QED
    BY <1>5, <2>7, <2>9
<1> HIDE DEF n, d
<1> QED
  BY <1>6, <1>7, <1>8 DEF Numbered

\* A frame that is sent, or sent again out of send_buffer, gets the number
\* that is next.
LEMMA SentNumbers ==
  ASSUME TypeInv, Numbered, SendI
  PROVE  Numbered'
<1> DEFINE b   == Head(todo).buf
           new == [kind |-> "I", num |-> sentN, seq |-> ssn, buf |-> b, left |-> T1]
<1>1. /\ M \in Int /\ M > 0 /\ sentN \in Nat /\ peerAck \in Nat /\ ssn \in Seqs
      /\ \A e \in sentmsgs : e \in Timed /\ e.num \in Nat /\ e.seq \in Seqs /\ e.seq \in Nat
  BY NumbersTyped
<1>2. /\ sentmsgs' = Renumbered(b) \cup {new}
      /\ ssn' = Increment(ssn) /\ sentN' = sentN + 1
      /\ peerAck' = peerAck /\ lied' = lied
  BY DEF SendI, Sends, acked
<1>3. ssn = sentN % M /\ peerAck <= sentN
  BY DEF Numbered
<1>4. new.kind = "I" /\ new.num = sentN /\ new.seq = ssn
  OBVIOUS
<1> HIDE DEF new
<1>5. /\ (sentN + 1) % M = IF ssn < M - 1 THEN ssn + 1 ELSE 0
      /\ sentN \div M <= (sentN + 1) \div M
  BY <1>1, <1>3, NextRemainder
<1>6. ssn' = sentN' % M /\ peerAck' <= sentN'
  BY <1>1, <1>2, <1>3, <1>5 DEF Increment
<1>7. ASSUME NEW e \in Renumbered(b)
      PROVE  \E f \in sentmsgs :
                /\ e.kind = f.kind /\ e.num = f.num
                /\ e.seq = f.seq \/ e.seq = ssn
  <2>1. PICK f \in sentmsgs : e = IF b # 0 /\ f.buf = b THEN [f EXCEPT !.seq = ssn] ELSE f
    BY DEF Renumbered
  <2>2. f \in Timed
    BY <1>1
  <2> QED
    BY <2>1, <2>2 DEF Timed
<1>8. ASSUME NEW f \in sentmsgs
      PROVE  \E e \in Renumbered(b) : e.kind = f.kind /\ e.num = f.num
  <2> DEFINE e == IF b # 0 /\ f.buf = b THEN [f EXCEPT !.seq = ssn] ELSE f
  <2>1. e \in Renumbered(b)
    BY DEF Renumbered
  <2>2. e.kind = f.kind /\ e.num = f.num
    BY <1>1 DEF Timed
  <2> HIDE DEF e
  <2> QED
    BY <2>1, <2>2
<1> HIDE DEF b
<1>9. sentN' \div M \in Int /\ sentN \div M \in Int /\ sentN \div M <= sentN' \div M
  <2>1. sentN + 1 \in Int /\ sentN \in Int
    BY <1>1
  <2> QED
    BY <1>2, <1>5, <2>1, Division
<1>10. ASSUME NEW e \in sentmsgs', e.kind = "I"
       PROVE  /\ e.num < sentN'
              /\ sentN' < M => e.num <= e.seq
              /\ e.num < peerAck' => e.seq # e.num % M \/ e.num \div M < sentN' \div M
  <2>1. CASE e = new
    <3>1. sentN < M => ssn = sentN
      <4>1. 0 \in Seqs
        BY Constants DEF Seqs
      <4> QED
        BY <1>1, <1>3, <4>1, FirstRound
    <3> QED
      BY <1>1, <1>2, <1>3, <1>4, <2>1, <3>1
  <2>2. CASE e \in Renumbered(b)
    <3>1. PICK f \in sentmsgs :
                /\ e.kind = f.kind /\ e.num = f.num
                /\ e.seq = f.seq \/ e.seq = ssn
      BY <1>7, <2>2
    <3>2. /\ f.num < sentN
          /\ sentN < M => f.num <= f.seq
          /\ f.num < peerAck => f.seq # f.num % M \/ f.num \div M < sentN \div M
      BY <1>10, <3>1 DEF Numbered
    <3>3. f.num \in Nat /\ f.num \div M \in Int
      <4>1. f.num \in Nat /\ f.num \in Int
        BY <1>1
      <4> QED
        BY <4>1, Division
    <3>4. e.num < sentN'
      BY <1>1, <1>2, <3>1, <3>2, <3>3
    <3>5. CASE e.seq = f.seq
      <4>1. sentN' < M => e.num <= e.seq
        BY <1>1, <1>2, <3>1, <3>2, <3>5
      <4>2. f.num \div M < sentN \div M => f.num \div M < sentN' \div M
        BY <1>9, <3>3
      <4> QED
        BY <1>2, <3>1, <3>2, <3>4, <3>5, <4>1, <4>2
    <3>6. CASE e.seq = ssn
      <4>1. sentN' < M => e.num <= e.seq
        <5>1. 0 \in Seqs
          BY Constants DEF Seqs
        <5>2. sentN < M => ssn = sentN
          BY <1>1, <1>3, <5>1, FirstRound
        <5> QED
          BY <1>1, <1>2, <3>1, <3>2, <3>3, <3>6, <5>2
      <4>2. e.seq = e.num % M => e.num \div M < sentN' \div M
        <5>1. f.num % M = sentN % M => f.num \div M < sentN \div M
          BY <1>1, <3>2, <3>3, SameRemainder
        <5> QED
          BY <1>3, <1>9, <3>1, <3>3, <3>6, <5>1
      <4> QED
        BY <3>4, <4>1, <4>2
    <3> QED
      BY <3>1, <3>5, <3>6
  <2> QED
    BY <1>2, <2>1, <2>2
<1>11. ASSUME sentN' < M, ~lied', NEW n \in peerAck'..(sentN' - 1)
       PROVE  \E e \in sentmsgs' : e.kind = "I" /\ e.num = n
  <2>1. CASE n = sentN
    BY <1>2, <1>4, <2>1
  <2>2. CASE n # sentN
    <3>1. n \in peerAck..(sentN - 1) /\ sentN < M
      BY <1>1, <1>2, <1>11, <2>2
    <3>2. PICK f \in sentmsgs : f.kind = "I" /\ f.num = n
      BY <1>2, <1>11, <3>1 DEF Numbered
    <3>3. PICK e \in Renumbered(b) : e.kind = f.kind /\ e.num = f.num
      BY <1>8
    <3> QED
      BY <1>2, <3>2, <3>3
  <2> QED
    BY <2>1, <2>2
<1> QED
  BY <1>6, <1>10, <1>11 DEF Numbered

\* Every step keeps the numbers.
LEMMA StepSupervised == TypeInv /\ Supervised /\ [Next]_vars => Supervised'
<1> SUFFICES ASSUME TypeInv, Supervised, [Next]_vars, link' = "open" PROVE Numbered'
  BY DEF Supervised
<1>0. link = "open" => Numbered
  BY DEF Supervised
<1>1. CASE Wait \/ Ignored \/ StartDT \/ StopDT
  BY <1>0, <1>1, SameNumbers
  DEF Wait, Ignored, StartDT, StopDT, Receives, Runs, numbers, acked
<1>2. CASE Truncated
  BY <1>2 DEF Truncated, Dies
<1>3. CASE PeerGone \/ SequenceError \/ T1Fires
  BY <1>3 DEF PeerGone, SequenceError, T1Fires, Disconnect
<1>4. ASSUME NEW type \in {"act", "con"}, TestFR(type) PROVE Numbered'
  <2>1. link = "open" /\ UNCHANGED <<ssn, sentN, peerAck, lied>> /\ sentmsgs' = Untested
    BY <1>4 DEF TestFR, Receives, numbers, acked
  <2> QED
    BY <1>0, <2>1, SameNumbers DEF Untested
<1>5. ASSUME NEW k \in Seqs, SFrame(k) PROVE Numbered'
  <2>1. /\ link = "open" /\ UNCHANGED <<ssn, sentN>> /\ Acknowledges(k)
        /\ ack' = IF k <= ssn THEN k ELSE ack
        /\ sentmsgs' = Unacknowledged(ack')
    BY <1>5 DEF SFrame, Receives
  <2>2. k <= ssn => ack' = k
    BY <2>1
  <2> QED
    BY <1>0, <2>1, <2>2, AcknowledgedNumbers
<1>6. ASSUME NEW k \in Seqs, NEW n \in Replies, IFrame(k, n) PROVE Numbered'
  <2>1. /\ link = "open" /\ UNCHANGED <<ssn, sentN>> /\ Acknowledges(k)
        /\ sentmsgs' = Unacknowledged(k)
    BY <1>6 DEF IFrame, Receives
  <2> QED
    BY <1>0, <2>1, AcknowledgedNumbers
<1>7. ASSUME NEW n \in Replies, IFrameOfWrongLength(n) PROVE Numbered'
  <2>1. link = "open" /\ UNCHANGED <<ssn, sentN, peerAck, lied, sentmsgs>>
    BY <1>7 DEF IFrameOfWrongLength, Receives, numbers, acked
  <2> QED
    BY <1>0, <2>1, SameNumbers
<1>8. ASSUME NEW name \in {"STARTDT_con", "STOPDT_con", "TESTFR_con"}, SendU(name)
      PROVE  Numbered'
  <2>1. link = "open" /\ UNCHANGED <<ssn, sentN, peerAck, lied, sentmsgs>>
    BY <1>8 DEF SendU, Sends, acked
  <2> QED
    BY <1>0, <2>1, SameNumbers
<1>9. CASE SendI
  <2>1. link = "open"
    BY <1>9 DEF SendI, Sends
  <2> QED
    BY <1>0, <1>9, <2>1, SentNumbers
<1>10. CASE SendS \/ BufferI \/ T2Fires
  <2>1. link = "open" /\ UNCHANGED <<ssn, sentN, peerAck, lied, sentmsgs>>
    BY <1>10 DEF SendS, BufferI, T2Fires, InHub, Sends, numbers, acked
  <2> QED
    BY <1>0, <2>1, SameNumbers
<1>11. CASE T3Fires
  <2>1. link = "open" /\ UNCHANGED <<ssn, sentN, peerAck, lied>> /\ sentmsgs' = UnderT1
    BY <1>11 DEF T3Fires, numbers, acked
  <2> QED
    BY <1>0, <2>1, SameNumbers DEF UnderT1
<1>12. CASE Tick
  <2>1. /\ link = "open" /\ UNCHANGED <<ssn, sentN, peerAck, lied>>
        /\ sentmsgs' = {[e EXCEPT !.left = @ - 1] : e \in sentmsgs}
    BY <1>12 DEF Tick, numbers, acked
  <2>2. \A e \in sentmsgs :
            LET f == [e EXCEPT !.left = @ - 1]
            IN  f \in sentmsgs' /\ f.kind = e.kind /\ f.num = e.num /\ f.seq = e.seq
    BY <2>1, NumbersTyped DEF Timed
  <2>3. \A f \in sentmsgs' : \E e \in sentmsgs :
            f.kind = e.kind /\ f.num = e.num /\ f.seq = e.seq
    <3> SUFFICES ASSUME NEW f \in sentmsgs'
                 PROVE  \E e \in sentmsgs : f.kind = e.kind /\ f.num = e.num /\ f.seq = e.seq
      OBVIOUS
    <3>1. PICK e \in sentmsgs : f = [e EXCEPT !.left = @ - 1]
      BY <2>1
    <3> QED
      BY <2>2, <3>1
  <2>4. \A e \in sentmsgs : \E f \in sentmsgs' : f.kind = e.kind /\ f.num = e.num
    BY <2>2
  <2>5. Numbered /\ UNCHANGED <<ssn, sentN, peerAck, lied>>
    BY <1>0, <2>1
  <2> QED
    BY <2>3, <2>4, <2>5, SameNumbers
<1>13. CASE UNCHANGED vars
  <2>1. link = "open" /\ UNCHANGED <<ssn, sentN, peerAck, lied, sentmsgs>>
    BY <1>13 DEF vars, numbers, acked
  <2> QED
    BY <1>0, <2>1, SameNumbers
<1> QED
  BY <1>1, <1>2, <1>3, <1>4, <1>5, <1>6, <1>7, <1>8, <1>9, <1>10, <1>11,
     <1>12, <1>13
  DEF Next

\* T1 supervises what the peer has yet to acknowledge, for every modulus: the
\* send number keeps step with what was sent, only a renumbered frame or one
\* of an earlier round stays under T1 once it is acknowledged, and until the
\* first wrap nothing unacknowledged escapes it.
THEOREM T1Supervises == Spec => []T1SupervisesUnacknowledged
<1>1. Init => Supervised
  <2> SUFFICES ASSUME Init PROVE Numbered
    BY DEF Supervised
  <2>1. 0 \in Seqs /\ 0 \in Nat /\ 0 < M /\ 0..(0 - 1) = {}
    BY Constants DEF Seqs
  <2>2. 0 % M = 0
    BY <2>1, FirstRound
  <2> QED
    BY <2>1, <2>2 DEF Init, Numbered
<1>2. Supervised => T1SupervisesUnacknowledged
  BY DEF Supervised, Numbered, T1SupervisesUnacknowledged
<1> QED
  BY <1>1, <1>2, StepSupervised, TypeInvariant, PTL DEF Spec

=============================================================================
