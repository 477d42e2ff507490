----------------------------- MODULE EventPost -----------------------------
(***************************************************************************)
(* What the forwarder does with one mapped record at a time                *)
(* (forwarder/conpot_forwarder.py): _observation_ts stamps it, _post_event *)
(* offers it to IronPot up to POST_MAX_RETRIES times, and what IronPot     *)
(* would not take goes to the dead-letter spool, a file that is moved to   *)
(* `.1` once it has grown past a cap.  IronPot is external: it files an    *)
(* exchange under a key made of its timestamp and its content, does        *)
(* nothing when that key is taken, and may store a post it has not         *)
(* answered in time at any later moment or never.  The forwarder may be    *)
(* killed anywhere; the clock may be set back.                             *)
(***************************************************************************)
EXTENDS Integers, Sequences, FiniteSets, SequencesExt

CONSTANTS
    MaxRetries,   \* POST_MAX_RETRIES
    SpoolCap,     \* MAX_DEAD_LETTER_BYTES, 0 for no cap
    SizeOf,       \* the bytes a record takes in the spool
    Pdu,          \* what a record asks: session, service and protocol_data
    NoStamp,      \* _last_observation_ts before the first record
    MaxRecords,   \* bound: records mapped
    Clock,        \* bound: readings of the wall clock, in microseconds
    MaxKills      \* bound: deaths of the forwarder

ASSUME PostAssumption ==
    /\ MaxRetries \in Nat \ {0}
    /\ SpoolCap \in Nat
    /\ MaxRecords \in Nat \ {0}
    /\ MaxKills \in Nat
    /\ SizeOf \in [1..MaxRecords -> Nat \ {0}]
    /\ DOMAIN Pdu = 1..MaxRecords
    /\ Clock \subseteq Int
    /\ NoStamp \notin Int

VARIABLES
    clock,     \* datetime.now(timezone.utc)
    last,      \* _last_observation_ts
    pc,        \* where the loop is
    rec,       \* the record in hand, or the last one
    stamp,     \* the "timestamp" baked into its event
    attempt,   \* the attempt of _post_event
    rows,      \* the exchanges IronPot stored
    late,      \* posts it has not answered in time and may yet store
    accepted,  \* history: the exchanges it answered with a 2xx
    spool,     \* DEAD_LETTER_PATH
    old,       \* DEAD_LETTER_PATH + ".1"
    gone,      \* history: records clobbered, not spooled, or killed in hand
    kills

event == <<rec, stamp, attempt>>
ironpot == <<rows, late, accepted>>
vars == <<clock, last, pc, event, ironpot, spool, old, gone, kills>>

Records == 1..MaxRecords

Init ==
    /\ clock \in Clock
    /\ last = NoStamp
    /\ pc = "idle"
    /\ rec = 0
    /\ stamp = NoStamp
    /\ attempt = 0
    /\ rows = {} /\ late = {} /\ accepted = {}
    /\ spool = <<>>
    /\ old = <<>>
    /\ gone = {}
    /\ kills = 0

-----------------------------------------------------------------------------
ObservationStamp_clock == clock   \* mutant: the clock's reading as it is

\* _observation_ts
ObservationStamp ==
    IF last # NoStamp /\ clock <= last THEN last + 1 ELSE clock

\* _map_record returns an event for the next record of the log.
Map ==
    /\ pc = "idle" /\ rec < MaxRecords
    /\ rec' = rec + 1
    /\ stamp' = ObservationStamp
    /\ last' = ObservationStamp
    /\ attempt' = 1
    /\ pc' = "post"
    /\ UNCHANGED <<clock, ironpot, spool, old, gone, kills>>

-----------------------------------------------------------------------------
(* IronPot: INSERT .. ON CONFLICT (session_id, exchange_key) DO NOTHING.   *)

ExchangeKey(row) == <<row.stamp, Pdu[row.rec]>>

Taken(new) == \E row \in rows : ExchangeKey(row) = ExchangeKey(new)

Insert(new) == rows' = IF Taken(new) THEN rows ELSE rows \cup {new}

(* A post that was not answered in time is stored after all.               *)
Late ==
    \E post \in late :
        /\ Insert(post)
        /\ late' = late \ {post}
        /\ UNCHANGED <<clock, last, pc, event, accepted, spool, old, gone, kills>>

-----------------------------------------------------------------------------
(* _post_event.                                                            *)

(* The event in hand, told from others with its content by its record and  *)
(* the process that posts it.                                              *)
Stored == [rec |-> rec, stamp |-> stamp, boot |-> kills]

\* A 2xx answer.
Accepted ==
    /\ pc = "post"
    /\ Insert(Stored)
    /\ accepted' = accepted \cup {Stored}
    /\ pc' = "idle"
    /\ UNCHANGED <<clock, last, event, late, spool, old, gone, kills>>

Rejected_drop ==   \* mutant: gives up early without the dead letter
    /\ pc = "post"
    /\ pc' = "idle"
    /\ UNCHANGED <<clock, last, event, ironpot, spool, old, gone, kills>>

\* 4xx, but not 429: no retry.
Rejected ==
    /\ pc = "post"
    /\ pc' = "spool"
    /\ UNCHANGED <<clock, last, event, ironpot, spool, old, gone, kills>>

CanRetry == attempt < MaxRetries

\* 429, 5xx, no connection, or no answer in five seconds; in the last case
\* IronPot may store the event all the same, at once or later.
Failed ==
    /\ pc = "post"
    /\ late' \in {late, late \cup {Stored}}
    /\ IF CanRetry
       THEN attempt' = attempt + 1 /\ pc' = "backoff"
       ELSE pc' = "spool" /\ UNCHANGED attempt
    /\ UNCHANGED <<clock, last, rec, stamp, rows, accepted, spool, old, gone, kills>>

\* time.sleep(POST_BACKOFF_SECONDS * attempt) is over.
Retry ==
    /\ pc = "backoff"
    /\ pc' = "post"
    /\ UNCHANGED <<clock, last, event, ironpot, spool, old, gone, kills>>

Bytes(s) ==
    LET upTo[i \in 0..Len(s)] == IF i = 0 THEN 0 ELSE upTo[i - 1] + SizeOf[s[i]]
    IN  upTo[Len(s)]

SpoolFull_never == FALSE                  \* mutant: the size is not looked at
SpoolFull == SpoolCap > 0 /\ Bytes(spool) >= SpoolCap

\* _write_dead_letter, first half: os.replace clobbers what `.1` held.
SpoolRotate ==
    /\ pc = "spool"
    /\ IF SpoolFull
       THEN old' = spool /\ spool' = <<>> /\ gone' = gone \cup ToSet(old)
       ELSE UNCHANGED <<old, spool, gone>>
    /\ pc' = "append"
    /\ UNCHANGED <<clock, last, event, ironpot, kills>>

SpoolAppend_noreturn ==   \* mutant: no return after the dead letter of a 4xx
    /\ pc = "append"
    /\ spool' = Append(spool, rec)
    /\ IF attempt < MaxRetries
       THEN attempt' = attempt + 1 /\ pc' = "post"
       ELSE pc' = "idle" /\ UNCHANGED attempt
    /\ UNCHANGED <<clock, last, rec, stamp, ironpot, old, gone, kills>>

\* Second half: the append.
SpoolAppend ==
    /\ pc = "append"
    /\ spool' = Append(spool, rec)
    /\ pc' = "idle"
    /\ UNCHANGED <<clock, last, event, ironpot, old, gone, kills>>

\* An OSError, in either half, is logged and swallowed.
SpoolError ==
    /\ pc \in {"spool", "append"}
    /\ gone' = gone \cup {rec}
    /\ pc' = "idle"
    /\ UNCHANGED <<clock, last, event, ironpot, spool, old, kills>>

\* The forwarder is killed and starts again: module state is lost, and the
\* record in hand with it, but for a post on its way.  A restart takes longer
\* than the clock's grain.
Kill ==
    /\ kills < MaxKills
    /\ kills' = kills + 1
    /\ pc' = "idle"
    /\ last' = NoStamp
    /\ gone' = IF pc = "idle" THEN gone ELSE gone \cup {rec}
    /\ late' \in IF pc = "post" THEN {late, late \cup {Stored}} ELSE {late}
    /\ clock' \in Clock \ {clock}
    /\ UNCHANGED <<event, rows, accepted, spool, old>>

\* Time passes, or the clock is set.
Tick ==
    /\ clock' \in Clock
    /\ UNCHANGED <<last, pc, event, ironpot, spool, old, gone, kills>>

Step == Map \/ Accepted \/ Rejected \/ Failed \/ Retry
        \/ SpoolRotate \/ SpoolAppend \/ SpoolError

Next == Step \/ Late \/ Kill \/ Tick

Spec == Init /\ [][Next]_vars

-----------------------------------------------------------------------------
(* No record the forwarder has dealt with is missing without a cause the   *)
(* code names: it was accepted and is stored, or merged with a row of an   *)
(* earlier life of the forwarder under the same key; it is in the spool, in*)
(* the previous spool, or it was clobbered by a second rotation, lost to an*)
(* OSError or killed in hand.                                              *)
EveryRecordAccounted ==
    \A r \in 1..rec :
        \/ r = rec /\ pc # "idle"
        \/ \E post \in accepted, row \in rows :
              /\ post.rec = r
              /\ ExchangeKey(row) = ExchangeKey(post)
              /\ row = post \/ row.boot < post.boot
        \/ r \in ToSet(spool) \cup ToSet(old) \cup gone

(* The previous spool and the spool, in this order, replay the records in  *)
(* the order they were observed, and none twice.                           *)
SpoolInOrder ==
    LET both == old \o spool
    IN  \A i, j \in DOMAIN both : i < j => both[i] < both[j]

Largest == CHOOSE m \in {SizeOf[r] : r \in Records} :
               \A r \in Records : SizeOf[r] <= m

(* The size is read before the append, so a spool file can outgrow its cap,*)
(* but by less than one record.                                            *)
SpoolBounded ==
    SpoolCap > 0 => \A f \in {spool, old} : Bytes(f) < SpoolCap + Largest

-----------------------------------------------------------------------------
(* IronPot's table as the forwarder means it to grow.                      *)
Store == INSTANCE ExchangeStore WITH Stamps <- Int, Boots <- 0..MaxKills

(* A lost answer and its retry leave the store as it was, a post that      *)
(* arrives late takes the place its stamp gives it, and a restart of the   *)
(* forwarder, the clock set back meanwhile or not, posts nothing again.    *)
ImplementsStore == Store!Spec

(* What the comment on the stamps says ("Monotonic by construction.  A     *)
(* coarse clock [...] or an NTP step backwards would otherwise re-collide  *)
(* the key"): every exchange that IronPot accepted has a row of its own.   *)
EachExchangeItsOwnRow == accepted \subseteq rows

=============================================================================
