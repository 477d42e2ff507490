---------------------------- MODULE RateLimiter ----------------------------
(***************************************************************************)
(* The token bucket per source in front of the UDP handlers of BACnet and  *)
(* EtherNet/IP (conpot/utils/rate_limit.py): a bounded table of buckets in *)
(* least-recently-seen order, each refilled continuously, one token per    *)
(* datagram let through.                                                   *)
(*                                                                         *)
(* Tokens are counted in fractions: Unit of them are the 1.0 of the code,  *)
(* Rate and Burst are in the same fractions, per tick of the monotonic     *)
(* clock and at most.  allow() runs without a yield, so it is one action.  *)
(***************************************************************************)
EXTENDS Integers, Sequences

CONSTANTS
    Sources,         \* peer addresses
    Observed,        \* those an observer counts the datagrams of
    Unit,            \* the fractions of a token
    Rate,            \* self.rate
    Burst,           \* self.burst
    MaxSources,      \* self.max_sources
    ReportInterval,  \* REPORT_INTERVAL
    NoBucket,        \* a source that is not in the table
    MaxTime          \* bound: the clock

\* `enabled` holds: a limiter with no rate or no burst keeps no state at all.
ASSUME LimiterAssumption ==
    /\ Observed \subseteq Sources
    /\ Unit \in Nat \ {0}
    /\ Rate \in Nat \ {0}
    /\ Burst \in Nat \ {0}
    /\ MaxSources \in Nat \ {0}
    /\ ReportInterval \in Nat
    /\ MaxTime \in Nat
    /\ NoBucket \notin [tokens : Int, updated : Int, dropped : Int, reported : Int]

VARIABLES
    now,     \* time.monotonic()
    order,   \* the keys of _buckets, least recently seen first
    bucket,  \* the bucket of each source in the table
    watch,   \* history: what an observer of each source counted, since when
    line     \* history: when the last log line about each source was written

vars == <<now, order, bucket, watch, line>>

Never == -1

Init ==
    /\ now = 0
    /\ order = <<>>
    /\ bucket = [s \in Sources |-> NoBucket]
    /\ watch = [s \in Observed |-> [from |-> 0, spent |-> 0]]
    /\ line = [s \in Sources |-> Never]

-----------------------------------------------------------------------------
Tracked(s) == bucket[s] # NoBucket

Fresh_silent ==   \* mutant: a new bucket may write its line at once
    [tokens |-> Burst, updated |-> now, dropped |-> 0,
     reported |-> now - ReportInterval]

Fresh_empty ==    \* mutant: a new bucket starts without tokens
    [tokens |-> 0, updated |-> now, dropped |-> 0, reported |-> now]

\* _Bucket(self.burst, now)
Fresh == [tokens |-> Burst, updated |-> now, dropped |-> 0, reported |-> now]

Capped_not(x) == x   \* mutant: min() forgotten
Capped(x) == IF x < Burst THEN x ELSE Burst

\* The refill since the last datagram; the clock never goes back.
Refilled(b) ==
    [b EXCEPT !.tokens = Capped(b.tokens + (now - b.updated) * Rate),
              !.updated = now]

Seen(s) == IF Tracked(s) THEN Refilled(bucket[s]) ELSE Fresh

MovedToEnd_not(q, s) == q   \* mutant: no move_to_end

\* OrderedDict.move_to_end
MovedToEnd(q, s) ==
    LET at == CHOOSE i \in DOMAIN q : q[i] = s
    IN  [i \in DOMAIN q |->
            IF i < at THEN q[i] ELSE IF i < Len(q) THEN q[i + 1] ELSE s]

OverFull_off(q) == Len(q) > MaxSources + 1   \* mutant: one entry too many
OverFull(q) == Len(q) > MaxSources

\* The table with s seen last, before _evict.
Touched(s) == IF Tracked(s) THEN MovedToEnd(order, s) ELSE Append(order, s)

\* _evict: one datagram adds one entry at most, so it pops one at most.
Evicts(s) == ~Tracked(s) /\ OverFull(Touched(s))

Admits_always(s) == Seen(s).tokens >= 0   \* mutant: a bucket may go below zero
Admits(s) == Seen(s).tokens >= Unit

\* The table when s's bucket has become b.
Put(s, b) ==
    /\ order' = IF Evicts(s) THEN Tail(Touched(s)) ELSE Touched(s)
    /\ bucket' = [t \in Sources |->
                     IF t = s THEN b
                     ELSE IF Evicts(s) /\ t = Head(Touched(s)) THEN NoBucket
                     ELSE bucket[t]]

\* An observer's count of what passed; it begins anew with a new bucket.
Counted(s, n) ==
    watch' = [t \in Observed |->
                 IF t # s THEN watch[t]
                 ELSE IF Tracked(s) THEN [watch[s] EXCEPT !.spent = @ + n]
                 ELSE [from |-> now, spent |-> n]]

\* allow(s) is True.
Admit(s) ==
    /\ Admits(s)
    /\ Put(s, [Seen(s) EXCEPT !.tokens = @ - Unit])
    /\ Counted(s, 1)
    /\ UNCHANGED <<now, line>>

Reports(s) == now - Seen(s).reported >= ReportInterval

\* allow(s) is False; _report writes its line when the last is old enough.
Drop(s) ==
    /\ ~Admits(s)
    /\ Put(s, IF Reports(s)
              THEN [Seen(s) EXCEPT !.dropped = 0, !.reported = now]
              ELSE [Seen(s) EXCEPT !.dropped = @ + 1])
    /\ line' = IF Reports(s) THEN [line EXCEPT ![s] = now] ELSE line
    /\ Counted(s, 0)
    /\ UNCHANGED now

\* The observer starts counting, at any instant.
Watch(s) ==
    /\ watch' = [watch EXCEPT ![s] = [from |-> now, spent |-> 0]]
    /\ UNCHANGED <<now, order, bucket, line>>

Tick ==
    /\ now < MaxTime
    /\ now' = now + 1
    /\ UNCHANGED <<order, bucket, watch, line>>

Next == \/ Tick
        \/ \E s \in Sources : Admit(s) \/ Drop(s)
        \/ \E s \in Observed : Watch(s)

Spec == Init /\ [][Next]_vars

-----------------------------------------------------------------------------
Bucket == [tokens : 0..Burst, updated : 0..MaxTime, dropped : Nat,
           reported : 0..MaxTime]

(* Every variable has its type; no bucket holds more than the burst or less*)
(* than nothing.                                                           *)
TypeOK ==
    /\ now \in 0..MaxTime
    /\ order \in Seq(Sources)
    /\ bucket \in [Sources -> Bucket \cup {NoBucket}]
    /\ watch \in [Observed -> [from : 0..MaxTime, spent : Nat]]
    /\ line \in [Sources -> 0..MaxTime \cup {Never}]

(* The table is bounded, whatever number of addresses a flood claims to    *)
(* come from, and lists exactly the sources that have a bucket, once each. *)
TableBounded ==
    /\ Len(order) <= MaxSources
    /\ \A i, j \in DOMAIN order : order[i] = order[j] => i = j
    /\ \A s \in Sources : Tracked(s) <=> \E i \in DOMAIN order : order[i] = s

(* The table is in the order of the buckets' last datagrams, so what _evict*)
(* pops is a source that no other was seen before.                         *)
LeastRecentFirst ==
    \A i, j \in DOMAIN order :
        i < j => bucket[order[i]].updated <= bucket[order[j]].updated

(* Both together, after every datagram.                                    *)
LruTable == TableBounded /\ LeastRecentFirst

(* In any stretch of time over which a source keeps its bucket, no more of *)
(* its datagrams pass than the burst and the sustained rate allow.         *)
WindowBound ==
    \A s \in Observed :
        watch[s].spent * Unit <= Burst + Rate * (now - watch[s].from)

(* rate_limit.py:37-40 "a scanner that sends one Who-Is a minute is never  *)
(* affected": a datagram is dropped only if its source was seen less than  *)
(* one token's time ago, whatever the other sources do.                    *)
SlowSourceNeverDropped ==
    [][\A s \in Sources :
           Drop(s) => Tracked(s) /\ (now - bucket[s].updated) * Rate < Unit]_vars

(* rate_limit.py:44 "at most one line per source per minute", also for a   *)
(* source that is evicted and comes back.                                  *)
OneLinePerInterval ==
    [][\A s \in Sources :
           line'[s] # line[s] /\ line[s] # Never
               => line'[s] - line[s] >= ReportInterval]_vars

=============================================================================
