------------------------- MODULE RateLimiterProofs -------------------------
(***************************************************************************)
(* Proofs about RateLimiter, for every number of sources, rate, burst and  *)
(* table size.  The clock's bound is a constant like the others.           *)
(***************************************************************************)
EXTENDS RateLimiter, TLAPS

(* Every time a bucket or an observer remembers is past.                   *)
TimesPast ==
    /\ \A s \in Sources :
           Tracked(s) => bucket[s].updated <= now /\ bucket[s].reported <= now
    /\ \A s \in Observed : watch[s].from <= now
    /\ \A s \in Sources : line[s] <= now

(* A bucket counts its interval from the last line about its source, or    *)
(* from a later moment.                                                    *)
LinesCovered ==
    \A s \in Sources : Tracked(s) => line[s] <= bucket[s].reported

(* What an observer of s counted, with the tokens the bucket still holds,  *)
(* is within the burst and the refill up to the bucket's last datagram;    *)
(* before the first datagram an observer sees, it has counted nothing.     *)
Counts(s) ==
    IF Tracked(s)
    THEN IF watch[s].from <= bucket[s].updated
         THEN watch[s].spent * Unit + bucket[s].tokens
                  <= Burst + Rate * (bucket[s].updated - watch[s].from)
         ELSE watch[s].spent = 0
    ELSE watch[s].spent * Unit <= Burst + Rate * (now - watch[s].from)

(* The inductive invariant.                                                *)
IInv ==
    /\ TypeOK
    /\ TimesPast
    /\ LinesCovered
    /\ \A s \in Observed : Counts(s)

-----------------------------------------------------------------------------
(* Arithmetic of the refill.                                               *)

(* A product of natural numbers is one.                                    *)
LEMMA MulNat == ASSUME NEW a \in Nat, NEW b \in Nat PROVE a * b \in Nat
  OBVIOUS

(* Multiplying by a natural number keeps the order.                        *)
LEMMA MulMono ==
  ASSUME NEW r \in Nat, NEW a \in Int, NEW b \in Int, a <= b
  PROVE  r * a <= r * b
  <1>1. b - a \in Nat
    OBVIOUS
  <1>2. r * (b - a) \in Nat
    BY <1>1, MulNat
  <1>3. r * (b - a) = r * b - r * a
    OBVIOUS
  <1>4. r * a \in Int /\ r * b \in Int
    OBVIOUS
  <1> QED
    BY <1>2, <1>3, <1>4

(* A product with a sum is the sum of the products.                        *)
LEMMA MulSum ==
  ASSUME NEW r \in Nat, NEW a \in Int, NEW b \in Int, NEW c \in Int
  PROVE  r * (a - b) + (c - a) * r = r * (c - b)
  OBVIOUS

-----------------------------------------------------------------------------
(* What a datagram does to the table.                                      *)

(* The mark of an absent source is no bucket.                              *)
LEMMA NoBucketIsNone == NoBucket \notin Bucket
  <1> SUFFICES ASSUME NoBucket \in Bucket PROVE FALSE
    OBVIOUS
  <1>1. Bucket \subseteq [tokens : Int, updated : Int, dropped : Int, reported : Int]
    BY LimiterAssumption DEF Bucket
  <1> QED
    BY <1>1, LimiterAssumption

(* The bucket a datagram of s meets: full when it is new, refilled up to   *)
(* the burst otherwise, and of this instant.                               *)
LEMMA SeenBucket ==
  ASSUME TypeOK, TimesPast, NEW s \in Sources
  PROVE  /\ Seen(s) \in Bucket
         /\ Seen(s).updated = now
         /\ Seen(s).reported <= now
         /\ ~Tracked(s) => Seen(s).tokens = Burst
         /\ Tracked(s) => Seen(s).tokens
                <= bucket[s].tokens + (now - bucket[s].updated) * Rate
  <1>1. CASE Tracked(s)
    <2>1. bucket[s] \in Bucket /\ bucket[s].updated <= now
      BY <1>1 DEF TypeOK, TimesPast, Tracked
    <2>2. (now - bucket[s].updated) \in Nat /\ Rate \in Nat /\ now \in 0..MaxTime
      BY <2>1, LimiterAssumption DEF Bucket, TypeOK
    <2> DEFINE full == bucket[s].tokens + (now - bucket[s].updated) * Rate
    <2>3. full \in Nat
      BY <2>1, <2>2, MulNat DEF Bucket
    <2>4. Capped(full) \in 0..Burst /\ Capped(full) <= full
      BY <2>3, LimiterAssumption DEF Capped
    <2>5. Seen(s) = [bucket[s] EXCEPT !.tokens = Capped(full), !.updated = now]
      BY <1>1 DEF Seen, Refilled
    <2> HIDE DEF full
    <2>6. Seen(s) \in Bucket /\ Seen(s).updated = now
          /\ Seen(s).reported = bucket[s].reported /\ Seen(s).tokens = Capped(full)
      BY <2>1, <2>2, <2>4, <2>5 DEF Bucket
    <2>7. bucket[s].reported <= now
      BY <1>1 DEF TimesPast
    <2> QED
      BY <1>1, <2>4, <2>6, <2>7 DEF full
  <1>2. CASE ~Tracked(s)
    BY <1>2, LimiterAssumption DEF Seen, Fresh, Bucket, TypeOK
  <1> QED
    BY <1>1, <1>2

(* s's bucket becomes b, any other stays or is evicted, and the order stays*)
(* a list of sources.                                                      *)
LEMMA PutTable ==
  ASSUME TypeOK, NEW s \in Sources, NEW b \in Bucket, Put(s, b)
  PROVE  /\ order' \in Seq(Sources)
         /\ bucket' \in [Sources -> Bucket \cup {NoBucket}]
         /\ bucket'[s] = b
         /\ \A t \in Sources : t # s => bucket'[t] \in {bucket[t], NoBucket}
  <1>1. MovedToEnd(order, s) \in Seq(Sources)
    <2> DEFINE at == CHOOSE i \in DOMAIN order : order[i] = s
    <2>1. order \in Seq(Sources)
      BY DEF TypeOK
    <2>2. \A i \in 1..Len(order) : i < Len(order) => order[i + 1] \in Sources
      BY <2>1
    <2>3. \A i \in 1..Len(order) : order[i] \in Sources
      BY <2>1
    <2> HIDE DEF at
    <2>4. [i \in 1..Len(order) |->
              IF i < at THEN order[i]
              ELSE IF i < Len(order) THEN order[i + 1] ELSE s]
            \in [1..Len(order) -> Sources]
      BY <2>2, <2>3
    <2>5. Len(order) \in Nat /\ DOMAIN order = 1..Len(order)
      BY <2>1
    <2> QED
      BY <2>4, <2>5 DEF MovedToEnd, at
  <1>2. Touched(s) \in Seq(Sources)
    BY <1>1 DEF Touched, TypeOK
  <1>3. Evicts(s) => Touched(s) # <<>>
    BY DEF Evicts, Touched, TypeOK
  <1>4. order' \in Seq(Sources)
    BY <1>2, <1>3 DEF Put
  <1> QED
    BY <1>4 DEF Put, TypeOK

-----------------------------------------------------------------------------
(* The bookkeeping of one datagram of s that spends n tokens.              *)

(* A datagram leaves the count kept on another source right.               *)
LEMMA CountsOfOthers ==
  ASSUME IInv, NEW s \in Sources, NEW b \in Bucket, NEW n \in Nat,
         Put(s, b), Counted(s, n), UNCHANGED now,
         NEW t \in Observed, t # s
  PROVE  Counts(t)'
  <1>0. t \in Sources /\ Burst \in Nat /\ Rate \in Nat /\ Unit \in Nat
    BY LimiterAssumption
  <1>1. watch'[t] = watch[t] /\ watch[t].from \in 0..MaxTime /\ watch[t].spent \in Nat
    BY DEF Counted, IInv, TypeOK
  <1>2. bucket'[t] \in {bucket[t], NoBucket}
    BY <1>0, PutTable DEF IInv
  <1>3. now \in 0..MaxTime /\ watch[t].from <= now
    BY DEF IInv, TypeOK, TimesPast
  <1>4. CASE bucket'[t] = bucket[t]
    BY <1>1, <1>4 DEF IInv, Counts, Tracked
  <1>5. CASE Tracked(t) /\ bucket'[t] = NoBucket
    <2>1. bucket[t] \in Bucket /\ bucket[t].updated <= now
      BY <1>0, <1>5 DEF IInv, TypeOK, TimesPast, Tracked
    <2> DEFINE spent == watch[t].spent * Unit
               later == Rate * (now - watch[t].from)
    <2>2. spent \in Nat
      BY <1>0, <1>1, MulNat
    <2>3. (now - watch[t].from) \in Nat
      BY <1>1, <1>3
    <2>4. later \in Nat
      BY <2>3, <1>0, MulNat
    <2>5. spent <= Burst + later
      <3>1. CASE watch[t].from <= bucket[t].updated
        <4>0. bucket[t].updated \in 0..MaxTime /\ bucket[t].tokens \in 0..Burst
          BY <2>1 DEF Bucket
        <4> DEFINE sooner == Rate * (bucket[t].updated - watch[t].from)
        <4>1. sooner <= later
          BY <1>0, <1>1, <1>3, <2>1, <4>0, MulMono
        <4>2. (bucket[t].updated - watch[t].from) \in Nat
          BY <3>1, <1>1, <4>0
        <4>3. sooner \in Nat
          BY <4>2, <1>0, MulNat
        <4>4. spent + bucket[t].tokens <= Burst + sooner
          BY <1>5, <3>1 DEF IInv, Counts
        <4> HIDE DEF sooner, spent, later
        <4> QED
          BY <4>0, <4>1, <4>3, <4>4, <2>2, <2>4, <1>0
      <3>2. CASE ~(watch[t].from <= bucket[t].updated)
        <4>1. watch[t].spent = 0
          BY <1>5, <3>2 DEF IInv, Counts
        <4>2. spent = 0
          BY <4>1, <1>0
        <4> HIDE DEF spent, later
        <4> QED
          BY <4>2, <2>4, <1>0
      <3> QED
        BY <3>1, <3>2
    <2> QED
      BY <1>1, <1>5, <2>5 DEF Counts, Tracked
  <1> QED
    BY <1>2, <1>4, <1>5 DEF Tracked

(* It leaves the count kept on its own source right.                       *)
LEMMA CountsOfSource ==
  ASSUME IInv, NEW s \in Observed, NEW b \in Bucket, NEW n \in Nat,
         Put(s, b), Counted(s, n), UNCHANGED now,
         b.updated = now, n * Unit + b.tokens <= Seen(s).tokens
  PROVE  Counts(s)'
  <1>0. s \in Sources /\ Burst \in Nat /\ Rate \in Nat /\ Unit \in Nat
    BY LimiterAssumption
  <1>1. now \in 0..MaxTime /\ watch[s].from \in 0..MaxTime
        /\ watch[s].spent \in Nat /\ watch[s].from <= now
    BY DEF IInv, TypeOK, TimesPast
  <1>2. bucket'[s] = b /\ Tracked(s)'
    BY <1>0, PutTable, NoBucketIsNone DEF IInv, Tracked
  <1>3. b.tokens \in Nat /\ n * Unit \in Nat
    BY <1>0, MulNat DEF Bucket
  <1>4. Seen(s) \in Bucket
    BY <1>0, SeenBucket DEF IInv
  <1>5. Seen(s).tokens \in Nat /\ Seen(s).tokens <= Burst
    BY <1>4, <1>0 DEF Bucket
  <1>6. CASE ~Tracked(s)
    <2>1. watch'[s] = [from |-> now, spent |-> n]
      BY <1>6 DEF Counted
    <2>2. Rate * (now - now) = 0
      BY <1>0, <1>1
    <2>3. n * Unit + b.tokens <= Burst
      BY <1>3, <1>5, <1>0
    <2> QED
      BY <1>0, <1>1, <1>2, <2>1, <2>2, <2>3 DEF Counts
  <1>7. CASE Tracked(s)
    <2>1. watch'[s] = [watch[s] EXCEPT !.spent = @ + n]
      BY <1>7 DEF Counted
    <2>2. watch'[s].from = watch[s].from /\ watch'[s].spent = watch[s].spent + n
      BY <2>1 DEF IInv, TypeOK
    <2>3. bucket[s] \in Bucket /\ bucket[s].updated <= now
      BY <1>0, <1>7 DEF IInv, TypeOK, TimesPast, Tracked
    <2>4. bucket[s].updated \in 0..MaxTime /\ bucket[s].tokens \in 0..Burst
      BY <2>3 DEF Bucket
    <2> DEFINE spent  == watch[s].spent * Unit
               spends == n * Unit
               later  == Rate * (now - watch[s].from)
               sooner == Rate * (bucket[s].updated - watch[s].from)
               refill == (now - bucket[s].updated) * Rate
    <2>5. (watch[s].spent + n) * Unit = spent + spends /\ spent \in Nat /\ spends \in Nat
      BY <1>0, <1>1, MulNat
    <2>6. sooner + refill = later /\ sooner \in Int /\ refill \in Int /\ later \in Int
      BY <1>0, <1>1, <2>4, MulSum
    <2>7. Seen(s).tokens <= bucket[s].tokens + refill
      BY <1>0, <1>7, SeenBucket DEF IInv
    <2>8. (now - watch[s].from) \in Nat
      BY <1>1
    <2>9. later \in Nat
      BY <2>8, <1>0, MulNat
    <2>10. spends + b.tokens <= Seen(s).tokens
      OBVIOUS
    <2>11. spent + spends + b.tokens <= Burst + later
      <3>1. CASE watch[s].from <= bucket[s].updated
        <4>1. spent + bucket[s].tokens <= Burst + sooner
          BY <1>7, <3>1 DEF IInv, Counts
        <4> HIDE DEF spent, spends, later, sooner, refill
        <4> QED
          BY <1>0, <1>3, <1>5, <2>4, <2>5, <2>6, <2>7, <2>10, <4>1
      <3>2. CASE ~(watch[s].from <= bucket[s].updated)
        <4>1. watch[s].spent = 0
          BY <1>7, <3>2 DEF IInv, Counts
        <4>2. spent = 0
          BY <4>1, <1>0
        <4> HIDE DEF spent, spends, later, sooner, refill
        <4> QED
          BY <1>0, <1>3, <1>5, <2>5, <2>9, <2>10, <4>2
      <3> QED
        BY <3>1, <3>2
    <2>12. (watch[s].spent + n) * Unit + b.tokens <= Burst + later
      BY <2>5, <2>11
    <2>13. watch'[s].from <= now' /\ bucket'[s].updated = now
      BY <1>1, <1>2, <2>2
    <2> QED
      BY <1>1, <1>2, <2>2, <2>12, <2>13 DEF Counts
  <1> QED
    BY <1>6, <1>7

(* One datagram keeps the invariant.                                       *)
LEMMA DatagramStep ==
  ASSUME IInv, NEW s \in Sources, NEW b \in Bucket, NEW n \in Nat,
         Put(s, b), Counted(s, n), UNCHANGED now,
         b.updated = now, n * Unit + b.tokens <= Seen(s).tokens,
         \/ b.reported = Seen(s).reported /\ line' = line
         \/ b.reported = now /\ line' = [line EXCEPT ![s] = now]
  PROVE  IInv'
  <1>0. Observed \subseteq Sources
    BY LimiterAssumption
  <1>1. /\ order' \in Seq(Sources)
        /\ bucket' \in [Sources -> Bucket \cup {NoBucket}]
        /\ bucket'[s] = b
        /\ \A t \in Sources : t # s => bucket'[t] \in {bucket[t], NoBucket}
    BY PutTable DEF IInv
  <1>2. now \in 0..MaxTime /\ now' = now
    BY DEF IInv, TypeOK
  <1>3. Seen(s) \in Bucket /\ Seen(s).reported <= now
    BY SeenBucket DEF IInv
  <1>4. TypeOK'
    <2>1. watch' \in [Observed -> [from : 0..MaxTime, spent : Nat]]
      <3>1. watch \in [Observed -> [from : 0..MaxTime, spent : Nat]]
        BY DEF IInv, TypeOK
      <3>2. [from |-> now, spent |-> n] \in [from : 0..MaxTime, spent : Nat]
        BY <1>2
      <3>3. s \in Observed => [watch[s] EXCEPT !.spent = @ + n]
                                  \in [from : 0..MaxTime, spent : Nat]
        BY <3>1
      <3> QED
        BY <3>1, <3>2, <3>3 DEF Counted
    <2>2. line' \in [Sources -> 0..MaxTime \cup {Never}]
      BY <1>2 DEF IInv, TypeOK
    <2> QED
      BY <1>1, <1>2, <2>1, <2>2 DEF TypeOK
  <1>5. TimesPast'
    <2>1. ASSUME NEW t \in Sources, Tracked(t)'
          PROVE  bucket'[t].updated <= now' /\ bucket'[t].reported <= now'
      <3>1. CASE t = s
        BY <1>1, <1>2, <1>3, <3>1
      <3>2. CASE t # s
        BY <1>1, <1>2, <2>1, <3>2 DEF IInv, TimesPast, Tracked
      <3> QED
        BY <3>1, <3>2
    <2>2. \A t \in Observed : watch'[t].from <= now'
      BY <1>2 DEF Counted, IInv, TypeOK, TimesPast
    <2>3. \A t \in Sources : line'[t] <= now'
      BY <1>2 DEF IInv, TypeOK, TimesPast
    <2> QED
      BY <2>1, <2>2, <2>3 DEF TimesPast
  <1>6. LinesCovered'
    <2> SUFFICES ASSUME NEW t \in Sources, Tracked(t)'
                 PROVE  line'[t] <= bucket'[t].reported
      BY DEF LinesCovered
    <2>1. CASE t # s
      <3>1. line'[t] = line[t]
        BY <2>1 DEF IInv, TypeOK
      <3> QED
        BY <1>1, <2>1, <3>1 DEF IInv, LinesCovered, Tracked
    <2>2. CASE t = s
      <3>1. line[s] <= Seen(s).reported
        <4>1. CASE Tracked(s)
          <5>1. Seen(s).reported = bucket[s].reported
            BY <4>1 DEF Seen, Refilled, IInv, TypeOK, Tracked, Bucket
          <5> QED
            BY <4>1, <5>1 DEF IInv, LinesCovered
        <4>2. CASE ~Tracked(s)
          BY <4>2 DEF Seen, Fresh, IInv, TimesPast
        <4> QED
          BY <4>1, <4>2
      <3>2. line[s] \in Int /\ Seen(s).reported \in Int
        BY <1>3 DEF IInv, TypeOK, Never, Bucket
      <3>3. CASE b.reported = Seen(s).reported /\ line' = line
        BY <1>1, <2>2, <3>1, <3>3
      <3>4. CASE b.reported = now /\ line' = [line EXCEPT ![s] = now]
        BY <1>1, <1>2, <2>2, <3>4 DEF IInv, TypeOK
      <3> QED
        BY <3>3, <3>4
    <2> QED
      BY <2>1, <2>2
  <1>7. \A t \in Observed : Counts(t)'
    BY CountsOfOthers, CountsOfSource
  <1> QED
    BY <1>4, <1>5, <1>6, <1>7 DEF IInv

(* A datagram let through keeps the invariant.                             *)
LEMMA AdmitStep ==
  ASSUME IInv, NEW s \in Sources, Admit(s)
  PROVE  IInv'
  <1> DEFINE b == [Seen(s) EXCEPT !.tokens = @ - Unit]
  <1>1. Seen(s) \in Bucket /\ Seen(s).updated = now
    BY SeenBucket DEF IInv
  <1>2. Seen(s).tokens \in 0..Burst /\ Seen(s).tokens >= Unit
    BY <1>1 DEF Admit, Admits, Bucket
  <1>3. Unit \in Nat \ {0} /\ Burst \in Nat
    BY LimiterAssumption
  <1>4. b \in Bucket /\ b.updated = now /\ b.reported = Seen(s).reported
        /\ b.tokens = Seen(s).tokens - Unit
    BY <1>1, <1>2, <1>3 DEF Bucket
  <1>5. 1 * Unit + b.tokens <= Seen(s).tokens
    BY <1>2, <1>3, <1>4
  <1>6. Put(s, b) /\ Counted(s, 1) /\ UNCHANGED now /\ line' = line
    BY DEF Admit
  <1> HIDE DEF b
  <1> QED
    BY <1>4, <1>5, <1>6, DatagramStep

(* A dropped one keeps the invariant, reported or not.                     *)
LEMMA DropStep ==
  ASSUME IInv, NEW s \in Sources, Drop(s)
  PROVE  IInv'
  <1> DEFINE b == IF Reports(s)
                  THEN [Seen(s) EXCEPT !.dropped = 0, !.reported = now]
                  ELSE [Seen(s) EXCEPT !.dropped = @ + 1]
  <1>1. Seen(s) \in Bucket /\ Seen(s).updated = now
    BY SeenBucket DEF IInv
  <1>2. now \in 0..MaxTime /\ Unit \in Nat /\ Burst \in Nat
    BY LimiterAssumption DEF IInv, TypeOK
  <1>3. CASE Reports(s)
    <2>1. b \in Bucket /\ b.updated = now /\ b.tokens = Seen(s).tokens
          /\ b.reported = now
      BY <1>1, <1>2, <1>3 DEF Bucket
    <2>2. 0 * Unit + b.tokens <= Seen(s).tokens
      BY <1>1, <1>2, <2>1 DEF Bucket
    <2>3. Put(s, b) /\ Counted(s, 0) /\ UNCHANGED now
          /\ line' = [line EXCEPT ![s] = now]
      BY <1>3 DEF Drop
    <2> HIDE DEF b
    <2> QED
      BY <2>1, <2>2, <2>3, DatagramStep
  <1>4. CASE ~Reports(s)
    <2>1. Seen(s).dropped + 1 \in Nat
      BY <1>1 DEF Bucket
    <2>2. b \in Bucket /\ b.updated = now /\ b.tokens = Seen(s).tokens
          /\ b.reported = Seen(s).reported
      BY <1>1, <1>4, <2>1 DEF Bucket
    <2>3. 0 * Unit + b.tokens <= Seen(s).tokens
      BY <1>1, <1>2, <2>2 DEF Bucket
    <2>4. Put(s, b) /\ Counted(s, 0) /\ UNCHANGED now /\ line' = line
      BY <1>4 DEF Drop
    <2> HIDE DEF b
    <2> QED
      BY <2>2, <2>3, <2>4, DatagramStep
  <1> QED
    BY <1>3, <1>4

(* An observer may begin at any instant.                                   *)
LEMMA WatchStep ==
  ASSUME IInv, NEW s \in Observed, Watch(s)
  PROVE  IInv'
  <1>1. s \in Sources /\ Burst \in Nat /\ Rate \in Nat /\ Unit \in Nat
    BY LimiterAssumption
  <1>2. now \in 0..MaxTime /\ now' = now /\ bucket' = bucket /\ line' = line
    BY DEF IInv, TypeOK, Watch
  <1>3. watch \in [Observed -> [from : 0..MaxTime, spent : Nat]]
        /\ watch' = [watch EXCEPT ![s] = [from |-> now, spent |-> 0]]
    BY DEF IInv, TypeOK, Watch
  <1>4. TypeOK'
    BY <1>2, <1>3 DEF IInv, TypeOK, Watch
  <1>5. TimesPast' /\ LinesCovered'
    BY <1>2, <1>3 DEF IInv, TimesPast, LinesCovered, Tracked
  <1>6. ASSUME NEW t \in Observed PROVE Counts(t)'
    <2>1. CASE t # s
      <3>1. watch'[t] = watch[t]
        BY <1>3, <2>1
      <3> QED
        BY <1>2, <3>1 DEF IInv, Counts, Tracked
    <2>2. CASE t = s
      <3>1. watch'[s].from = now /\ watch'[s].spent = 0
        BY <1>3
      <3>2. 0 * Unit = 0 /\ Rate * (now - now) = 0
        BY <1>1, <1>2
      <3>3. Tracked(s) => bucket[s].tokens \in 0..Burst
                          /\ bucket[s].updated \in 0..MaxTime
                          /\ bucket[s].updated <= now
        BY <1>1 DEF IInv, TypeOK, TimesPast, Tracked, Bucket
      <3>4. CASE Tracked(s) /\ now <= bucket[s].updated
        <4>1. bucket[s].updated = now
          BY <1>2, <3>3, <3>4
        <4> QED
          BY <1>1, <1>2, <2>2, <3>1, <3>2, <3>3, <3>4, <4>1 DEF Counts, Tracked
      <3>5. CASE ~(Tracked(s) /\ now <= bucket[s].updated)
        BY <1>1, <1>2, <2>2, <3>1, <3>2, <3>5 DEF Counts, Tracked
      <3> QED
        BY <3>4, <3>5
    <2> QED
      BY <2>1, <2>2
  <1> QED
    BY <1>4, <1>5, <1>6 DEF IInv

(* The passing of time keeps the invariant.                                *)
LEMMA TickStep ==
  ASSUME IInv, Tick
  PROVE  IInv'
  <1>1. Observed \subseteq Sources /\ Burst \in Nat /\ Rate \in Nat /\ Unit \in Nat
        /\ MaxTime \in Nat
    BY LimiterAssumption
  <1>2. now \in 0..MaxTime /\ now' = now + 1 /\ now' \in 0..MaxTime
        /\ UNCHANGED <<order, bucket, watch, line>>
    BY <1>1 DEF IInv, TypeOK, Tick
  <1>3. TypeOK'
    BY <1>2 DEF IInv, TypeOK
  <1>4. TimesPast' /\ LinesCovered'
    <2>1. \A s \in Sources : Tracked(s) => bucket[s].updated \in Int
                                           /\ bucket[s].reported \in Int
      BY DEF IInv, TypeOK, Tracked, Bucket
    <2>2. \A s \in Observed : watch[s].from \in Int
      BY DEF IInv, TypeOK
    <2>3. \A s \in Sources : line[s] \in Int
      BY DEF IInv, TypeOK, Never
    <2> QED
      BY <1>2, <2>1, <2>2, <2>3 DEF IInv, TimesPast, LinesCovered, Tracked
  <1>5. ASSUME NEW t \in Observed PROVE Counts(t)'
    <2>1. watch[t].from \in 0..MaxTime /\ watch[t].spent \in Nat /\ watch[t].from <= now
      BY DEF IInv, TypeOK, TimesPast
    <2>2. CASE Tracked(t)
      BY <1>2, <2>2 DEF IInv, Counts, Tracked
    <2>3. CASE ~Tracked(t)
      <3> DEFINE spent == watch[t].spent * Unit
                 sooner == Rate * (now - watch[t].from)
                 later == Rate * (now + 1 - watch[t].from)
      <3>1. sooner <= later
        BY <1>1, <1>2, <2>1, MulMono
      <3>2. spent <= Burst + sooner
        BY <2>3 DEF IInv, Counts
      <3>3. spent \in Int /\ sooner \in Int /\ later \in Int
        BY <1>1, <1>2, <2>1
      <3>4. spent <= Burst + later
        <4> HIDE DEF spent, sooner, later
        <4> QED
          BY <1>1, <3>1, <3>2, <3>3
      <3>5. watch'[t].spent * Unit <= Burst + Rate * (now' - watch'[t].from)
        <4>1. now' = now + 1 /\ watch' = watch
          BY <1>2
        <4>2. now' - watch'[t].from = now + 1 - watch[t].from
              /\ watch'[t].spent = watch[t].spent
          BY <1>2, <2>1, <4>1
        <4> QED
          BY <3>4, <4>2
      <3>6. ~Tracked(t)'
        BY <1>2, <2>3 DEF Tracked
      <3> QED
        BY <3>5, <3>6 DEF Counts
    <2> QED
      BY <2>2, <2>3
  <1> QED
    BY <1>3, <1>4, <1>5 DEF IInv

-----------------------------------------------------------------------------
(* The invariant holds at first.                                           *)
LEMMA InitIInv == Init => IInv
  <1> SUFFICES ASSUME Init PROVE IInv
    OBVIOUS
  <1>1. Observed \subseteq Sources /\ Burst \in Nat /\ Rate \in Nat /\ Unit \in Nat
        /\ MaxTime \in Nat
    BY LimiterAssumption
  <1>2. TypeOK
    BY <1>1 DEF Init, TypeOK, Bucket
  <1>3. TimesPast /\ LinesCovered
    BY <1>1 DEF Init, TimesPast, LinesCovered, Tracked, Never
  <1>4. \A s \in Observed : Counts(s)
    <2> TAKE s \in Observed
    <2>1. 0 * Unit = 0 /\ Rate * (0 - 0) = 0
      BY <1>1
    <2>2. watch[s].spent = 0 /\ watch[s].from = 0 /\ now = 0 /\ ~Tracked(s)
      BY <1>1 DEF Init, Tracked
    <2>3. watch[s].spent * Unit = 0 /\ Rate * (now - watch[s].from) = 0
      BY <2>1, <2>2
    <2> QED
      BY <1>1, <2>2, <2>3 DEF Counts
  <1> QED
    BY <1>2, <1>3, <1>4 DEF IInv

(* Every step keeps the invariant.                                         *)
LEMMA NextIInv == IInv /\ [Next]_vars => IInv'
  <1> SUFFICES ASSUME IInv, [Next]_vars PROVE IInv'
    OBVIOUS
  <1>1. CASE Tick
    BY <1>1, TickStep
  <1>2. ASSUME NEW s \in Sources, Admit(s) PROVE IInv'
    BY <1>2, AdmitStep
  <1>3. ASSUME NEW s \in Sources, Drop(s) PROVE IInv'
    BY <1>3, DropStep
  <1>4. ASSUME NEW s \in Observed, Watch(s) PROVE IInv'
    BY <1>4, WatchStep
  <1>5. CASE UNCHANGED vars
    BY <1>5 DEF vars, IInv, TypeOK, TimesPast, LinesCovered, Counts, Tracked
  <1> QED
    BY <1>1, <1>2, <1>3, <1>4, <1>5 DEF Next

(* The invariant implies the bound on what passes in a window.             *)
LEMMA IInvBounds == IInv => WindowBound
  <1> SUFFICES ASSUME IInv, NEW s \in Observed
               PROVE  watch[s].spent * Unit <= Burst + Rate * (now - watch[s].from)
    BY DEF WindowBound
  <1>1. s \in Sources /\ Burst \in Nat /\ Rate \in Nat /\ Unit \in Nat
    BY LimiterAssumption
  <1>2. now \in 0..MaxTime /\ watch[s].from \in 0..MaxTime
        /\ watch[s].spent \in Nat /\ watch[s].from <= now
    BY DEF IInv, TypeOK, TimesPast
  <1>3. CASE ~Tracked(s)
    BY <1>3 DEF IInv, Counts
  <1>4. CASE Tracked(s)
    <2> DEFINE spent  == watch[s].spent * Unit
               sooner == Rate * (bucket[s].updated - watch[s].from)
               later  == Rate * (now - watch[s].from)
    <2>1. bucket[s].updated \in 0..MaxTime /\ bucket[s].tokens \in 0..Burst
          /\ bucket[s].updated <= now
      BY <1>1, <1>4 DEF IInv, TypeOK, TimesPast, Tracked, Bucket
    <2>2. (now - watch[s].from) \in Nat
      BY <1>2
    <2>3. later \in Nat /\ spent \in Nat
      BY <1>1, <1>2, <2>2, MulNat
    <2>4. CASE watch[s].from <= bucket[s].updated
      <3>1. sooner <= later
        BY <1>1, <1>2, <2>1, MulMono
      <3>2. spent + bucket[s].tokens <= Burst + sooner
        BY <1>4, <2>4 DEF IInv, Counts
      <3>3. sooner \in Int
        BY <1>1, <1>2, <2>1
      <3> HIDE DEF spent, sooner, later
      <3> QED
        BY <1>1, <2>1, <2>3, <3>1, <3>2, <3>3 DEF spent, later
    <2>5. CASE ~(watch[s].from <= bucket[s].updated)
      <3>1. watch[s].spent = 0
        BY <1>4, <2>5 DEF IInv, Counts
      <3>2. spent = 0
        BY <1>1, <3>1
      <3> QED
        BY <1>1, <2>3, <3>2
    <2> QED
      BY <2>4, <2>5
  <1> QED
    BY <1>3, <1>4

(* So it holds in every state that is reached.                             *)
LEMMA SpecIInv == Spec => []IInv
  BY InitIInv, NextIInv, PTL DEF Spec

(* Every variable keeps its type: allow() never leaves a bucket with more  *)
(* than self.burst or less than no tokens.                                 *)
THEOREM TypeCorrect == Spec => []TypeOK
  <1>1. IInv => TypeOK
    BY DEF IInv
  <1> QED
    BY <1>1, SpecIInv, PTL

(* However datagrams and evictions interleave, allow() lets through no more*)
(* of a source's datagrams, over any window in which it keeps its bucket,  *)
(* than the burst and the sustained rate.                                  *)
THEOREM WindowBounded == Spec => []WindowBound
  BY SpecIInv, IInvBounds, PTL

-----------------------------------------------------------------------------
(* The order of the table.                                                 *)

Distinct(q) == \A i, j \in DOMAIN q : q[i] = q[j] => i = j

(* move_to_end keeps the others in their order, and every key once.        *)
LEMMA MovedToEndOrder ==
  ASSUME NEW q \in Seq(Sources), Distinct(q), NEW s, NEW at \in DOMAIN q, q[at] = s
  PROVE  /\ DOMAIN MovedToEnd(q, s) = 1..Len(q)
         /\ MovedToEnd(q, s)[Len(q)] = s
         /\ \A i \in 1..(Len(q) - 1) :
                MovedToEnd(q, s)[i] = q[IF i < at THEN i ELSE i + 1]
  <1> DEFINE k == CHOOSE i \in DOMAIN q : q[i] = s
  <1>1. k \in DOMAIN q /\ q[k] = s
    OBVIOUS
  <1>2. k = at
    BY <1>1 DEF Distinct
  <1>3. Len(q) \in Nat /\ DOMAIN q = 1..Len(q)
    OBVIOUS
  <1>4. MovedToEnd(q, s) =
            [i \in 1..Len(q) |->
                IF i < at THEN q[i] ELSE IF i < Len(q) THEN q[i + 1] ELSE s]
    BY <1>2, <1>3 DEF MovedToEnd
  <1> HIDE DEF k
  <1>5. Len(q) \in 1..Len(q)
    BY <1>1, <1>3
  <1>6. MovedToEnd(q, s)[Len(q)] = s
    BY <1>3, <1>4, <1>5
  <1> QED
    BY <1>3, <1>4, <1>6

(* The table a datagram of s leaves, before _evict: s is last, the others  *)
(* keep their order, and no key is lost or doubled.                        *)
LEMMA TouchedOrder ==
  ASSUME TypeOK, TableBounded, LeastRecentFirst, NEW s \in Sources
  PROVE  /\ Touched(s) \in Seq(Sources)
         /\ Distinct(Touched(s))
         /\ Len(Touched(s)) >= 1
         /\ Touched(s)[Len(Touched(s))] = s
         /\ Len(Touched(s)) <= MaxSources + 1
         /\ Tracked(s) => Len(Touched(s)) <= MaxSources
         /\ \A i \in 1..(Len(Touched(s)) - 1) : Tracked(Touched(s)[i])
         /\ \A t \in Sources :
                Tracked(t) => \E i \in 1..Len(Touched(s)) : Touched(s)[i] = t
         /\ \A i, j \in 1..(Len(Touched(s)) - 1) :
                i < j => bucket[Touched(s)[i]].updated <= bucket[Touched(s)[j]].updated
  <1>1. order \in Seq(Sources) /\ Len(order) \in Nat /\ DOMAIN order = 1..Len(order)
        /\ Len(order) <= MaxSources /\ MaxSources \in Nat /\ Distinct(order)
    BY LimiterAssumption DEF TypeOK, TableBounded, Distinct
  <1>2. \A i \in 1..Len(order) : order[i] \in Sources /\ Tracked(order[i])
    BY <1>1 DEF TableBounded
  <1>3. \A i, j \in 1..Len(order) :
            i < j => bucket[order[i]].updated <= bucket[order[j]].updated
    BY <1>1 DEF LeastRecentFirst
  <1>4. \A t \in Sources : Tracked(t) => \E i \in 1..Len(order) : order[i] = t
    BY <1>1 DEF TableBounded
  <1>5. CASE ~Tracked(s)
    <2>1. Touched(s) = Append(order, s)
      BY <1>5 DEF Touched
    <2>2. \A i \in 1..Len(order) : order[i] # s
      BY <1>2, <1>5
    <2>3. /\ Append(order, s) \in Seq(Sources)
          /\ Len(Append(order, s)) = Len(order) + 1
          /\ DOMAIN Append(order, s) = 1..(Len(order) + 1)
          /\ Append(order, s)[Len(order) + 1] = s
          /\ \A i \in 1..Len(order) : Append(order, s)[i] = order[i]
      BY <1>1
    <2>4. Distinct(Append(order, s))
      BY <1>1, <2>2, <2>3 DEF Distinct
    <2> QED
      BY <1>1, <1>2, <1>3, <1>4, <1>5, <2>1, <2>3, <2>4
  <1>6. CASE Tracked(s)
    <2> DEFINE n == Len(order)
               q == MovedToEnd(order, s)
    <2>1. PICK at \in 1..n : order[at] = s
      BY <1>4, <1>6
    <2> DEFINE old(i) == IF i < at THEN i ELSE i + 1
    <2>2. /\ DOMAIN q = 1..n
          /\ q[n] = s
          /\ \A i \in 1..(n - 1) : q[i] = order[old(i)]
      BY <1>1, <2>1, MovedToEndOrder
    <2>3. n \in Nat /\ n >= 1 /\ at \in Nat /\ at <= n
      BY <1>1, <2>1
    <2>4. \A i \in 1..(n - 1) : old(i) \in 1..n /\ old(i) # at
      BY <2>3
    <2>5. \A i, j \in 1..(n - 1) : i < j => old(i) < old(j)
      BY <2>3
    <2>6. \A i, j \in 1..(n - 1) : old(i) = old(j) => i = j
      BY <2>3
    <2>7. \A i \in 1..n : i # at => \E j \in 1..(n - 1) : old(j) = i
      <3> TAKE i \in 1..n
      <3> HAVE i # at
      <3>1. CASE i < at
        <4>1. i \in 1..(n - 1) /\ old(i) = i
          BY <2>3, <3>1
        <4> QED
          BY <4>1
      <3>2. CASE i > at
        <4>1. i - 1 \in 1..(n - 1) /\ old(i - 1) = i
          BY <2>3, <3>2
        <4> QED
          BY <4>1
      <3> QED
        BY <2>3, <3>1, <3>2
    <2> HIDE DEF old, q
    <2>8. Touched(s) = q
      BY <1>6 DEF Touched, q
    <2>9. \A i \in 1..n : q[i] \in Sources
      BY <1>2, <2>2, <2>3, <2>4
    <2>10. q \in Seq(Sources) /\ Len(q) = n
      <3>1. q = [i \in 1..n |-> q[i]]
        BY <2>2, <2>3 DEF q, MovedToEnd
      <3>2. q \in [1..n -> Sources]
        BY <2>9, <3>1
      <3> QED
        BY <2>2, <2>3, <3>2
    <2>11. \A i \in 1..(n - 1) : q[i] # s
      BY <1>1, <2>1, <2>2, <2>4 DEF Distinct
    <2>12. Distinct(q)
      <3> SUFFICES ASSUME NEW i \in 1..n, NEW j \in 1..n, q[i] = q[j]
                   PROVE  i = j
        BY <2>2 DEF Distinct
      <3>1. CASE i = n \/ j = n
        BY <2>2, <2>3, <2>11, <3>1
      <3>2. CASE i # n /\ j # n
        <4>1. i \in 1..(n - 1) /\ j \in 1..(n - 1)
          BY <2>3, <3>2
        <4> QED
          BY <1>1, <2>2, <2>4, <2>6, <4>1 DEF Distinct
      <3> QED
        BY <3>1, <3>2
    <2>13. \A t \in Sources : Tracked(t) => \E i \in 1..n : q[i] = t
      <3> SUFFICES ASSUME NEW t \in Sources, Tracked(t)
                   PROVE  \E i \in 1..n : q[i] = t
        OBVIOUS
      <3>1. PICK k \in 1..n : order[k] = t
        BY <1>4
      <3>2. CASE k = at
        BY <2>1, <2>2, <2>3, <3>1, <3>2
      <3>3. CASE k # at
        <4>1. PICK j \in 1..(n - 1) : old(j) = k
          BY <2>7, <3>3
        <4>2. j \in 1..n /\ q[j] = t
          BY <2>2, <2>3, <3>1, <4>1
        <4> QED
          BY <4>2
      <3> QED
        BY <3>2, <3>3
    <2>14. \A i \in 1..(n - 1) : Tracked(q[i])
      BY <1>2, <2>2, <2>4
    <2>15. \A i, j \in 1..(n - 1) :
               i < j => bucket[q[i]].updated <= bucket[q[j]].updated
      BY <1>3, <2>2, <2>4, <2>5
    <2>16. n <= MaxSources /\ n <= MaxSources + 1
      BY <1>1
    <2> QED
      BY <2>2, <2>3, <2>8, <2>10, <2>12, <2>13, <2>14, <2>15, <2>16
  <1> QED
    BY <1>5, <1>6

(* One datagram, _evict included, keeps the table bounded and in order.    *)
LEMMA TableStep ==
  ASSUME IInv, TableBounded, LeastRecentFirst,
         NEW s \in Sources, NEW b \in Bucket, Put(s, b), b.updated = now
  PROVE  TableBounded' /\ LeastRecentFirst'
  <1> DEFINE T == Touched(s)
             n == Len(T)
  <1>1. /\ T \in Seq(Sources) /\ n \in Nat /\ DOMAIN T = 1..n
        /\ Distinct(T)
        /\ n >= 1 /\ T[n] = s /\ n <= MaxSources + 1
        /\ Tracked(s) => n <= MaxSources
        /\ \A i \in 1..(n - 1) : Tracked(T[i])
        /\ \A t \in Sources : Tracked(t) => \E i \in 1..n : T[i] = t
        /\ \A i, j \in 1..(n - 1) :
               i < j => bucket[T[i]].updated <= bucket[T[j]].updated
    BY TouchedOrder DEF IInv
  <1>2. \A i \in 1..n : T[i] \in Sources
    BY <1>1
  <1>3. MaxSources \in Nat /\ MaxSources >= 1
    BY LimiterAssumption
  <1>4. \A i \in 1..(n - 1) : T[i] # s
    BY <1>1 DEF Distinct
  <1>5. \A t \in Sources : Tracked(t) => bucket[t].updated \in Int
                                        /\ bucket[t].updated <= now
    BY DEF IInv, TypeOK, TimesPast, Tracked, Bucket
  <1>6. now \in Int /\ b # NoBucket
    BY NoBucketIsNone DEF IInv, TypeOK
  <1>7. /\ Evicts(s) <=> ~Tracked(s) /\ n > MaxSources
        /\ order' = IF Evicts(s) THEN Tail(T) ELSE T
        /\ bucket' = [t \in Sources |->
                         IF t = s THEN b
                         ELSE IF Evicts(s) /\ t = T[1] THEN NoBucket
                         ELSE bucket[t]]
    BY <1>1 DEF Put, Evicts, OverFull
  <1>10. \A i, j \in 1..n : T[i] = T[j] => i = j
    BY <1>1 DEF Distinct
  <1> HIDE DEF T, n
  <1>8. CASE ~Evicts(s)
    <2>1. order' = T /\ bucket'[s] = b
          /\ \A t \in Sources : t # s => bucket'[t] = bucket[t]
      BY <1>7, <1>8
    <2>2. Len(order') <= MaxSources
      BY <1>1, <1>3, <1>7, <1>8, <2>1 DEF n
    <2>3. \A t \in Sources : bucket'[t] # NoBucket <=> \E i \in 1..n : T[i] = t
      <3>1. \A t \in Sources : bucket'[t] # NoBucket => \E i \in 1..n : T[i] = t
        <4>1. n \in 1..n /\ T[n] = s
          BY <1>1
        <4> QED
          BY <1>1, <2>1, <4>1 DEF Tracked
      <3>2. \A i \in 1..n : bucket'[T[i]] # NoBucket
        <4>1. \A i \in 1..n : i = n \/ i \in 1..(n - 1)
          BY <1>1
        <4> QED
          BY <1>1, <1>2, <1>6, <2>1, <4>1 DEF Tracked
      <3> QED
        BY <3>1, <3>2
    <2>4. \A i, j \in 1..n : i < j => bucket'[T[i]].updated <= bucket'[T[j]].updated
      <3> SUFFICES ASSUME NEW i \in 1..n, NEW j \in 1..n, i < j
                   PROVE  bucket'[T[i]].updated <= bucket'[T[j]].updated
        OBVIOUS
      <3>1. i \in 1..(n - 1) /\ T[i] \in Sources /\ bucket'[T[i]] = bucket[T[i]]
        BY <1>1, <1>2, <1>4, <2>1
      <3>2. CASE j = n
        BY <1>1, <1>5, <2>1, <3>1, <3>2
      <3>3. CASE j # n
        <4>1. j \in 1..(n - 1) /\ bucket'[T[j]] = bucket[T[j]]
          BY <1>1, <1>2, <1>4, <2>1, <3>3
        <4> QED
          BY <1>1, <3>1, <4>1
      <3> QED
        BY <3>2, <3>3
    <2>5. TableBounded'
      BY <1>1, <1>10, <2>1, <2>2, <2>3 DEF TableBounded, Tracked
    <2> QED
      BY <1>1, <2>1, <2>4, <2>5 DEF LeastRecentFirst
  <1>9. CASE Evicts(s)
    <2>1. n = MaxSources + 1 /\ n >= 2
      BY <1>1, <1>3, <1>7, <1>9
    <2>2. /\ order' = Tail(T) /\ bucket'[s] = b
          /\ \A t \in Sources : t # s /\ t # T[1] => bucket'[t] = bucket[t]
      BY <1>7, <1>9
    <2>3. T[1] # s /\ T[1] \in Sources /\ bucket'[T[1]] = NoBucket
      BY <1>2, <1>4, <1>7, <1>9, <2>1
    <2>4. DOMAIN order' = 1..(n - 1) /\ Len(order') = n - 1
          /\ \A i \in 1..(n - 1) : order'[i] = T[i + 1]
      BY <1>1, <2>1, <2>2 DEF n
    <2>5. \A i, j \in 1..(n - 1) : order'[i] = order'[j] => i = j
      <3> TAKE i, j \in 1..(n - 1)
      <3>1. i + 1 \in 1..n /\ j + 1 \in 1..n
        BY <1>1
      <3>2. order'[i] = T[i + 1] /\ order'[j] = T[j + 1]
        BY <2>4
      <3>3. i + 1 = j + 1 => i = j
        OBVIOUS
      <3> QED
        BY <1>10, <3>1, <3>2, <3>3
    <2>6. \A i \in 1..(n - 1) : order'[i] # T[1]
      <3> TAKE i \in 1..(n - 1)
      <3>1. i + 1 \in 1..n /\ 1 \in 1..n /\ i + 1 # 1
        BY <1>1
      <3>2. order'[i] = T[i + 1]
        BY <2>4
      <3> QED
        BY <1>10, <3>1, <3>2
    <2>7. \A t \in Sources : bucket'[t] # NoBucket <=> \E i \in 1..(n - 1) : order'[i] = t
      <3>1. ASSUME NEW t \in Sources, bucket'[t] # NoBucket
            PROVE  \E i \in 1..(n - 1) : order'[i] = t
        <4>1. t # T[1]
          BY <2>3, <3>1 DEF Tracked
        <4>2. PICK k \in 1..n : T[k] = t
          BY <1>1, <2>2, <3>1, <4>1 DEF Tracked
        <4>3. k - 1 \in 1..(n - 1) /\ k - 1 + 1 = k
          BY <1>1, <4>1, <4>2
        <4> QED
          BY <2>4, <4>2, <4>3
      <3>2. ASSUME NEW i \in 1..(n - 1) PROVE bucket'[order'[i]] # NoBucket
        <4>1. i + 1 \in 1..n /\ order'[i] = T[i + 1] /\ order'[i] \in Sources
          BY <1>1, <1>2, <2>4
        <4>2. CASE i + 1 = n
          BY <1>1, <1>6, <2>2, <4>1, <4>2 DEF Tracked
        <4>3. CASE i + 1 # n
          <5>1. i + 1 \in 1..(n - 1)
            BY <1>1, <4>3
          <5>2. Tracked(T[i + 1]) /\ T[i + 1] # s
            BY <1>1, <1>4, <5>1
          <5> QED
            BY <2>2, <2>6, <4>1, <5>2 DEF Tracked
        <4> QED
          BY <4>2, <4>3
      <3> QED
        BY <3>1, <3>2
    <2>8. ASSUME NEW i \in 1..(n - 1), NEW j \in 1..(n - 1), i < j
          PROVE  bucket'[order'[i]].updated <= bucket'[order'[j]].updated
      <3>1. i + 1 \in 1..(n - 1) /\ order'[i] = T[i + 1] /\ order'[i] \in Sources
            /\ Tracked(T[i + 1])
        BY <1>1, <1>2, <2>4, <2>8
      <3>2. bucket'[order'[i]] = bucket[T[i + 1]]
        BY <1>4, <2>2, <2>6, <3>1
      <3>3. j + 1 \in 1..n /\ i + 1 < j + 1 /\ order'[j] = T[j + 1]
            /\ order'[j] \in Sources
        BY <1>1, <1>2, <2>4, <2>8
      <3>4. CASE j + 1 = n
        BY <1>1, <1>5, <2>2, <3>1, <3>2, <3>3, <3>4
      <3>5. CASE j + 1 # n
        <4>1. j + 1 \in 1..(n - 1)
          BY <1>1, <3>3, <3>5
        <4>2. bucket'[order'[j]] = bucket[T[j + 1]]
          BY <1>4, <2>2, <2>6, <3>3, <4>1
        <4> QED
          BY <1>1, <3>1, <3>2, <3>3, <4>1, <4>2
      <3> QED
        BY <3>4, <3>5
    <2>9. Len(order') <= MaxSources
      BY <1>3, <2>1, <2>4
    <2>10. TableBounded'
      BY <2>4, <2>5, <2>7, <2>9 DEF TableBounded, Tracked
    <2> QED
      BY <2>4, <2>8, <2>10 DEF LeastRecentFirst
  <1> QED
    BY <1>8, <1>9

-----------------------------------------------------------------------------
(* What a datagram leaves in its source's bucket is of this instant.       *)
LEMMA PutOfNow ==
  ASSUME IInv, NEW s \in Sources, Admit(s) \/ Drop(s)
  PROVE  \E b \in Bucket : Put(s, b) /\ b.updated = now
  <1>1. Seen(s) \in Bucket /\ Seen(s).updated = now
    BY SeenBucket DEF IInv
  <1>2. now \in 0..MaxTime /\ Unit \in Nat \ {0} /\ Burst \in Nat
    BY LimiterAssumption DEF IInv, TypeOK
  <1>3. CASE Admit(s)
    <2> DEFINE b == [Seen(s) EXCEPT !.tokens = @ - Unit]
    <2>1. Seen(s).tokens \in 0..Burst /\ Seen(s).tokens >= Unit
      BY <1>1, <1>3 DEF Admit, Admits, Bucket
    <2>2. b \in Bucket /\ b.updated = now
      BY <1>1, <1>2, <2>1 DEF Bucket
    <2> QED
      BY <1>3, <2>2 DEF Admit
  <1>4. CASE Drop(s) /\ Reports(s)
    <2> DEFINE b == [Seen(s) EXCEPT !.dropped = 0, !.reported = now]
    <2>1. b \in Bucket /\ b.updated = now
      BY <1>1, <1>2 DEF Bucket
    <2> QED
      BY <1>4, <2>1 DEF Drop
  <1>5. CASE Drop(s) /\ ~Reports(s)
    <2> DEFINE b == [Seen(s) EXCEPT !.dropped = @ + 1]
    <2>1. Seen(s).dropped + 1 \in Nat
      BY <1>1 DEF Bucket
    <2>2. b \in Bucket /\ b.updated = now
      BY <1>1, <2>1 DEF Bucket
    <2> QED
      BY <1>5, <2>2 DEF Drop
  <1> QED
    BY <1>3, <1>4, <1>5

(* The table never holds more than self.max_sources addresses, lists each  *)
(* source that has a bucket once and no other, and _evict pops a source    *)
(* that no other was seen before: the OrderedDict is in the order of the   *)
(* last datagrams after any sequence of calls.                             *)
THEOREM TableKept == Spec => []LruTable
  <1> DEFINE TInv == TableBounded /\ LeastRecentFirst
  <1>1. Init => TInv
    BY LimiterAssumption DEF Init, TableBounded, LeastRecentFirst, Tracked
  <1>2. IInv /\ TInv /\ [Next]_vars => TInv'
    <2> SUFFICES ASSUME IInv, TInv, [Next]_vars PROVE TInv'
      OBVIOUS
    <2>1. ASSUME NEW s \in Sources, Admit(s) \/ Drop(s) PROVE TInv'
      <3>1. PICK b \in Bucket : Put(s, b) /\ b.updated = now
        BY <2>1, PutOfNow
      <3> QED
        BY <3>1, TableStep
    <2>2. CASE UNCHANGED <<order, bucket>>
      BY <2>2 DEF TableBounded, LeastRecentFirst, Tracked
    <2>3. CASE Tick
      BY <2>2, <2>3 DEF Tick
    <2>4. ASSUME NEW s \in Observed, Watch(s) PROVE TInv'
      BY <2>2, <2>4 DEF Watch
    <2>5. CASE UNCHANGED vars
      BY <2>2, <2>5 DEF vars
    <2> QED
      BY <2>1, <2>3, <2>4, <2>5 DEF Next
  <1>3. TInv => LruTable
    BY DEF LruTable
  <1> QED
    BY <1>1, <1>2, <1>3, SpecIInv, PTL DEF Spec

(* A source that sends less often than its tokens come back is never       *)
(* dropped, whatever the others send and whoever is evicted, if the burst  *)
(* is a whole token at least.                                              *)
THEOREM SlowSourcesPass ==
  ASSUME Burst >= Unit
  PROVE  Spec => SlowSourceNeverDropped
  <1>1. ASSUME IInv, NEW s \in Sources, Drop(s)
        PROVE  Tracked(s) /\ (now - bucket[s].updated) * Rate < Unit
    <2>1. Burst \in Nat /\ Unit \in Nat /\ Rate \in Nat
      BY LimiterAssumption
    <2>2. Seen(s) \in Bucket /\ (~Tracked(s) => Seen(s).tokens = Burst)
      BY <1>1, SeenBucket DEF IInv
    <2>3. Seen(s).tokens \in Nat /\ Seen(s).tokens < Unit
      BY <1>1, <2>1, <2>2 DEF Drop, Admits, Bucket
    <2>4. Tracked(s)
      BY <2>1, <2>2, <2>3
    <2>5. bucket[s] \in Bucket /\ now \in Int
      BY <1>1, <2>4 DEF IInv, TypeOK, Tracked
    <2> DEFINE refill == (now - bucket[s].updated) * Rate
    <2>6. bucket[s].tokens \in Nat /\ refill \in Int
      BY <2>1, <2>5 DEF Bucket
    <2>7. Seen(s).tokens = Capped(bucket[s].tokens + refill)
      BY <2>4, <2>5 DEF Seen, Refilled, Bucket
    <2> HIDE DEF refill
    <2>8. refill < Unit
      BY <2>1, <2>3, <2>6, <2>7 DEF Capped
    <2> QED
      BY <2>4, <2>8 DEF refill
  <1>2. IInv /\ [Next]_vars
            => [\A s \in Sources :
                    Drop(s) => Tracked(s)
                               /\ (now - bucket[s].updated) * Rate < Unit]_vars
    BY <1>1
  <1> QED
    BY <1>2, SpecIInv, PTL DEF Spec, SlowSourceNeverDropped

(* No two log lines about a source are less than REPORT_INTERVAL apart,    *)
(* though the time of the last line is forgotten with an evicted bucket.   *)
THEOREM LinesApart == Spec => OneLinePerInterval
  <1>1. ASSUME IInv, [Next]_vars, NEW s \in Sources, line'[s] # line[s]
        PROVE  line'[s] - line[s] >= ReportInterval
    <2>1. PICK t \in Sources : Drop(t) /\ Reports(t)
      BY <1>1 DEF Next, Tick, Admit, Drop, Watch, vars
    <2>2. line' = [line EXCEPT ![t] = now]
      BY <2>1 DEF Drop
    <2>3. t = s /\ line'[s] = now
      BY <1>1, <2>2 DEF IInv, TypeOK
    <2>4. Seen(s) \in Bucket /\ Seen(s).reported <= now
      BY <1>1, SeenBucket DEF IInv
    <2>5. Seen(s).reported \in Int /\ line[s] \in Int /\ now \in Int
          /\ ReportInterval \in Int
      BY <1>1, <2>4, LimiterAssumption DEF IInv, TypeOK, Never, Bucket
    <2>6. line[s] <= Seen(s).reported
      <3>1. CASE Tracked(s)
        <4>1. Seen(s).reported = bucket[s].reported
          BY <1>1, <3>1 DEF Seen, Refilled, IInv, TypeOK, Tracked, Bucket
        <4> QED
          BY <1>1, <3>1, <4>1 DEF IInv, LinesCovered
      <3>2. CASE ~Tracked(s)
        BY <1>1, <3>2 DEF Seen, Fresh, IInv, TimesPast
      <3> QED
        BY <3>1, <3>2
    <2>7. now - Seen(s).reported >= ReportInterval
      BY <2>1, <2>3 DEF Reports
    <2> QED
      BY <2>3, <2>5, <2>6, <2>7
  <1>2. IInv /\ [Next]_vars
            => [\A s \in Sources :
                    line'[s] # line[s] /\ line[s] # Never
                        => line'[s] - line[s] >= ReportInterval]_vars
    BY <1>1
  <1> QED
    BY <1>2, SpecIInv, PTL DEF Spec, OneLinePerInterval

=============================================================================
