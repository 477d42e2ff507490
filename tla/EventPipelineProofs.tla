------------------------ MODULE EventPipelineProofs ------------------------
(***************************************************************************)
(* Proofs about EventPipeline, for every set of connections, list of       *)
(* servers and sinks, timeout and bound.                                   *)
(***************************************************************************)
EXTENDS EventPipeline, FiniteSetTheorems, SequenceTheorems, TLAPS

-----------------------------------------------------------------------------
(* The search of add_event for a free millisecond.                         *)

(* A set of natural numbers that is not empty has a least element.         *)
LEMMA LeastNat ==
  ASSUME NEW S \in SUBSET Nat, S # {}
  PROVE  \E m \in S : \A k \in S : m <= k
  <1>1. PICK m \in S : \A k \in S : ~ (<<k, m>> \in OpToRel(<, Nat))
    BY NatLessThanWellFounded, WFMin
  <1>2. \A k \in S : ~ (k < m)
    BY <1>1 DEF OpToRel
  <1> QED
    BY <1>2

(* `while elapse_ms in self.data: elapse_ms += 1` ends, on the first free  *)
(* millisecond at or after the elapsed one.                                *)
LEMMA FreeKeyIsFree ==
  ASSUME NEW data \in SUBSET Int, IsFiniteSet(data), NEW k \in Int
  PROVE  /\ FreeKey(data, k) \in Int
         /\ FreeKey(data, k) >= k
         /\ FreeKey(data, k) \notin data
         /\ \A j \in k..(FreeKey(data, k) - 1) : j \in data
  <1> DEFINE top  == k + Cardinality(data)
             free == {d \in 0..Cardinality(data) : k + d \notin data}
  <1>1. Cardinality(data) \in Nat
    BY FS_CardinalityType
  <1>2. top \in Int /\ IsFiniteSet(k..top) /\ Cardinality(k..top) = Cardinality(data) + 1
    <2>1. top \in Int /\ k <= top
      BY <1>1
    <2> HIDE DEF top
    <2>2. IsFiniteSet(k..top) /\ Cardinality(k..top) = top - k + 1
      BY <2>1, FS_Interval
    <2>3. top - k + 1 = Cardinality(data) + 1
      BY <1>1 DEF top
    <2> QED
      BY <2>1, <2>2, <2>3
  <1>3. ~ (k..top \subseteq data)
    BY <1>1, <1>2, FS_Subset
  <1>4. free # {}
    <2>1. PICK m \in k..top : m \notin data
      BY <1>3
    <2>2. m - k \in 0..Cardinality(data) /\ k + (m - k) = m
      BY <1>1, <2>1
    <2> QED
      BY <2>1, <2>2
  <1>5. PICK d \in free : \A e \in free : d <= e
    <2>1. free \in SUBSET Nat
      BY <1>1
    <2> QED
      BY <1>4, <2>1, LeastNat
  <1>6. /\ k + d \in k..top
        /\ k + d \notin data
        /\ \A j \in k..(k + d - 1) : j \in data
    <2>1. ASSUME NEW j \in k..(k + d - 1), j \notin data PROVE FALSE
      <3>1. j - k \in 0..Cardinality(data) /\ k + (j - k) = j /\ j - k < d
        BY <1>1, <2>1
      <3>2. j - k \in free
        BY <2>1, <3>1
      <3> QED
        BY <1>1, <1>5, <3>1, <3>2
    <2> QED
      BY <1>1, <2>1
  <1> DEFINE m == CHOOSE m \in k..top : /\ m \notin data
                                        /\ \A j \in k..(m - 1) : j \in data
  <1>7. m \in k..top /\ m \notin data /\ \A j \in k..(m - 1) : j \in data
    BY <1>6
  <1>8. FreeKey(data, k) = m
    BY DEF FreeKey
  <1> HIDE DEF m
  <1> QED
    BY <1>2, <1>7, <1>8

-----------------------------------------------------------------------------
(* The inductive invariant of delivery.                                    *)

(* What is true of every session r: an event has a key of its own, and the *)
(* first free one was found from its time on.  So from the latest time of  *)
(* an event on, the keys have no gap, and one of them is there or later.   *)
SoundSession(r) ==
    /\ IsFiniteSet(r.data)
    /\ Cardinality(r.data) = r.events
    /\ \A k \in r.data : \A j \in (r.touched - r.start)..k : j \in r.data
    /\ IF r.data = {} THEN r.touched = r.start
                      ELSE \E k \in r.data : k >= r.touched - r.start

Sound == \A s \in DOMAIN sess : SoundSession(sess[s])

(* What is in the queue and in the worker's hand are this process's latest *)
(* events, in order.                                                       *)
InFlight ==
    /\ Len(queue) <= made - base
    /\ \A i \in DOMAIN queue : queue[i] = made - Len(queue) + i
    /\ pc = "publish" => hand = made - Len(queue) /\ hand > base

Awaits(k) == pc = "publish" /\ \E i \in at..Len(Sinks) : Sinks[i] = k

(* The last event that left the worker's hand towards sink k.              *)
Done(k) == made - Len(queue) - IF Awaits(k) THEN 1 ELSE 0

(* Sink k was given events in order, up to Done(k), and all of this        *)
(* process's up to it.                                                     *)
Given(k) ==
    /\ \A i, j \in DOMAIN logged[k] : i < j => logged[k][i] < logged[k][j]
    /\ \A i \in DOMAIN logged[k] : logged[k][i] <= Done(k)
    /\ \A n \in (base + 1)..Done(k) : \E i \in DOMAIN logged[k] : logged[k][i] = n

(* The inductive invariant.                                                *)
IInv ==
    /\ TypeOK
    /\ Sound
    /\ InFlight
    /\ \A k \in SinkSet : Given(k)

-----------------------------------------------------------------------------
(* What add_event makes of a sound session is sound, and if the clock reads*)
(* no less than at any of its events, the new key is above all the others. *)
LEMMA RecordedSound ==
  ASSUME TypeOK, NEW r \in Session, SoundSession(r)
  PROVE  LET key == FreeKey(r.data, now - r.start)
         IN  /\ Recorded(r, key) \in Session
             /\ SoundSession(Recorded(r, key))
             /\ now >= r.touched => \A k \in r.data : k < key
             /\ Recorded(r, key).data = r.data \cup {key}
  <1> DEFINE key == FreeKey(r.data, now - r.start)
             new == Recorded(r, key)
  <1>1. now \in 0..MaxTime /\ MaxTime \in Nat /\ now \in Int
    BY ClockAssumption DEF TypeOK
  <1>2. /\ r.data \in SUBSET Int /\ r.start \in 0..MaxTime /\ r.touched \in 0..MaxTime
        /\ r.events \in Nat /\ r.key \in {Key(c) : c \in Conns}
    BY DEF Session
  <1>3. r.start \in Int /\ r.touched \in Int /\ now - r.start \in Int
    BY <1>1, <1>2
  <1>4. IsFiniteSet(r.data)
    BY DEF SoundSession
  <1>5. /\ key \in Int /\ key >= now - r.start /\ key \notin r.data
        /\ \A j \in (now - r.start)..(key - 1) : j \in r.data
    BY <1>2, <1>3, <1>4, FreeKeyIsFree
  <1> HIDE DEF key
  <1>6. new = [key |-> r.key, start |-> r.start, data |-> r.data \cup {key},
               events |-> r.events + 1,
               touched |-> IF r.data # {} /\ now < r.touched THEN r.touched ELSE now]
    BY DEF Recorded
  <1> HIDE DEF new
  <1>7. /\ new.start = r.start /\ new.data = r.data \cup {key}
        /\ new.events = r.events + 1
        /\ new.touched = IF r.data # {} /\ now < r.touched THEN r.touched ELSE now
    BY <1>6
  <1>8. new \in Session
    <2>1. (IF r.data # {} /\ now < r.touched THEN r.touched ELSE now) \in 0..MaxTime
      BY <1>1, <1>2
    <2>2. r.data \cup {key} \in SUBSET Int /\ r.events + 1 \in Nat
      BY <1>2, <1>5
    <2> QED
      BY <1>2, <1>6, <2>1, <2>2 DEF Session
  <1>9. now >= r.touched => \A k \in r.data : k < key
    <2> SUFFICES ASSUME now >= r.touched, NEW k \in r.data, ~(k < key) PROVE FALSE
      OBVIOUS
    <2>1. k \in Int /\ key \in (r.touched - r.start)..k
      BY <1>1, <1>2, <1>3, <1>5
    <2> QED
      BY <1>5, <2>1 DEF SoundSession
  <1>10. IsFiniteSet(new.data) /\ Cardinality(new.data) = new.events
    <2>1. IsFiniteSet(r.data \cup {key})
          /\ Cardinality(r.data \cup {key}) = Cardinality(r.data) + 1
      BY <1>4, <1>5, FS_AddElement
    <2> QED
      BY <1>7, <2>1 DEF SoundSession
  <1>11. \E k \in new.data : k >= new.touched - new.start
    <2>1. CASE r.data # {} /\ now < r.touched
      BY <1>7, <2>1 DEF SoundSession
    <2>2. CASE ~(r.data # {} /\ now < r.touched)
      BY <1>5, <1>7, <2>2
    <2> QED
      BY <2>1, <2>2
  <1>12. ASSUME NEW k \in new.data, NEW j \in (new.touched - new.start)..k
         PROVE  j \in new.data
    <2>1. /\ new.touched \in Int /\ new.touched >= now
          /\ r.data # {} => new.touched >= r.touched
      BY <1>1, <1>3, <1>7
    <2>2. k \in Int /\ j \in Int /\ j <= k /\ j >= new.touched - r.start
      BY <1>2, <1>3, <1>5, <1>7, <2>1
    <2>3. CASE k \in r.data
      <3>1. j >= r.touched - r.start
        BY <1>3, <2>1, <2>2, <2>3
      <3>2. j \in (r.touched - r.start)..k
        BY <1>3, <2>2, <3>1
      <3> QED
        BY <1>7, <2>3, <3>2 DEF SoundSession
    <2>4. CASE k = key
      <3>1. j = key \/ j \in (now - r.start)..(key - 1)
        BY <1>1, <1>3, <1>5, <2>1, <2>2, <2>4
      <3> QED
        BY <1>5, <1>7, <3>1
    <2> QED
      BY <1>7, <2>3, <2>4
  <1>13. new.data # {}
    BY <1>7
  <1> QED
    BY <1>7, <1>8, <1>9, <1>10, <1>11, <1>12, <1>13 DEF SoundSession, key, new

(* A session that was just made is sound.                                  *)
LEMMA NewSound ==
  ASSUME TypeOK, NEW c \in Conns
  PROVE  NewSession(c) \in Session /\ SoundSession(NewSession(c))
  <1> DEFINE r == NewSession(c)
  <1>1. /\ r.data = {} /\ r.events = 0 /\ r.start = now /\ r.touched = now
        /\ r \in Session
    BY DEF NewSession, Session, TypeOK
  <1> HIDE DEF r
  <1>2. IsFiniteSet({}) /\ Cardinality({}) = 0
    BY FS_EmptySet
  <1>3. SoundSession(r)
    BY <1>1, <1>2 DEF SoundSession
  <1> QED
    BY <1>1, <1>3 DEF r

(* What touches neither the events in flight nor a session's soundness.    *)
LEMMA QuietStep ==
  ASSUME IInv, TypeOK', Sound',
         UNCHANGED <<queue, hand, at, logged, made, base>>,
         pc' = "publish" <=> pc = "publish"
  PROVE  IInv'
  <1>1. InFlight'
    BY DEF IInv, InFlight
  <1>2. ASSUME NEW k \in SinkSet PROVE Given(k)'
    <2>1. Awaits(k)' <=> Awaits(k)
      BY DEF Awaits
    <2>2. Done(k)' = Done(k)
      BY <2>1 DEF Done
    <2> QED
      BY <2>2 DEF IInv, Given
  <1> QED
    BY <1>1, <1>2 DEF IInv

(* An event recorded on a session of table t, which is the old table or    *)
(* one with a new session, keeps the invariant.                            *)
LEMMA AddEventStep ==
  ASSUME IInv, NEW t \in Seq(Session),
         \A r \in DOMAIN t : SoundSession(t[r]),
         NEW s \in DOMAIN t, AddEvent(t, s), made < MaxEvents,
         sessions' \subseteq DOMAIN t,
         held' \in [Conns -> DOMAIN t \cup {NoSession}],
         UNCHANGED <<now, worker, main, up, crashes, logged, base>>
  PROVE  IInv'
  <1> DEFINE key == FreeKey(t[s].data, now - t[s].start)
             new == Recorded(t[s], key)
  <1>1. TypeOK /\ DOMAIN t = 1..Len(t) /\ t[s] \in Session
    BY DEF IInv
  <1>2. /\ sess' = [t EXCEPT ![s] = new]
        /\ made' = made + 1 /\ queue' = Append(queue, made + 1)
    BY DEF AddEvent
  <1>3. new \in Session /\ SoundSession(new)
    BY <1>1, RecordedSound
  <1> HIDE DEF new, key
  <1>4. sess' \in Seq(Session) /\ DOMAIN sess' = DOMAIN t /\ sess'[s] = new
        /\ \A r \in DOMAIN t : r # s => sess'[r] = t[r]
    BY <1>1, <1>2, <1>3
  <1>5. Sound'
    BY <1>3, <1>4 DEF Sound
  <1>6. MaxEvents \in Nat
    BY ClockAssumption
  <1>7. /\ made \in 0..MaxEvents /\ made \in Nat /\ base \in 0..made
        /\ queue \in Seq(Events) /\ Len(queue) \in Nat
    BY <1>1, <1>6 DEF TypeOK
  <1>8. made + 1 \in Events
    BY <1>6, <1>7 DEF Events
  <1>9. /\ queue' \in Seq(Events) /\ Len(queue') = Len(queue) + 1
        /\ DOMAIN queue' = 1..(Len(queue) + 1)
        /\ \A i \in 1..Len(queue) : queue'[i] = queue[i]
        /\ queue'[Len(queue) + 1] = made + 1
    BY <1>2, <1>7, <1>8
  <1>10. TypeOK'
    <2>1. made' \in 0..MaxEvents /\ base' \in 0..made'
      BY <1>2, <1>6, <1>7
    <2>2. sessions' \subseteq DOMAIN sess'
          /\ held' \in [Conns -> DOMAIN sess' \cup {NoSession}]
      BY <1>4
    <2> QED
      BY <1>1, <1>4, <1>9, <2>1, <2>2 DEF TypeOK, worker, main
  <1>11. InFlight'
    <2>1. DOMAIN queue = 1..Len(queue)
      BY <1>7
    <2>2. \A i \in 1..(Len(queue) + 1) : queue'[i] = made' - Len(queue') + i
      <3> DEFINE q == Len(queue)
      <3>1. \A i \in 1..q : queue[i] = made - q + i
        BY <2>1 DEF IInv, InFlight
      <3>2. /\ q \in Nat /\ made \in Nat
            /\ made' = made + 1 /\ Len(queue') = q + 1
            /\ \A i \in 1..q : queue'[i] = queue[i]
            /\ queue'[q + 1] = made + 1
        BY <1>2, <1>7, <1>9
      <3> HIDE DEF q
      <3>3. \A i \in 1..q : queue'[i] = made - q + i
        BY <3>1, <3>2
      <3>4. \A i \in 1..q : made - q + i = (made + 1) - (q + 1) + i
        BY <3>2
      <3>5. made + 1 = (made + 1) - (q + 1) + (q + 1)
        BY <3>2
      <3>6. \A i \in 1..(q + 1) : i \in 1..q \/ i = q + 1
        BY <3>2
      <3> QED
        BY <3>2, <3>3, <3>4, <3>5, <3>6 DEF q
    <2>3. Len(queue') <= made' - base'
      <3>1. Len(queue) <= made - base /\ base' = base
        BY DEF IInv, InFlight
      <3> QED
        BY <1>2, <1>7, <1>9, <3>1
    <2>4. pc' = "publish" => hand' = made' - Len(queue') /\ hand' > base'
      <3>1. /\ pc = "publish" => hand = made - Len(queue) /\ hand > base
            /\ pc' = pc /\ hand' = hand /\ base' = base
        BY DEF IInv, InFlight, worker
      <3>2. made' - Len(queue') = made - Len(queue)
        BY <1>2, <1>7, <1>9
      <3> QED
        BY <3>1, <3>2
    <2>5. DOMAIN queue' = 1..(Len(queue) + 1)
      BY <1>9
    <2> QED
      BY <2>2, <2>3, <2>4, <2>5 DEF InFlight
  <1>12. ASSUME NEW k \in SinkSet PROVE Given(k)'
    <2>1. Awaits(k)' <=> Awaits(k)
      BY DEF Awaits, worker
    <2>2. Done(k)' = Done(k)
      BY <1>2, <1>7, <1>9, <2>1 DEF Done
    <2> QED
      BY <2>2 DEF IInv, Given
  <1> QED
    BY <1>5, <1>10, <1>11, <1>12 DEF IInv

(* What get_session gives a handler: a session of the list, or a new one   *)
(* after all the others.                                                   *)
LEMMA OpenTable ==
  ASSUME IInv, NEW c \in Conns, Open(c)
  PROVE  \E t \in Seq(Session) : \E s \in DOMAIN t :
            /\ \A r \in DOMAIN t : SoundSession(t[r])
            /\ DOMAIN sess \subseteq DOMAIN t
            /\ \A r \in DOMAIN sess : t[r] = sess[r]
            /\ sessions' \subseteq DOMAIN t
            /\ held' \in [Conns -> DOMAIN t \cup {NoSession}]
            /\ IF ProtoOf[c] \in Quiet THEN sess' = t /\ UNCHANGED <<made, queue>>
                                       ELSE AddEvent(t, s)
  <1> DEFINE found == FindSession(c)
             new   == NewSession(c)
  <1>1. TypeOK /\ sess \in Seq(Session) /\ Len(sess) \in Nat
        /\ DOMAIN sess = 1..Len(sess) /\ sessions \subseteq DOMAIN sess /\ Sound
        /\ held \in [Conns -> DOMAIN sess \cup {NoSession}]
    BY DEF IInv, TypeOK
  <1>2. CASE found = {}
    <2> DEFINE s == Len(sess) + 1
               t == Append(sess, new)
    <2>1. new \in Session /\ SoundSession(new)
      BY <1>1, NewSound
    <2>2. /\ sessions' = sessions \cup {s} /\ held' = [held EXCEPT ![c] = s]
          /\ IF ProtoOf[c] \in Quiet THEN sess' = t /\ UNCHANGED <<made, queue>>
                                     ELSE AddEvent(t, s)
      BY <1>2 DEF Open
    <2> HIDE DEF new
    <2>3. t \in Seq(Session) /\ DOMAIN t = 1..s /\ t[s] = new
          /\ \A r \in DOMAIN sess : t[r] = sess[r]
      BY <1>1, <2>1
    <2>4. s \in DOMAIN t /\ DOMAIN sess \subseteq DOMAIN t
          /\ \A r \in DOMAIN t : r \in DOMAIN sess \/ r = s
      BY <1>1, <2>3
    <2>5. \A r \in DOMAIN t : SoundSession(t[r])
      BY <1>1, <2>1, <2>3, <2>4 DEF Sound
    <2> HIDE DEF t, s
    <2>6. sessions' \subseteq DOMAIN t
          /\ held' \in [Conns -> DOMAIN t \cup {NoSession}]
      BY <1>1, <2>2, <2>4
    <2> QED
      BY <2>2, <2>3, <2>4, <2>5, <2>6
  <1>3. CASE found # {}
    <2> DEFINE s == Min(found)
    <2>1. found \subseteq sessions /\ found \in SUBSET Nat
      BY <1>1 DEF FindSession
    <2>2. s \in found
      <3>1. \E m \in found : \A k \in found : m <= k
        BY <1>3, <2>1, LeastNat
      <3> QED
        BY <3>1 DEF Min
    <2>3. /\ sessions' = sessions \cup {s} /\ held' = [held EXCEPT ![c] = s]
          /\ IF ProtoOf[c] \in Quiet THEN sess' = sess /\ UNCHANGED <<made, queue>>
                                     ELSE AddEvent(sess, s)
      BY <1>3 DEF Open
    <2> HIDE DEF s, found
    <2>4. s \in sessions /\ s \in DOMAIN sess
      BY <1>1, <2>1, <2>2
    <2>5. sessions' \subseteq DOMAIN sess
          /\ held' \in [Conns -> DOMAIN sess \cup {NoSession}]
      BY <1>1, <2>3, <2>4
    <2>6. \A r \in DOMAIN sess : SoundSession(sess[r])
      BY <1>1 DEF Sound
    <2> QED
      BY <1>1, <2>3, <2>4, <2>5, <2>6
  <1> QED
    BY <1>2, <1>3

(* The start of a handler keeps the invariant.                             *)
LEMMA OpenStep ==
  ASSUME IInv, NEW c \in Conns, Open(c)
  PROVE  IInv'
  <1>1. PICK t \in Seq(Session) : \E s \in DOMAIN t :
            /\ \A r \in DOMAIN t : SoundSession(t[r])
            /\ DOMAIN sess \subseteq DOMAIN t
            /\ \A r \in DOMAIN sess : t[r] = sess[r]
            /\ sessions' \subseteq DOMAIN t
            /\ held' \in [Conns -> DOMAIN t \cup {NoSession}]
            /\ IF ProtoOf[c] \in Quiet THEN sess' = t /\ UNCHANGED <<made, queue>>
                                       ELSE AddEvent(t, s)
    BY OpenTable
  <1>2. PICK s \in DOMAIN t :
            /\ \A r \in DOMAIN t : SoundSession(t[r])
            /\ sessions' \subseteq DOMAIN t
            /\ held' \in [Conns -> DOMAIN t \cup {NoSession}]
            /\ IF ProtoOf[c] \in Quiet THEN sess' = t /\ UNCHANGED <<made, queue>>
                                       ELSE AddEvent(t, s)
    BY <1>1
  <1>3. made < MaxEvents /\ UNCHANGED <<now, worker, main, up, crashes, logged, base>>
    BY DEF Open
  <1>4. CASE ProtoOf[c] \in Quiet
    <2>1. sess' = t /\ UNCHANGED <<made, queue>>
      BY <1>2, <1>4
    <2>2. Sound'
      BY <1>2, <2>1 DEF Sound
    <2>3. UNCHANGED <<now, pc, hand, at, enabled, server, stopAt, up, crashes,
                      logged, made, base, queue>>
      BY <1>3, <2>1 DEF worker, main
    <2>4. TypeOK'
      BY <1>2, <2>1, <2>3 DEF IInv, TypeOK
    <2> QED
      BY <2>2, <2>3, <2>4, QuietStep
  <1>5. CASE ProtoOf[c] \notin Quiet
    BY <1>2, <1>3, <1>5, AddEventStep
  <1> QED
    BY <1>4, <1>5

(* An exchange or the end of a handler keeps the invariant.                *)
LEMMA HandlerStep ==
  ASSUME IInv, NEW c \in Conns, Activity(c) \/ Close(c)
  PROVE  IInv'
  <1>1. sess \in Seq(Session) /\ sessions \subseteq DOMAIN sess /\ Sound
        /\ held \in [Conns -> DOMAIN sess \cup {NoSession}]
    BY DEF IInv, TypeOK
  <1>2. held[c] \in DOMAIN sess /\ made < MaxEvents /\ sessions' = sessions
        /\ UNCHANGED <<now, worker, main, up, crashes, logged, base>>
        /\ AddEvent(sess, held[c])
    BY <1>1 DEF Activity, Close
  <1>3. held' \in [Conns -> DOMAIN sess \cup {NoSession}]
    BY <1>1 DEF Activity, Close
  <1> QED
    BY <1>1, <1>2, <1>3, AddEventStep DEF Sound

-----------------------------------------------------------------------------
(* The worker's steps.                                                     *)

(* Where the worker stands after Serve.                                    *)
LEMMA Served ==
  ASSUME NEW i \in Nat \ {0}, NEW n \in Events, Serve(i, n)
  PROVE  /\ pc' \in {"publish", "loop"}
         /\ pc' = "publish" <=> i \in DOMAIN Sinks
         /\ pc' = "publish" => hand' = n /\ at' = i
         /\ pc' # "publish" => hand' = 0 /\ at' = 0
         /\ \A k \in SinkSet : Awaits(k)' <=> \E j \in DOMAIN Sinks :
                                                  j >= i /\ Sinks[j] = k
  <1>1. Len(Sinks) \in Nat /\ DOMAIN Sinks = 1..Len(Sinks)
    BY SinksAssumption
  <1>2. CASE i <= Len(Sinks)
    BY <1>1, <1>2 DEF Serve, Awaits
  <1>3. CASE ~(i <= Len(Sinks))
    BY <1>1, <1>3 DEF Serve, Awaits
  <1> QED
    BY <1>2, <1>3

(* log_queue.get keeps the invariant: the event is in hand now.            *)
LEMMA TakeStep ==
  ASSUME IInv, Take
  PROVE  IInv'
  <1>1. /\ queue \in Seq(Events) /\ Len(queue) \in Nat /\ DOMAIN queue = 1..Len(queue)
        /\ queue # <<>> /\ queue' = Tail(queue) /\ pc # "publish"
        /\ made \in Nat /\ base \in 0..made
        /\ Serve(1, Head(queue))
        /\ UNCHANGED <<now, sessions, sess, held, enabled, main, up, crashes,
                       logged, made, base>>
    BY DEF IInv, TypeOK, Take
  <1>2. /\ Head(queue) \in Events /\ Head(queue) = queue[1]
        /\ queue' \in Seq(Events) /\ Len(queue') = Len(queue) - 1
        /\ Len(queue) >= 1 /\ DOMAIN queue' = 1..(Len(queue) - 1)
        /\ \A i \in 1..(Len(queue) - 1) : queue'[i] = queue[i + 1]
    BY <1>1
  <1>3. /\ pc' \in {"publish", "loop"}
        /\ pc' = "publish" <=> 1 \in DOMAIN Sinks
        /\ pc' = "publish" => hand' = Head(queue) /\ at' = 1
        /\ pc' # "publish" => hand' = 0 /\ at' = 0
        /\ \A k \in SinkSet : Awaits(k)' <=> \E j \in DOMAIN Sinks :
                                                 j >= 1 /\ Sinks[j] = k
    BY <1>1, <1>2, Served
  <1>4. TypeOK'
    BY <1>1, <1>2, <1>3 DEF IInv, TypeOK, main
  <1>5. Sound'
    BY <1>1 DEF IInv, Sound
  <1>6. Len(queue) <= made - base
        /\ \A i \in 1..Len(queue) : queue[i] = made - Len(queue) + i
    BY <1>1 DEF IInv, InFlight
  <1>7. InFlight'
    <2>1. \A i \in 1..(Len(queue) - 1) : queue'[i] = made - Len(queue') + i
      <3> TAKE i \in 1..(Len(queue) - 1)
      <3>1. i + 1 \in 1..Len(queue)
        BY <1>1
      <3>2. queue[i + 1] = made - Len(queue) + (i + 1)
        BY <1>6, <3>1
      <3>3. queue'[i] = queue[i + 1]
        BY <1>2
      <3>4. /\ made \in Nat /\ Len(queue) \in Nat
            /\ Len(queue') = Len(queue) - 1
        BY <1>1, <1>2
      <3> QED
        BY <3>2, <3>3, <3>4
    <2>2. pc' = "publish" => hand' = made - Len(queue') /\ hand' > base
      <3> SUFFICES ASSUME pc' = "publish"
                   PROVE  hand' = made - Len(queue') /\ hand' > base
        OBVIOUS
      <3>1. hand' = queue[1]
        BY <1>2, <1>3
      <3>2. queue[1] = made - Len(queue) + 1
        BY <1>1, <1>2, <1>6
      <3>3. /\ made \in Nat /\ base \in Nat /\ Len(queue) \in Nat
            /\ Len(queue') = Len(queue) - 1 /\ Len(queue) <= made - base
        BY <1>1, <1>2, <1>6
      <3> QED
        BY <3>1, <3>2, <3>3
    <2>3. Len(queue') <= made - base
      BY <1>1, <1>2, <1>6
    <2> QED
      BY <1>1, <1>2, <2>1, <2>2, <2>3 DEF InFlight
  <1>8. ASSUME NEW k \in SinkSet PROVE Given(k)'
    <2>1. ~Awaits(k)
      BY <1>1 DEF Awaits
    <2>2. Awaits(k)'
      <3>1. PICK j \in DOMAIN Sinks : Sinks[j] = k
        BY DEF SinkSet, ToSet
      <3>2. DOMAIN Sinks = 1..Len(Sinks)
        BY SinksAssumption
      <3>3. j >= 1
        BY <3>1, <3>2, SinksAssumption
      <3> QED
        BY <1>3, <3>1, <3>3
    <2>3. Done(k)' = Done(k)
      BY <1>1, <1>2, <2>1, <2>2 DEF Done
    <2> QED
      BY <1>1, <2>3 DEF IInv, Given
  <1> QED
    BY <1>4, <1>5, <1>7, <1>8 DEF IInv

(* A sequence of events is one of numbers.                                 *)
LEMMA EventSeq ==
  ASSUME NEW L \in Seq(Events)
  PROVE  /\ Len(L) \in Nat /\ DOMAIN L = 1..Len(L)
         /\ \A i \in DOMAIN L : L[i] \in Events /\ L[i] \in Int
  <1>1. \A i \in 1..Len(L) : L[i] \in Events
    BY ElementOfSeq
  <1> QED
    BY <1>1 DEF Events

(* Giving the event in hand to one sink keeps the invariant.               *)
LEMMA PublishStep ==
  ASSUME IInv, Publish
  PROVE  IInv'
  <1>1. /\ Len(queue) \in Nat /\ made \in Nat /\ base \in 0..made
        /\ pc = "publish" /\ hand \in Events /\ at \in DOMAIN Sinks
        /\ logged \in [SinkSet -> Seq(Events)]
        /\ logged' = [logged EXCEPT ![Sinks[at]] = Append(@, hand)]
        /\ Serve(at + 1, hand)
        /\ UNCHANGED <<now, sessions, sess, held, queue, enabled, main, up,
                       crashes, made, base>>
    BY DEF IInv, TypeOK, Publish, NextSink
  <1>2. DOMAIN Sinks = 1..Len(Sinks) /\ Len(Sinks) \in Nat
        /\ \A i, j \in DOMAIN Sinks : Sinks[i] = Sinks[j] => i = j
    BY SinksAssumption
  <1>3. /\ pc' \in {"publish", "loop"}
        /\ pc' = "publish" <=> at + 1 \in DOMAIN Sinks
        /\ pc' = "publish" => hand' = hand /\ at' = at + 1
        /\ pc' # "publish" => hand' = 0 /\ at' = 0
        /\ \A k \in SinkSet : Awaits(k)' <=> \E j \in DOMAIN Sinks :
                                                 j >= at + 1 /\ Sinks[j] = k
    <2>1. at + 1 \in Nat \ {0}
      BY <1>1, <1>2
    <2> QED
      BY <1>1, <2>1, Served
  <1>4. hand = made - Len(queue) /\ hand > base
    BY <1>1 DEF IInv, InFlight
  <1>5. Sinks[at] \in SinkSet
    BY <1>1 DEF SinkSet, ToSet
  <1>6. /\ logged' \in [SinkSet -> Seq(Events)]
        /\ logged'[Sinks[at]] = Append(logged[Sinks[at]], hand)
        /\ \A k \in SinkSet : k # Sinks[at] => logged'[k] = logged[k]
    BY <1>1, <1>5
  <1>7. TypeOK'
    BY <1>1, <1>3, <1>6 DEF IInv, TypeOK, main
  <1>8. Sound'
    BY <1>1 DEF IInv, Sound
  <1>9. InFlight'
    BY <1>1, <1>3 DEF IInv, InFlight
  <1>10. ASSUME NEW k \in SinkSet, k # Sinks[at] PROVE Given(k)'
    <2>1. Awaits(k) <=> \E j \in at..Len(Sinks) : Sinks[j] = k
      BY <1>1 DEF Awaits
    <2>2. Awaits(k)' <=> Awaits(k)
      BY <1>1, <1>2, <1>3, <1>10, <2>1
    <2>3. Done(k)' = Done(k)
      BY <1>1, <2>2 DEF Done
    <2> QED
      BY <1>1, <1>6, <1>10, <2>3 DEF IInv, Given
  <1>11. ASSUME NEW k \in SinkSet, k = Sinks[at] PROVE Given(k)'
    <2>1. Awaits(k)
      BY <1>1, <1>2, <1>11 DEF Awaits
    <2>2. ~Awaits(k)'
      <3>1. \A j \in DOMAIN Sinks : Sinks[j] = k => j = at
        BY <1>1, <1>2, <1>11
      <3>2. ~(at >= at + 1)
        BY <1>1, <1>2
      <3> QED
        BY <1>3, <3>1, <3>2
    <2>3. Done(k) = hand - 1 /\ Done(k)' = hand
      <3>1. hand \in Int
        BY <1>1 DEF Events
      <3> QED
        BY <1>1, <1>4, <2>1, <2>2, <3>1 DEF Done
    <2> DEFINE L == logged[k]
    <2>4. L \in Seq(Events) /\ Len(L) \in Nat /\ DOMAIN L = 1..Len(L)
          /\ \A i \in 1..Len(L) : L[i] \in Int
      BY <1>1, EventSeq
    <2>5. /\ \A i, j \in 1..Len(L) : i < j => L[i] < L[j]
          /\ \A i \in 1..Len(L) : L[i] <= hand - 1
          /\ \A n \in (base + 1)..(hand - 1) : \E i \in 1..Len(L) : L[i] = n
      BY <2>3, <2>4 DEF IInv, Given
    <2>6. /\ DOMAIN logged'[k] = 1..(Len(L) + 1)
          /\ \A i \in 1..Len(L) : logged'[k][i] = L[i]
          /\ logged'[k][Len(L) + 1] = hand
      BY <1>1, <1>6, <1>11, <2>4
    <2>7. hand \in Int /\ base' = base
      BY <1>1 DEF Events
    <2> HIDE DEF L
    <2>8. \A i, j \in 1..(Len(L) + 1) : i < j => logged'[k][i] < logged'[k][j]
      <3> TAKE i, j \in 1..(Len(L) + 1)
      <3> HAVE i < j
      <3>1. i \in 1..Len(L)
        BY <2>4
      <3>2. CASE j \in 1..Len(L)
        BY <2>5, <2>6, <3>1, <3>2
      <3>3. CASE j = Len(L) + 1
        <4>1. logged'[k][i] = L[i] /\ L[i] <= hand - 1 /\ L[i] \in Int
          BY <2>4, <2>5, <2>6, <3>1
        <4>2. logged'[k][j] = hand
          BY <2>6, <3>3
        <4> QED
          BY <2>7, <4>1, <4>2
      <3> QED
        BY <2>4, <3>2, <3>3
    <2>9. \A i \in 1..(Len(L) + 1) : logged'[k][i] <= hand
      <3> TAKE i \in 1..(Len(L) + 1)
      <3>1. CASE i \in 1..Len(L)
        <4>1. logged'[k][i] = L[i] /\ L[i] <= hand - 1 /\ L[i] \in Int
          BY <2>4, <2>5, <2>6, <3>1
        <4> QED
          BY <2>7, <4>1
      <3>2. CASE i = Len(L) + 1
        BY <2>6, <2>7, <3>2
      <3> QED
        BY <2>4, <3>1, <3>2
    <2>10. \A n \in (base + 1)..hand : \E i \in 1..(Len(L) + 1) : logged'[k][i] = n
      <3> TAKE n \in (base + 1)..hand
      <3>1. CASE n = hand
        <4>1. Len(L) + 1 \in 1..(Len(L) + 1)
          BY <2>4
        <4> QED
          BY <2>6, <3>1, <4>1
      <3>2. CASE n # hand
        <4>1. n \in (base + 1)..(hand - 1)
          BY <1>1, <2>7, <3>2
        <4>2. PICK i \in 1..Len(L) : L[i] = n
          BY <2>5, <4>1
        <4>3. i \in 1..(Len(L) + 1)
          BY <2>4
        <4> QED
          BY <2>6, <4>2, <4>3
      <3> QED
        BY <3>1, <3>2
    <2> QED
      BY <2>3, <2>6, <2>7, <2>8, <2>9, <2>10 DEF Given
  <1> QED
    BY <1>7, <1>8, <1>9, <1>10, <1>11 DEF IInv

-----------------------------------------------------------------------------
(* Everything else.                                                        *)

(* An expiry pass keeps the invariant: it only takes sessions off the list.*)
LEMMA ProcessStep ==
  ASSUME IInv, ProcessSessions
  PROVE  IInv'
  <1>1. /\ sessions' \subseteq sessions /\ pc = "wait" /\ pc' = "loop"
        /\ UNCHANGED <<now, sess, held, queue, hand, at, enabled, main, up, crashes,
                       logged, made, base>>
    BY DEF ProcessSessions, AfterEmpty
  <1>2. TypeOK'
    BY <1>1 DEF IInv, TypeOK, main
  <1>3. Sound'
    BY <1>1 DEF IInv, Sound
  <1> QED
    BY <1>1, <1>2, <1>3, QuietStep

(* The death of the process keeps the invariant: the next one starts with  *)
(* nothing in flight, and the sinks keep what they were given.             *)
LEMMA CrashStep ==
  ASSUME IInv, Crash
  PROVE  IInv'
  <1>1. /\ made \in Nat /\ Len(queue) \in Nat /\ queue' = <<>>
        /\ sessions' = {} /\ sess' = <<>> /\ base' = made /\ pc' = "loop"
        /\ UNCHANGED <<now, logged, made>>
    BY ClockAssumption DEF IInv, TypeOK, Crash, Fresh
  <1>2. TypeOK'
    <2>1. stopAt' \in 0..(Len(Servers) + 1)
      BY ServersAssumption DEF Crash, Fresh
    <2>2. crashes' \in 0..MaxCrashes
      BY ClockAssumption DEF Crash, IInv, TypeOK
    <2>3. server' \in [Listeners -> {"serving", "stopped", "returned"}]
      BY DEF Crash, Fresh
    <2>4. sess' \in Seq(Session) /\ queue' \in Seq(Events)
      BY <1>1
    <2>5. /\ held' \in [Conns -> DOMAIN sess' \cup {NoSession}]
          /\ hand' = 0 /\ at' = 0 /\ enabled' = TRUE /\ up' = FALSE
      BY DEF Crash, Fresh
    <2>6. sessions' \subseteq DOMAIN sess' /\ base' \in 0..made'
      BY <1>1
    <2>7. /\ now' \in 0..MaxTime /\ made' \in 0..MaxEvents
          /\ logged' \in [SinkSet -> Seq(Events)]
      BY <1>1 DEF IInv, TypeOK
    <2>8. pc' = "loop" /\ enabled' \in BOOLEAN /\ up' \in BOOLEAN
      BY <1>1, <2>5
    <2> QED
      BY <2>1, <2>2, <2>3, <2>4, <2>5, <2>6, <2>7, <2>8 DEF TypeOK
  <1>3. Sound' /\ InFlight'
    BY <1>1 DEF Sound, InFlight
  <1>4. ASSUME NEW k \in SinkSet PROVE Given(k)'
    <2>1. Done(k)' = made
      BY <1>1 DEF Done, Awaits
    <2>2. Done(k) \in Int /\ Done(k) <= made
      BY <1>1 DEF Done
    <2>3. logged[k] \in Seq(Events)
      BY DEF IInv, TypeOK
    <2>4. \A i \in DOMAIN logged[k] : logged[k][i] \in Int
      BY <2>3, EventSeq
    <2>5. \A i \in DOMAIN logged[k] : logged[k][i] <= made
      BY <1>1, <2>2, <2>4 DEF IInv, Given
    <2>6. (base' + 1)..Done(k)' = {}
      BY <1>1, <2>1
    <2> QED
      BY <1>1, <2>1, <2>5, <2>6 DEF IInv, Given
  <1> QED
    BY <1>2, <1>3, <1>4 DEF IInv

(* The main greenlet's steps through `servers`, and the ends of the servers*)
(* it stopped, keep the invariant.                                         *)
LEMMA MainStep ==
  ASSUME IInv, \/ Interrupt \/ StopServer \/ ServerReturns \/ JoinServer
               \/ PassProxy \/ StopWorker \/ JoinWorker
  PROVE  IInv'
  <1>1. stopAt \in 0..(Len(Servers) + 1) /\ Len(Servers) \in Nat
        /\ DOMAIN Servers = 1..Len(Servers) /\ TypeOK
        /\ server \in [Listeners -> {"serving", "stopped", "returned"}]
    BY ServersAssumption DEF IInv, TypeOK
  <1>2. UNCHANGED <<now, sessions, sess, held, queue, pc, hand, at, up, crashes,
                    logged, made, base>>
    BY DEF Interrupt, StopServer, ServerReturns, JoinServer, PassProxy, StopWorker,
           JoinWorker, worker
  <1>3. stopAt' \in 0..(Len(Servers) + 1)
    BY <1>1 DEF Interrupt, StopServer, ServerReturns, JoinServer, PassProxy, StopWorker,
                JoinWorker, Stopping, main
  <1>4. server' \in [Listeners -> {"serving", "stopped", "returned"}]
    BY <1>1 DEF Interrupt, StopServer, ServerReturns, JoinServer, PassProxy, StopWorker,
                JoinWorker, main
  <1>5. enabled' \in BOOLEAN
    BY <1>1 DEF Interrupt, StopServer, ServerReturns, JoinServer, PassProxy, StopWorker,
                JoinWorker, worker, TypeOK
  <1>6. TypeOK'
    BY <1>1, <1>2, <1>3, <1>4, <1>5 DEF TypeOK
  <1>7. Sound'
    BY <1>2 DEF IInv, Sound
  <1> QED
    BY <1>2, <1>6, <1>7, QuietStep

(* The invariant holds at first.                                           *)
LEMMA InitIInv == Init => IInv
  <1> SUFFICES ASSUME Init PROVE IInv
    OBVIOUS
  <1>1. Len(Servers) \in Nat
    BY ServersAssumption
  <1>2. TypeOK
    BY <1>1, ClockAssumption DEF Init, TypeOK
  <1>3. Sound /\ InFlight
    BY DEF Init, Sound, InFlight
  <1>4. \A k \in SinkSet : Given(k)
    BY DEF Init, Given, Done, Awaits
  <1> QED
    BY <1>2, <1>3, <1>4 DEF IInv

(* Every step keeps the invariant.                                         *)
LEMMA NextIInv == IInv /\ [Next]_vars => IInv'
  <1> SUFFICES ASSUME IInv, [Next]_vars PROVE IInv'
    OBVIOUS
  <1>1. TypeOK /\ Sound
    BY DEF IInv
  <1>2. ASSUME NEW c \in Conns, Open(c) \/ Activity(c) \/ Close(c) PROVE IInv'
    BY <1>2, OpenStep, HandlerStep
  <1>3. ASSUME NEW c \in Conns, Leave(c) PROVE IInv'
    <2>1. held' \in [Conns -> DOMAIN sess \cup {NoSession}]
          /\ UNCHANGED <<now, sessions, sess, queue, pc, hand, at, enabled, server,
                         stopAt, up, crashes, logged, made, base>>
      BY <1>1, <1>3 DEF Leave, worker, main, TypeOK
    <2>2. TypeOK' /\ Sound'
      BY <1>1, <2>1 DEF TypeOK, Sound
    <2> QED
      BY <2>1, <2>2, QuietStep
  <1>4. CASE Take
    BY <1>4, TakeStep
  <1>5. CASE Publish
    BY <1>5, PublishStep
  <1>6. CASE ProcessSessions
    BY <1>6, ProcessStep
  <1>7. CASE Crash
    BY <1>7, CrashStep
  <1>8. CASE Wait \/ WorkerExit
    <2>1. UNCHANGED <<now, sessions, sess, held, queue, hand, at, enabled, main, up,
                      crashes, logged, made, base>>
          /\ pc' \in {"wait", "done"} /\ pc = "loop"
      BY <1>8 DEF Wait, WorkerExit
    <2>2. TypeOK' /\ Sound'
      BY <1>1, <2>1 DEF TypeOK, Sound, main
    <2> QED
      BY <2>1, <2>2, QuietStep
  <1>9. CASE \/ Interrupt \/ StopServer \/ ServerReturns \/ JoinServer
             \/ PassProxy \/ StopWorker \/ JoinWorker
    BY <1>9, MainStep
  <1>10. CASE Restart
    <2>1. UNCHANGED <<now, sess, sessions, held, queue, pc, hand, at, enabled, server,
                      stopAt, crashes, logged, made, base>> /\ up' = TRUE
      BY <1>10 DEF Restart, worker, main
    <2>2. TypeOK' /\ Sound'
      BY <1>1, <2>1 DEF TypeOK, Sound
    <2> QED
      BY <2>1, <2>2, QuietStep
  <1>11. CASE Tick
    <2>1. UNCHANGED <<sess, sessions, held, queue, pc, hand, at, enabled, server,
                      stopAt, up, crashes, logged, made, base>> /\ now' \in 0..MaxTime
      BY <1>11 DEF Tick, worker, main
    <2>2. TypeOK' /\ Sound'
      BY <1>1, <2>1 DEF TypeOK, Sound
    <2> QED
      BY <2>1, <2>2, QuietStep
  <1>12. CASE UNCHANGED vars
    <2>1. TypeOK' /\ Sound'
      BY <1>1, <1>12 DEF TypeOK, Sound, vars
    <2> QED
      BY <1>12, <2>1, QuietStep DEF vars
  <1> QED
    BY <1>2, <1>3, <1>4, <1>5, <1>6, <1>7, <1>8, <1>9, <1>10, <1>11, <1>12
       DEF Next, Terminated

(* So it holds in every state that is reached.                             *)
LEMMA SpecIInv == Spec => []IInv
  BY InitIInv, NextIInv, PTL DEF Spec

(* Every variable keeps its type, whatever handlers, worker, shutdown,     *)
(* crashes and clock do: the worker holds an event exactly while it serves *)
(* a sink, and every id in _sessions and in a handler is a session's.      *)
THEOREM TypeCorrect == Spec => []TypeOK
  <1>1. IInv => TypeOK
    BY DEF IInv
  <1> QED
    BY <1>1, SpecIInv, PTL

(* However many events fall into one millisecond, however many handlers    *)
(* share a session and wherever the clock is set to, each event has its own*)
(* key in session.data: none overwrites another.                           *)
THEOREM NothingOverwritten == Spec => []NoEventOverwritten
  <1>1. IInv => NoEventOverwritten
    BY DEF IInv, Sound, SoundSession, NoEventOverwritten
  <1> QED
    BY <1>1, SpecIInv, PTL

(* The invariant implies that what sink k was given, then what it still has*)
(* to be given, grows and holds every event of this process.               *)
LEMMA IInvDelivers == IInv => FifoDelivery
  <1> SUFFICES ASSUME IInv, NEW k \in SinkSet
               PROVE  /\ \A i, j \in DOMAIN (logged[k] \o Pending(k)) :
                             i < j => (logged[k] \o Pending(k))[i]
                                          < (logged[k] \o Pending(k))[j]
                      /\ (base + 1)..made \subseteq ToSet(logged[k] \o Pending(k))
    BY DEF FifoDelivery
  <1> DEFINE L == logged[k]
             P == Pending(k)
             q == Len(queue)
             m == made
             d == Done(k)
             road == L \o P
  <1>1. /\ q \in Nat /\ m \in Nat /\ queue \in Seq(Events) /\ DOMAIN queue = 1..q
        /\ base \in 0..m /\ q <= m - base
        /\ \A i \in 1..q : queue[i] = m - q + i
    <2>1. queue \in Seq(Events) /\ made \in Nat
          /\ base \in 0..made
      BY ClockAssumption DEF IInv, TypeOK
    <2>2. Len(queue) \in Nat /\ DOMAIN queue = 1..Len(queue)
      BY <2>1
    <2>3. Len(queue) <= made - base
          /\ \A i \in DOMAIN queue : queue[i] = made - Len(queue) + i
      BY DEF IInv, InFlight
    <2> QED
      BY <2>1, <2>2, <2>3
  <1>2. /\ L \in Seq(Events) /\ Len(L) \in Nat /\ DOMAIN L = 1..Len(L)
        /\ \A i \in 1..Len(L) : L[i] \in Int
    <2>1. L \in Seq(Events)
      BY DEF IInv, TypeOK
    <2> QED
      BY <2>1, EventSeq
  <1>3. /\ \A i, j \in 1..Len(L) : i < j => L[i] < L[j]
        /\ \A i \in 1..Len(L) : L[i] <= d
        /\ \A n \in (base + 1)..d : \E i \in 1..Len(L) : L[i] = n
    BY <1>2 DEF IInv, Given
  <1>4. /\ P \in Seq(Events) /\ Len(P) = m - d /\ d \in Int /\ d <= m
        /\ \A i \in 1..Len(P) : P[i] = d + i
    <2>1. CASE Awaits(k)
      <3>1. P = <<hand>> \o queue /\ hand \in Events /\ hand = m - q
        BY <2>1 DEF Awaits, Pending, IInv, TypeOK, InFlight
      <3>2. d = m - q - 1
        BY <2>1 DEF Done
      <3>3. <<hand>> \in Seq(Events) /\ Len(<<hand>>) = 1 /\ <<hand>>[1] = hand
        BY <3>1
      <3>4. P \in Seq(Events) /\ Len(P) = 1 + q
            /\ \A i \in 1..(1 + q) : P[i] = IF i <= 1 THEN hand ELSE queue[i - 1]
        <4> DEFINE h == <<hand>>
        <4>0. h \in Seq(Events) /\ Len(h) = 1 /\ h[1] = hand /\ P = h \o queue
          BY <3>1, <3>3
        <4> HIDE DEF P, h
        <4>1. /\ h \o queue \in Seq(Events)
              /\ Len(h \o queue) = Len(h) + Len(queue)
              /\ \A i \in 1..(Len(h) + Len(queue)) :
                     (h \o queue)[i] = IF i <= Len(h) THEN h[i] ELSE queue[i - Len(h)]
          BY <1>1, <4>0, ConcatProperties
        <4>2. \A i \in 1..(1 + q) : i <= 1 => i = 1
          BY <1>1
        <4> QED
          BY <1>1, <4>0, <4>1, <4>2
      <3> HIDE DEF P, q, m, d
      <3>5. \A i \in 1..(1 + q) : P[i] = d + i
        <4> TAKE i \in 1..(1 + q)
        <4>1. CASE i = 1
          BY <1>1, <3>1, <3>2, <3>4, <4>1
        <4>2. CASE i # 1
          <5>1. i - 1 \in 1..q
            BY <1>1, <4>2
          <5> QED
            BY <1>1, <3>2, <3>4, <4>2, <5>1
        <4> QED
          BY <4>1, <4>2
      <3> QED
        BY <1>1, <3>2, <3>4, <3>5
    <2>2. CASE ~Awaits(k)
      <3>1. P = <<>> \o queue /\ d = m - q - 0
        BY <2>2, Zenon DEF Awaits, Pending, Done
      <3>2. <<>> \o queue = queue /\ m - q - 0 = m - q
        BY <1>1, ConcatEmptySeq
      <3>3. P = queue /\ d = m - q
        BY <3>1, <3>2
      <3> HIDE DEF P, q, m, d
      <3> QED
        BY <1>1, <3>3
    <2> QED
      BY <2>1, <2>2
  <1> HIDE DEF L, P, q, m, d
  <1>5. /\ road \in Seq(Events) /\ DOMAIN road = 1..(Len(L) + Len(P))
        /\ \A i \in 1..(Len(L) + Len(P)) :
               road[i] = IF i <= Len(L) THEN L[i] ELSE P[i - Len(L)]
    <2>1. Len(road) = Len(L) + Len(P) /\ road \in Seq(Events)
          /\ \A i \in 1..(Len(L) + Len(P)) :
                 road[i] = IF i <= Len(L) THEN L[i] ELSE P[i - Len(L)]
      BY <1>2, <1>4, ConcatProperties
    <2> QED
      BY <2>1
  <1> HIDE DEF road
  <1>6. \A i \in 1..(Len(L) + Len(P)) :
            \/ i \in 1..Len(L) /\ road[i] = L[i]
            \/ i - Len(L) \in 1..Len(P) /\ road[i] = d + (i - Len(L))
    <2> TAKE i \in 1..(Len(L) + Len(P))
    <2>1. Len(P) \in Nat
      BY <1>1, <1>4
    <2>2. CASE i <= Len(L)
      BY <1>2, <1>5, <2>1, <2>2
    <2>3. CASE ~(i <= Len(L))
      <3>1. i - Len(L) \in 1..Len(P)
        BY <1>2, <2>1, <2>3
      <3> QED
        BY <1>4, <1>5, <2>3, <3>1
    <2> QED
      BY <2>2, <2>3
  <1>7. \A i, j \in DOMAIN road : i < j => road[i] < road[j]
    <2> SUFFICES ASSUME NEW i \in 1..(Len(L) + Len(P)), NEW j \in 1..(Len(L) + Len(P)),
                        i < j
                 PROVE  road[i] < road[j]
      BY <1>5
    <2>1. Len(P) \in Nat
      BY <1>1, <1>4
    <2>2. CASE i \in 1..Len(L) /\ j \in 1..Len(L)
      <3>1. road[i] = L[i] /\ road[j] = L[j]
        BY <1>5, <2>2
      <3> QED
        BY <1>3, <2>2, <3>1
    <2>3. CASE i \in 1..Len(L) /\ j - Len(L) \in 1..Len(P)
      <3>1. road[i] = L[i] /\ road[j] = d + (j - Len(L))
        BY <1>2, <1>6, <2>1, <2>3
      <3> QED
        BY <1>2, <1>3, <1>4, <2>1, <2>3, <3>1
    <2>4. CASE i - Len(L) \in 1..Len(P) /\ j - Len(L) \in 1..Len(P)
      <3>1. road[i] = d + (i - Len(L)) /\ road[j] = d + (j - Len(L))
        BY <1>2, <1>6, <2>1, <2>4
      <3> QED
        BY <1>2, <1>4, <2>1, <2>4, <3>1
    <2>5. ~(i - Len(L) \in 1..Len(P) /\ j \in 1..Len(L))
      BY <1>2, <2>1
    <2> QED
      BY <1>6, <2>2, <2>3, <2>4, <2>5
  <1>8. (base + 1)..m \subseteq ToSet(road)
    <2> SUFFICES ASSUME NEW n \in (base + 1)..m
                 PROVE  \E i \in DOMAIN road : road[i] = n
      BY DEF ToSet
    <2>1. Len(P) \in Nat
      BY <1>1, <1>4
    <2>2. CASE n <= d
      <3>1. n \in (base + 1)..d
        BY <1>1, <1>4, <2>2
      <3>2. PICK i \in 1..Len(L) : L[i] = n
        BY <1>3, <3>1
      <3>3. i \in DOMAIN road /\ road[i] = n
        BY <1>2, <1>5, <2>1, <3>2
      <3> QED
        BY <3>3
    <2>3. CASE ~(n <= d)
      <3>1. n - d \in 1..Len(P)
        BY <1>1, <1>4, <2>3
      <3>2. Len(L) + (n - d) \in 1..(Len(L) + Len(P))
            /\ (Len(L) + (n - d)) - Len(L) = n - d
            /\ ~(Len(L) + (n - d) <= Len(L))
        BY <1>1, <1>2, <1>4, <2>1, <3>1
      <3>3. road[Len(L) + (n - d)] = P[n - d]
        BY <1>5, <3>2
      <3>4. P[n - d] = d + (n - d)
        BY <1>4, <3>1
      <3>5. d + (n - d) = n
        BY <1>1, <1>4
      <3> QED
        BY <1>5, <3>2, <3>3, <3>4, <3>5
    <2> QED
      BY <2>2, <2>3
  <1> QED
    BY <1>7, <1>8 DEF road, L, P, m

(* Every event reaches every sink once and in order, or is in the worker's *)
(* hand or in the queue: neither the interleaving of handlers and worker   *)
(* nor a crash or a restart reorders, doubles or skips one that is given.  *)
THEOREM Delivered == Spec => []FifoDelivery
  BY SpecIInv, IInvDelivers, PTL

-----------------------------------------------------------------------------
(* The order of a session's keys.                                          *)

(* One add_event happened to session s.                                    *)
RecordedOn(s) ==
    sess'[s] = Recorded(sess[s], FreeKey(sess[s].data, now - sess[s].start))

(* add_event records on one session and leaves the others alone.           *)
LEMMA AddedOne ==
  ASSUME NEW t \in Seq(Session), NEW r \in DOMAIN t, AddEvent(t, r),
         \A s \in DOMAIN sess : s \in DOMAIN t /\ t[s] = sess[s]
  PROVE  \A s \in DOMAIN sess : sess'[s] = sess[s] \/ RecordedOn(s)
  <1> TAKE s \in DOMAIN sess
  <1>1. sess' = [t EXCEPT ![r] = Recorded(t[r], FreeKey(t[r].data, now - t[r].start))]
    BY DEF AddEvent
  <1>2. s \in DOMAIN t /\ t[s] = sess[s]
    OBVIOUS
  <1>3. CASE s = r
    BY <1>1, <1>2, <1>3 DEF RecordedOn
  <1>4. CASE s # r
    BY <1>1, <1>2, <1>4
  <1> QED
    BY <1>3, <1>4

(* Whatever step a process takes, to a session one add_event happens, or   *)
(* nothing.                                                                *)
LEMMA SessionsStep ==
  ASSUME IInv, [Next]_vars
  PROVE  \A s \in DOMAIN sess \cap DOMAIN sess' : sess'[s] = sess[s] \/ RecordedOn(s)
  <1>1. ASSUME NEW c \in Conns, Open(c)
        PROVE  \A s \in DOMAIN sess : sess'[s] = sess[s] \/ RecordedOn(s)
    <2>1. PICK t \in Seq(Session) : \E r \in DOMAIN t :
              /\ DOMAIN sess \subseteq DOMAIN t
              /\ \A q \in DOMAIN sess : t[q] = sess[q]
              /\ IF ProtoOf[c] \in Quiet THEN sess' = t /\ UNCHANGED <<made, queue>>
                                         ELSE AddEvent(t, r)
      BY <1>1, OpenTable
    <2>2. PICK r \in DOMAIN t :
              /\ DOMAIN sess \subseteq DOMAIN t
              /\ \A q \in DOMAIN sess : t[q] = sess[q]
              /\ IF ProtoOf[c] \in Quiet THEN sess' = t /\ UNCHANGED <<made, queue>>
                                         ELSE AddEvent(t, r)
      BY <2>1
    <2>3. CASE ProtoOf[c] \in Quiet
      BY <2>2, <2>3
    <2>4. CASE ProtoOf[c] \notin Quiet
      BY <2>2, <2>4, AddedOne
    <2> QED
      BY <2>3, <2>4
  <1>2. ASSUME NEW c \in Conns, Activity(c) \/ Close(c)
        PROVE  \A s \in DOMAIN sess : sess'[s] = sess[s] \/ RecordedOn(s)
    <2>1. sess \in Seq(Session) /\ held \in [Conns -> DOMAIN sess \cup {NoSession}]
      BY DEF IInv, TypeOK
    <2>2. AddEvent(sess, held[c]) /\ held[c] \in DOMAIN sess
      BY <1>2, <2>1 DEF Activity, Close
    <2> QED
      BY <2>1, <2>2, AddedOne
  <1>3. CASE Crash
    <2>1. DOMAIN sess' = {}
      BY <1>3 DEF Crash, Fresh
    <2> QED
      BY <2>1
  <1>4. CASE UNCHANGED sess
    BY <1>4
  <1> QED
    BY <1>1, <1>2, <1>3, <1>4
       DEF Next, Terminated, vars, Leave, Take, Wait, Publish, WorkerExit,
           ProcessSessions, Interrupt, StopServer, ServerReturns, JoinServer,
           PassProxy, StopWorker, JoinWorker, Restart, Tick

(* Unless the clock reads less than at an earlier event of its session, an *)
(* event's key is above all earlier ones: max(session.data) is the last    *)
(* event, as _process_sessions takes it to be.                             *)
THEOREM KeysOrdered == Spec => KeysInEventOrder
  <1>1. ASSUME IInv, [Next]_vars, NEW s \in DOMAIN sess \cap DOMAIN sess',
               now >= sess[s].touched,
               NEW new \in sess'[s].data \ sess[s].data, NEW k \in sess[s].data
        PROVE  k < new
    <2> DEFINE r == sess[s]
               key == FreeKey(r.data, now - r.start)
    <2>1. TypeOK /\ r \in Session /\ SoundSession(r)
      <3>1. sess \in Seq(Session)
        BY <1>1 DEF IInv, TypeOK
      <3> QED
        BY <1>1, <3>1 DEF IInv, Sound
    <2>2. RecordedOn(s)
      BY <1>1, SessionsStep
    <2>3. /\ now >= r.touched => \A j \in r.data : j < key
          /\ Recorded(r, key).data = r.data \cup {key}
      BY <2>1, RecordedSound
    <2>4. new = key
      BY <1>1, <2>2, <2>3 DEF RecordedOn
    <2> QED
      BY <1>1, <2>3, <2>4
  <1>2. IInv /\ [Next]_vars
            => [\A s \in DOMAIN sess \cap DOMAIN sess' :
                   now >= sess[s].touched
                       => \A new \in sess'[s].data \ sess[s].data, k \in sess[s].data :
                              k < new]_vars
    BY <1>1
  <1> QED
    BY <1>2, SpecIInv, PTL DEF Spec, KeysInEventOrder

-----------------------------------------------------------------------------
(* Expiry.                                                                 *)

(* A finite set of integers that is not empty has a greatest element, and  *)
(* Max is one.                                                             *)
LEMMA MaxIsGreatest ==
  ASSUME NEW S \in SUBSET Int, IsFiniteSet(S), S # {}
  PROVE  Max(S) \in S /\ \A x \in S : x <= Max(S)
  <1> DEFINE topless == {n \in Nat : \E T \in SUBSET Int :
                 /\ IsFiniteSet(T) /\ T # {} /\ Cardinality(T) = n
                 /\ ~ \E m \in T : \A x \in T : m >= x}
  <1>1. topless = {}
    <2> SUFFICES ASSUME topless # {} PROVE FALSE
      OBVIOUS
    <2>1. PICK n \in topless : \A k \in topless : n <= k
      <3>1. topless \in SUBSET Nat
        OBVIOUS
      <3> HIDE DEF topless
      <3> QED
        BY <3>1, LeastNat
    <2>2. PICK T \in SUBSET Int :
                 /\ IsFiniteSet(T) /\ T # {} /\ Cardinality(T) = n
                 /\ ~ \E m \in T : \A x \in T : m >= x
      OBVIOUS
    <2>3. PICK a \in T : TRUE
      BY <2>2
    <2> DEFINE U == T \ {a}
    <2>4. U \in SUBSET Int /\ a \in Int
      OBVIOUS
    <2>5. IsFiniteSet(U) /\ Cardinality(U) = n - 1 /\ n - 1 \in Nat
      <3>1. IsFiniteSet(U) /\ Cardinality(U) = Cardinality(T) - 1
        BY <2>2, <2>3, FS_RemoveElement
      <3>2. Cardinality(U) \in Nat
        BY <3>1, FS_CardinalityType
      <3> QED
        BY <2>2, <3>1, <3>2
    <2>6. U # {}
      <3> SUFFICES ASSUME U = {} PROVE FALSE
        OBVIOUS
      <3>1. \A x \in T : a >= x
        BY <2>4
      <3> QED
        BY <2>2, <3>1
    <2>7. PICK m \in U : \A x \in U : m >= x
      <3>1. n - 1 \notin topless
        <4>1. n \in Nat /\ ~(n <= n - 1)
          OBVIOUS
        <4> HIDE DEF topless
        <4> QED
          BY <2>1, <4>1
      <3> QED
        BY <2>4, <2>5, <2>6, <3>1
    <2>8. CASE a >= m
      <3>1. \A x \in T : a >= x
        BY <2>4, <2>7, <2>8
      <3> QED
        BY <2>2, <3>1
    <2>9. CASE ~(a >= m)
      <3>1. m \in T /\ \A x \in T : m >= x
        BY <2>4, <2>7, <2>9
      <3> QED
        BY <2>2, <3>1
    <2> QED
      BY <2>8, <2>9
  <1>2. Cardinality(S) \in Nat
    BY FS_CardinalityType
  <1>3. \E m \in S : \A x \in S : m >= x
    BY <1>1, <1>2
  <1>4. Max(S) \in S /\ \A x \in S : Max(S) >= x
    BY <1>3 DEF Max
  <1> QED
    BY <1>4

(* Cutting a time down to whole seconds loses less than one of them.       *)
LEMMA Truncated ==
  ASSUME NEW a \in Int
  PROVE  /\ (a \div MsPerSec) * MsPerSec \in Int
         /\ (a \div MsPerSec) * MsPerSec <= a
         /\ a < (a \div MsPerSec) * MsPerSec + MsPerSec
  BY ClockAssumption

(* _process_sessions removes a session only if it is timed out, and so for *)
(* all but the second that truncating both clock readings may add.         *)
THEOREM ExpiredWhenIdle == Spec => NoEarlyExpiry
  <1>1. ASSUME IInv, [Next]_vars, NEW s \in sessions \ sessions', up'
        PROVE  now - sess[s].touched > (TimeoutSec - 1) * MsPerSec
    <2> DEFINE r == sess[s]
    <2>1. TypeOK /\ s \in DOMAIN sess /\ sess \in Seq(Session)
      BY <1>1 DEF IInv, TypeOK
    <2>2. /\ s \in Nat /\ r \in Session /\ SoundSession(r)
          /\ r.data \in SUBSET Int /\ r.start \in Nat /\ r.touched \in Nat
      <3>1. s \in Nat /\ r \in Session
        BY <2>1
      <3> QED
        BY <1>1, <2>1, <3>1, ClockAssumption DEF IInv, Sound, Session
    <2>4. LastKey(s) \in Int /\ LastKey(s) >= r.touched - r.start
      <3>1. CASE r.data = {}
        BY <2>2, <3>1 DEF LastKey, SoundSession
      <3>2. CASE r.data # {}
        <4>1. LastKey(s) = Max(r.data) /\ IsFiniteSet(r.data)
          BY <2>2, <3>2 DEF LastKey, SoundSession
        <4>2. LastKey(s) \in r.data /\ \A x \in r.data : x <= LastKey(s)
          BY <2>2, <3>2, <4>1, MaxIsGreatest
        <4>3. PICK k \in r.data : k >= r.touched - r.start
          BY <2>2, <3>2 DEF SoundSession
        <4> QED
          BY <2>2, <4>2, <4>3
      <3> QED
        BY <3>1, <3>2
    <2>5. CASE ProcessSessions
      <3>1. s \in Gone
        BY <2>5 DEF ProcessSessions
      <3>2. TimedOut(s)
        <4>1. Run(s) # {}
          <5>1. Cardinality(Run(s)) % 2 = 1
            BY <3>1 DEF Gone
          <5>2. Cardinality({}) = 0
            BY FS_EmptySet
          <5> QED
            BY <5>1, <5>2
        <4>2. PICK t \in sessions : /\ t <= s
                                    /\ \A u \in sessions : t <= u /\ u <= s => TimedOut(u)
          BY <4>1 DEF Run
        <4> QED
          BY <2>2, <4>2
      <3> DEFINE n == (now \div MsPerSec) * MsPerSec
                 b == (sess[s].start \div MsPerSec) * MsPerSec
      <3>4. now \in Int /\ n \in Int /\ n <= now
        BY <2>1, ClockAssumption, Truncated DEF TypeOK
      <3>5. b \in Int /\ sess[s].start < b + MsPerSec
        BY <2>2, Truncated
      <3>6. n - b - LastKey(s) >= TimeoutSec * MsPerSec
        <4>1. (now \div MsPerSec - sess[s].start \div MsPerSec) * MsPerSec = n - b
          <5>1. now \div MsPerSec \in Int /\ sess[s].start \div MsPerSec \in Int
                /\ MsPerSec \in Int
            BY <2>2, <3>4, ClockAssumption
          <5>2. \A x, y, z \in Int : (x - y) * z = x * z - y * z
            OBVIOUS
          <5> QED
            BY <5>1, <5>2
        <4> QED
          BY <3>2, <4>1 DEF TimedOut
      <3> HIDE DEF n, b
      <3>7. (TimeoutSec - 1) * MsPerSec = TimeoutSec * MsPerSec - MsPerSec
        BY ClockAssumption
      <3>8. TimeoutSec * MsPerSec \in Int /\ MsPerSec \in Int
        BY ClockAssumption
      <3> DEFINE limit == TimeoutSec * MsPerSec
      <3>9. now - sess[s].touched > limit - MsPerSec
        <4> HIDE DEF limit
        <4>1. n - b - LastKey(s) >= limit /\ limit \in Int
          BY <3>6, <3>8 DEF limit
        <4> QED
          BY <2>2, <2>4, <3>4, <3>5, <3>8, <4>1
      <3> QED
        BY <3>7, <3>9
    <2>6. CASE sessions \subseteq sessions'
      BY <2>6
    <2>7. ~Crash
      BY <1>1 DEF Crash
    <2> QED
      BY <1>1, <2>5, <2>6, <2>7
         DEF Next, Open, Activity, Close, Leave, Terminated, vars, Take, Wait, Publish,
             WorkerExit, Interrupt, StopServer, ServerReturns, JoinServer, PassProxy,
             StopWorker, JoinWorker, Restart, Tick
  <1>2. IInv /\ [Next]_vars
            => [\A s \in sessions \ sessions' :
                   up' => now - sess[s].touched > (TimeoutSec - 1) * MsPerSec]_vars
    BY <1>1
  <1> QED
    BY <1>2, SpecIInv, PTL DEF Spec, NoEarlyExpiry

=============================================================================
