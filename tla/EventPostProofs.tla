-------------------------- MODULE EventPostProofs --------------------------
(***************************************************************************)
(* Proofs about EventPost, for every number of records, of retries and of  *)
(* kills, every size of a record and of the spool, and every clock.        *)
(***************************************************************************)
EXTENDS EventPost, SequenceTheorems, NaturalsInduction, WellFoundedInduction, TLAPS

-----------------------------------------------------------------------------
(* The size of a spool file.                                               *)

(* A set of natural numbers that is not empty has a least element: what the*)
(* inductions below are done by.                                           *)
LEMMA LeastNat ==
  ASSUME NEW S \in SUBSET Nat, S # {}
  PROVE  \E m \in S : \A k \in S : m <= k
  <1>1. PICK m \in S : \A k \in S : ~ (<<k, m>> \in OpToRel(<, Nat))
    BY NatLessThanWellFounded, WFMin
  <1>2. \A k \in S : ~ (k < m)
    BY <1>1 DEF OpToRel
  <1> QED
    BY <1>2

(* A running sum: f[i] is the size of the first i records of s.            *)
Sums(f, s, n) ==
    /\ f \in [0..n -> Nat]
    /\ f[0] = 0
    /\ \A i \in 1..n : f[i] = f[i - 1] + SizeOf[s[i]]

LEMMA SizeIsNat ==
  ASSUME NEW r \in Records
  PROVE  SizeOf[r] \in Nat /\ SizeOf[r] > 0
  BY PostAssumption DEF PostAssumption, Records

LEMMA SumsExist ==
  ASSUME NEW s \in Seq(Records), NEW n \in 0..Len(s)
  PROVE  \E f : Sums(f, s, n)
  <1> DEFINE bad == {k \in 0..Len(s) : ~ \E f : Sums(f, s, k)}
  <1>1. SUFFICES ASSUME bad # {} PROVE FALSE
    OBVIOUS
  <1>2. PICK m \in bad : \A k \in bad : m <= k
    <2>1. bad \in SUBSET Nat
      BY LenProperties
    <2> QED
      BY <1>1, <2>1, LeastNat
  <1>3. m # 0
    <2>1. Sums([i \in 0..0 |-> 0], s, 0)
      BY SMT DEF Sums
    <2> QED
      BY <2>1
  <1>4. m \in Nat /\ m - 1 \in 0..Len(s) /\ m - 1 \notin bad /\ m \in 1..Len(s)
    BY <1>2, <1>3, LenProperties
  <1>5. PICK f : Sums(f, s, m - 1)
    BY <1>4
  <1> DEFINE g == [i \in 0..m |-> IF i = m THEN f[m - 1] + SizeOf[s[m]] ELSE f[i]]
  <1>6. SizeOf[s[m]] \in Nat
    BY <1>4, SizeIsNat, ElementOfSeq
  <1>7. f[m - 1] \in Nat
    BY <1>4, <1>5 DEF Sums
  <1>8. g \in [0..m -> Nat]
    BY <1>4, <1>5, <1>6, <1>7 DEF Sums
  <1>9. g[0] = 0
    BY <1>3, <1>4, <1>5 DEF Sums
  <1>10. \A i \in 1..m : g[i] = g[i - 1] + SizeOf[s[i]]
    BY <1>4, <1>5 DEF Sums
  <1>11. Sums(g, s, m)
    BY <1>8, <1>9, <1>10 DEF Sums
  <1> QED
    BY <1>11

LEMMA SumsAgree ==
  ASSUME NEW s \in Seq(Records), NEW t \in Seq(Records),
         NEW n \in Nat, n <= Len(s), n <= Len(t),
         \A i \in 1..n : s[i] = t[i],
         NEW f, NEW g, NEW m \in Nat, NEW l \in Nat, n <= m, n <= l,
         m <= Len(s), l <= Len(t), Sums(f, s, m), Sums(g, t, l)
  PROVE  f[n] = g[n]
  <1> DEFINE bad == {k \in 0..n : f[k] # g[k]}
  <1>1. SUFFICES ASSUME bad # {} PROVE FALSE
    OBVIOUS
  <1>2. PICK k \in bad : \A j \in bad : k <= j
    <2>1. bad \in SUBSET Nat
      OBVIOUS
    <2> QED
      BY <1>1, <2>1, LeastNat
  <1>3. k # 0
    BY DEF Sums
  <1>4. k - 1 \in 0..n /\ k - 1 \notin bad
    BY <1>2, <1>3
  <1>5. k \in 1..n
    BY <1>3
  <1>6. f[k] = f[k - 1] + SizeOf[s[k]] /\ g[k] = g[k - 1] + SizeOf[t[k]]
    BY <1>5 DEF Sums
  <1> QED
    BY <1>4, <1>5, <1>6

(* The recursion that Bytes is defined by has a solution, and it is a      *)
(* running sum.                                                            *)
LEMMA BytesIsSum ==
  ASSUME NEW s \in Seq(Records)
  PROVE  \E f : Sums(f, s, Len(s)) /\ Bytes(s) = f[Len(s)]
  <1> DEFINE AtStep(f) == [i \in 0..Len(s) |->
                             IF i = 0 THEN 0 ELSE f[i - 1] + SizeOf[s[i]]]
             sol == CHOOSE f : f = AtStep(f)
  <1>1. Len(s) \in Nat
    BY LenProperties
  <1>2. PICK f : Sums(f, s, Len(s))
    BY <1>1, SumsExist
  <1>3. f = AtStep(f)
    BY <1>1, <1>2 DEF Sums
  <1>4. sol = AtStep(sol)
    BY <1>3
  <1>5. Bytes(s) = sol[Len(s)]
    BY DEF Bytes
  <1> HIDE DEF sol
  <1>6. /\ sol[0] = 0
        /\ \A i \in 1..Len(s) : sol[i] = sol[i - 1] + SizeOf[s[i]]
    BY <1>1, <1>4
  <1>7. \A i \in 0..Len(s) : sol[i] = f[i]
    <2> DEFINE bad == {k \in 0..Len(s) : sol[k] # f[k]}
    <2>1. SUFFICES ASSUME bad # {} PROVE FALSE
      OBVIOUS
    <2>2. PICK k \in bad : \A j \in bad : k <= j
      <3>1. bad \in SUBSET Nat
        BY <1>1
      <3> QED
        BY <2>1, <3>1, LeastNat
    <2>3. k # 0
      BY <1>2, <1>6 DEF Sums
    <2>4. k \in 1..Len(s) /\ k - 1 \in 0..Len(s) /\ k - 1 \notin bad
      BY <1>1, <2>2, <2>3
    <2> QED
      BY <1>2, <1>6, <2>4 DEF Sums
  <1> QED
    BY <1>1, <1>2, <1>5, <1>7

LEMMA BytesEmpty == Bytes(<<>>) = 0
  <1>1. PICK f : Sums(f, <<>>, Len(<<>>)) /\ Bytes(<<>>) = f[Len(<<>>)]
    BY EmptySeq, BytesIsSum
  <1> QED
    BY <1>1, EmptySeq DEF Sums

LEMMA BytesAppend ==
  ASSUME NEW s \in Seq(Records), NEW r \in Records
  PROVE  Bytes(Append(s, r)) = Bytes(s) + SizeOf[r]
  <1> DEFINE t == Append(s, r)
  <1>1. /\ t \in Seq(Records) /\ Len(s) \in Nat /\ Len(t) = Len(s) + 1
        /\ \A i \in 1..Len(s) : t[i] = s[i]
        /\ t[Len(s) + 1] = r
    BY AppendProperties, LenProperties
  <1> HIDE DEF t
  <1>2. PICK f : Sums(f, s, Len(s)) /\ Bytes(s) = f[Len(s)]
    BY BytesIsSum
  <1>3. PICK g : Sums(g, t, Len(t)) /\ Bytes(t) = g[Len(t)]
    BY <1>1, BytesIsSum
  <1>4. f[Len(s)] = g[Len(s)]
    BY <1>1, <1>2, <1>3, SumsAgree
  <1>5. Len(t) \in 1..Len(t) /\ Len(t) - 1 = Len(s)
    BY <1>1
  <1>6. g[Len(t)] = g[Len(s)] + SizeOf[r]
    BY <1>1, <1>3, <1>5 DEF Sums
  <1> QED
    BY <1>2, <1>3, <1>4, <1>6 DEF t

LEMMA BytesIsNat ==
  ASSUME NEW s \in Seq(Records)
  PROVE  Bytes(s) \in Nat
  BY BytesIsSum, LenProperties DEF Sums

(* The largest record is as large as any.                                  *)
LEMMA LargestIsLargest ==
  /\ Largest \in Nat
  /\ \A r \in Records : SizeOf[r] <= Largest
  <1> DEFINE Covers(m, n) == m \in {SizeOf[r] : r \in Records} /\ \A r \in 1..n : SizeOf[r] <= m
             bad == {n \in 1..MaxRecords : ~ \E m : Covers(m, n)}
  <1>1. bad = {}
    <2>1. SUFFICES ASSUME bad # {} PROVE FALSE
      OBVIOUS
    <2>2. PICK n \in bad : \A k \in bad : n <= k
      <3>1. bad \in SUBSET Nat
        OBVIOUS
      <3> QED
        BY <2>1, <3>1, LeastNat
    <2>3. n \in 1..MaxRecords /\ MaxRecords \in Nat /\ n \in Records
      BY PostAssumption DEF PostAssumption, Records
    <2>4. n # 1
      <3>1. Covers(SizeOf[1], 1)
        BY <2>3, SizeIsNat DEF Records
      <3> QED
        BY <3>1
    <2>5. n - 1 \in 1..MaxRecords /\ n - 1 \notin bad
      BY <2>2, <2>3, <2>4
    <2>6. PICK m : Covers(m, n - 1)
      BY <2>5
    <2>7. m \in Nat /\ SizeOf[n] \in Nat
      BY <2>3, <2>6, SizeIsNat
    <2>8. Covers(IF m < SizeOf[n] THEN SizeOf[n] ELSE m, n)
      BY <2>3, <2>6, <2>7, SizeIsNat DEF Records
    <2> QED
      BY <2>8
  <1>2. \E m : Covers(m, MaxRecords)
    <2>1. MaxRecords \in 1..MaxRecords
      BY PostAssumption DEF PostAssumption
    <2> QED
      BY <1>1, <2>1
  <1>3. \E m \in {SizeOf[r] : r \in Records} : \A r \in Records : SizeOf[r] <= m
    BY <1>2 DEF Records
  <1>4. /\ Largest \in {SizeOf[r] : r \in Records}
        /\ \A r \in Records : SizeOf[r] <= Largest
    BY <1>3 DEF Largest
  <1> QED
    BY <1>4, SizeIsNat

-----------------------------------------------------------------------------
(* The inductive invariant.                                                *)

Row == [rec : Records, stamp : Int, boot : 0..MaxKills]

(* Types; a record in hand has been stamped.                               *)
TypeInv ==
    /\ clock \in Int
    /\ last \in Int \cup {NoStamp}
    /\ pc \in {"idle", "post", "backoff", "spool", "append"}
    /\ rec \in 0..MaxRecords
    /\ attempt \in Nat
    /\ rows \in SUBSET Row /\ late \in SUBSET Row /\ accepted \in SUBSET Row
    /\ spool \in Seq(Records) /\ old \in Seq(Records)
    /\ gone \in SUBSET Records
    /\ kills \in 0..MaxKills
    /\ pc # "idle" => rec \in Records /\ stamp \in Int

Increasing(s) == \A i, j \in 1..Len(s) : i < j => s[i] < s[j]

(* Both files are in order, what was moved away precedes what came after,  *)
(* and the record in hand is in neither.                                   *)
Ordered ==
    /\ Increasing(old) /\ Increasing(spool)
    /\ \A i \in 1..Len(old), j \in 1..Len(spool) : old[i] < spool[j]
    /\ \A s \in {old, spool} : \A i \in 1..Len(s) :
           s[i] <= rec /\ (pc # "idle" => s[i] < rec)

(* Between the look at its size and the append the spool is below its cap. *)
Sized ==
    SpoolCap > 0 =>
        /\ \A f \in {spool, old} : Bytes(f) < SpoolCap + Largest
        /\ pc = "append" => Bytes(spool) < SpoolCap

Posts == rows \cup late \cup accepted

(* One post was observed before another, and its stamp says so when one    *)
(* life of the forwarder made both.                                        *)
Before(x, y) ==
    /\ x.rec < y.rec /\ x.boot <= y.boot
    /\ x.boot = y.boot => x.stamp < y.stamp

(* Only one post can be made of the record in hand; those of this process  *)
(* have stamps up to the last one given; and any two posts are told apart  *)
(* by when they were observed, whether they are stored yet or not.         *)
Stamped ==
    /\ pc # "idle" => last = stamp
    /\ \A x \in Posts :
           /\ x.rec <= rec /\ x.boot <= kills
           /\ x.boot = kills => last # NoStamp /\ x.stamp <= last
           /\ pc # "idle" /\ x.rec = rec => x = Stored
           /\ pc # "idle" /\ x.rec < rec /\ x.boot = kills => x.stamp < stamp
    /\ \A x, y \in Posts : x = y \/ Before(x, y) \/ Before(y, x)

IInv == TypeInv /\ EveryRecordAccounted /\ Ordered /\ Sized /\ Stamped

-----------------------------------------------------------------------------
LEMMA Constants ==
    /\ MaxRetries \in Nat /\ SpoolCap \in Nat
    /\ MaxRecords \in Nat /\ MaxRecords > 0 /\ MaxKills \in Nat
    /\ Clock \subseteq Int /\ NoStamp \notin Int
  BY PostAssumption DEF PostAssumption

LEMMA MembersOf ==
  ASSUME NEW s \in Seq(Records)
  PROVE  /\ ToSet(s) = {s[i] : i \in 1..Len(s)}
         /\ ToSet(s) \subseteq Records
  BY LenProperties, ElementOfSeq DEF ToSet

LEMMA MembersOfAppend ==
  ASSUME NEW s \in Seq(Records), NEW r \in Records
  PROVE  ToSet(Append(s, r)) = ToSet(s) \cup {r}
  <1>1. Append(s, r) \in Seq(Records) /\ Len(s) \in Nat
    BY AppendProperties, LenProperties
  <1> DEFINE t == Append(s, r)
  <1>2. /\ Len(t) = Len(s) + 1 /\ t[Len(s) + 1] = r
        /\ \A i \in 1..Len(s) : t[i] = s[i]
    BY AppendProperties
  <1>3. ToSet(s) = {s[i] : i \in 1..Len(s)} /\ ToSet(t) = {t[i] : i \in 1..Len(t)}
    BY <1>1, MembersOf
  <1> HIDE DEF t
  <1>4. ToSet(t) = ToSet(s) \cup {r}
    BY <1>1, <1>2, <1>3
  <1> QED
    BY <1>4 DEF t

LEMMA InitIInv == Init => IInv
  <1> SUFFICES ASSUME Init PROVE IInv
    OBVIOUS
  <1>1. TypeInv
    BY Constants, EmptySeq DEF Init, TypeInv
  <1>2. EveryRecordAccounted
    BY DEF Init, EveryRecordAccounted
  <1>3. Ordered
    BY EmptySeq DEF Init, Ordered, Increasing
  <1>4. Sized
    BY Constants, BytesEmpty, LargestIsLargest DEF Init, Sized
  <1>5. Stamped
    BY DEF Init, Stamped, Posts
  <1> QED
    BY <1>1, <1>2, <1>3, <1>4, <1>5 DEF IInv

LEMMA MapIInv ==
  ASSUME IInv, Map
  PROVE  IInv'
  <1>1. TypeInv'
    <2>1. ObservationStamp \in Int
      BY SMT DEF ObservationStamp, IInv, TypeInv
    <2>2. rec' \in Records
      BY Constants, SMT DEF Map, IInv, TypeInv, Records
    <2> QED
      BY <2>1, <2>2, SMT DEF Map, ironpot, IInv, TypeInv, Records
  <1>2. EveryRecordAccounted'
    <2>1. /\ pc = "idle" /\ pc' = "post" /\ rec' = rec + 1 /\ rec \in Nat
          /\ UNCHANGED <<rows, accepted, spool, old, gone>>
      BY DEF Map, ironpot, IInv, TypeInv
    <2>2. \A x : ExchangeKey(x)' = ExchangeKey(x)
      BY DEF ExchangeKey
    <2>3. \A r \in 1..rec' : r = rec' \/ r \in 1..rec
      BY <2>1
    <2> QED
      BY <2>1, <2>2, <2>3 DEF IInv, EveryRecordAccounted
  <1>3. Ordered'
    <2>1. /\ pc = "idle" /\ rec' = rec + 1 /\ rec \in Nat
          /\ spool' = spool /\ old' = old
      BY DEF Map, IInv, TypeInv
    <2>2. \A s \in {old, spool} : \A i \in 1..Len(s) : s[i] \in Nat /\ s[i] <= rec
      <3>1. ASSUME NEW s \in {old, spool}, NEW i \in 1..Len(s)
            PROVE  s[i] \in Nat /\ s[i] <= rec
        <4>1. s \in Seq(Records)
          BY DEF IInv, TypeInv
        <4>2. s[i] \in Records
          BY <4>1, ElementOfSeq
        <4> QED
          BY <4>2 DEF Records, IInv, Ordered
      <3> QED
        BY <3>1
    <2>3. (\A s \in {old, spool} : \A i \in 1..Len(s) :
              s[i] <= rec /\ (pc # "idle" => s[i] < rec))'
      BY <2>1, <2>2
    <2> QED
      BY <2>1, <2>3 DEF IInv, Ordered, Increasing
  <1>4. Sized'
    BY SMT DEF Map, ObservationStamp, event, IInv, TypeInv, Sized
  <1>5. Stamped'
    <2>1. /\ Posts' = Posts /\ kills' = kills /\ rec' = rec + 1 /\ rec \in Nat
          /\ stamp' = ObservationStamp /\ last' = ObservationStamp
      BY DEF Map, ironpot, Posts, IInv, TypeInv
    <2>2. ObservationStamp \in Int
      BY SMT DEF ObservationStamp, IInv, TypeInv
    <2>3. last # NoStamp => last < ObservationStamp
      BY SMT DEF ObservationStamp, IInv, TypeInv
    <2>4. ASSUME NEW x \in Posts
          PROVE  /\ x.rec < rec' /\ x.rec # rec' /\ x.boot <= kills
                 /\ x.boot = kills => x.stamp < ObservationStamp
      <3>1. x.rec \in Nat /\ x.stamp \in Int /\ x.rec <= rec /\ x.boot <= kills
        BY SMT DEF IInv, TypeInv, Posts, Row, Records, Stamped
      <3>2. x.boot = kills => last # NoStamp /\ x.stamp <= last
        BY DEF IInv, Stamped
      <3> QED
        BY <2>1, <2>2, <2>3, <3>1, <3>2, SMT DEF IInv, TypeInv
    <2>5. ASSUME NEW x \in Posts
          PROVE  /\ x.rec <= rec' /\ x.boot <= kills'
                 /\ x.boot = kills' => last' # NoStamp /\ x.stamp <= last'
      <3>1. x.rec \in Nat /\ x.stamp \in Int
        BY SMT DEF IInv, TypeInv, Posts, Row, Records
      <3> QED
        BY <2>1, <2>2, <2>4, <3>1, Constants, SMT
    <2>6. \A x, y \in Posts : x = y \/ Before(x, y) \/ Before(y, x)
      BY DEF IInv, Stamped
    <2> QED
      BY <2>1, <2>4, <2>5, <2>6 DEF Stamped
  <1> QED
    BY <1>1, <1>2, <1>3, <1>4, <1>5 DEF IInv

(* Nothing is posted that was not: what is stamped stays so.               *)
LEMMA SamePosts ==
  ASSUME Stamped, Posts' \subseteq Posts, UNCHANGED <<rec, stamp, last, kills>>,
         pc' = "idle" \/ pc # "idle"
  PROVE  Stamped'
  <1>1. Stored' = Stored
    BY DEF Stored
  <1> QED
    BY <1>1 DEF Stamped, Before

(* The event in hand comes after whatever was posted of other records.     *)
LEMMA StoredIsLast ==
  ASSUME TypeInv, Stamped, pc = "post"
  PROVE  /\ Stored \in Row
         /\ Stored.rec = rec /\ Stored.boot = kills /\ Stored.stamp = stamp
         /\ \A x \in Posts : x = Stored \/ Before(x, Stored)
  <1>1. Stored \in Row /\ Stored.rec = rec /\ Stored.boot = kills /\ Stored.stamp = stamp
    BY SMT DEF Stored, Row, TypeInv
  <1>2. ASSUME NEW x \in Posts, x # Stored
        PROVE  Before(x, Stored)
    <2>1. x.rec \in Nat /\ rec \in Nat /\ x.rec <= rec /\ x.boot <= kills
      BY SMT DEF TypeInv, Posts, Row, Records, Stamped
    <2>2. x.rec # rec
      BY <1>2 DEF Stamped
    <2>3. x.rec < rec
      BY <2>1, <2>2
    <2> QED
      BY <1>1, <2>1, <2>3 DEF Before, Stamped
  <1> QED
    BY <1>1, <1>2

(* The event in hand is posted, or posted again.                           *)
LEMMA MorePosts ==
  ASSUME TypeInv, Stamped, pc = "post", Posts' \subseteq Posts \cup {Stored},
         UNCHANGED <<rec, stamp, last, kills>>
  PROVE  Stamped'
  <1>1. /\ Stored \in Row
        /\ Stored.rec = rec /\ Stored.boot = kills /\ Stored.stamp = stamp
        /\ \A x \in Posts : x = Stored \/ Before(x, Stored)
    BY StoredIsLast
  <1>2. Stored' = Stored
    BY DEF Stored
  <1>3. rec \in Nat /\ kills \in Nat /\ stamp \in Int /\ last = stamp /\ last # NoStamp
    BY Constants DEF TypeInv, Records, Stamped
  <1>4. \A x \in Posts' : x \in Posts \/ x = Stored
    OBVIOUS
  <1>5. \A x \in Posts' :
           /\ x.rec <= rec /\ x.boot <= kills
           /\ x.boot = kills => last # NoStamp /\ x.stamp <= last
           /\ x.rec = rec => x = Stored
           /\ x.rec < rec /\ x.boot = kills => x.stamp < stamp
    BY <1>1, <1>3, <1>4 DEF Stamped
  <1>6. \A x, y \in Posts' : x = y \/ Before(x, y) \/ Before(y, x)
    BY <1>1, <1>4, Zenon DEF Stamped
  <1>7. pc' # "idle" => last' = stamp'
    BY <1>3
  <1> QED
    BY <1>2, <1>5, <1>6, <1>7 DEF Stamped

(* IronPot keeps what it has.                                              *)
LEMMA InsertGrows ==
  ASSUME NEW new, Insert(new)
  PROVE  rows \subseteq rows' /\ rows' \subseteq rows \cup {new}
  BY DEF Insert

LEMMA StillAccounted ==
  ASSUME EveryRecordAccounted, rows \subseteq rows', accepted \subseteq accepted',
         UNCHANGED <<rec, spool, old, gone>>, pc' = pc \/ pc' # "idle"
  PROVE  EveryRecordAccounted'
  <1>1. \A x : ExchangeKey(x)' = ExchangeKey(x)
    BY DEF ExchangeKey
  <1> QED
    BY <1>1 DEF EveryRecordAccounted

(* An event that was answered is stored, or its key was taken in an earlier*)
(* life of the forwarder.                                                  *)
LEMMA AnsweredIsStored ==
  ASSUME TypeInv, Stamped, pc = "post", Insert(Stored)
  PROVE  \E row \in rows' :
            /\ ExchangeKey(row) = ExchangeKey(Stored)
            /\ row = Stored \/ row.boot < Stored.boot
  <1>1. CASE ~Taken(Stored)
    BY <1>1 DEF Insert
  <1>2. CASE Taken(Stored)
    <2>1. PICK row \in rows : ExchangeKey(row) = ExchangeKey(Stored)
      BY <1>2 DEF Taken
    <2>2. row \in rows' /\ row \in Posts /\ row \in Row
      BY InsertGrows DEF Posts, TypeInv
    <2>3. row.stamp = Stored.stamp /\ row.stamp \in Int
      BY <2>1, <2>2 DEF ExchangeKey, Row
    <2>4. row = Stored \/ Before(row, Stored)
      BY <2>2, StoredIsLast
    <2>5. row.boot \in Nat /\ Stored.boot \in Nat
      BY <2>2, StoredIsLast, Constants DEF Row
    <2>6. row = Stored \/ row.boot < Stored.boot
      BY <2>3, <2>4, <2>5 DEF Before
    <2> QED
      BY <2>1, <2>2, <2>6
  <1> QED
    BY <1>1, <1>2

LEMMA AcceptedIInv ==
  ASSUME IInv, Accepted
  PROVE  IInv'
  <1>0. /\ pc = "post" /\ pc' = "idle" /\ Insert(Stored)
        /\ accepted' = accepted \cup {Stored} /\ late' = late
        /\ UNCHANGED <<clock, last, rec, stamp, attempt, spool, old, gone, kills>>
    BY DEF Accepted, event
  <1>1. TypeInv'
    <2>1. Stored \in Row
      BY <1>0, StoredIsLast DEF IInv
    <2>2. rows' \in SUBSET Row /\ accepted' \in SUBSET Row
      BY <1>0, <2>1, InsertGrows DEF IInv, TypeInv
    <2> QED
      BY <1>0, <2>2, SMT DEF IInv, TypeInv
  <1>2. EveryRecordAccounted'
    <2>1. PICK row \in rows' : /\ ExchangeKey(row) = ExchangeKey(Stored)
                               /\ row = Stored \/ row.boot < Stored.boot
      BY <1>0, AnsweredIsStored DEF IInv
    <2>2. Stored \in accepted' /\ Stored.rec = rec
      BY <1>0 DEF Stored
    <2>3. \A x : ExchangeKey(x)' = ExchangeKey(x)
      BY DEF ExchangeKey
    <2>4. rows \subseteq rows' /\ accepted \subseteq accepted'
      BY <1>0, InsertGrows
    <2> QED
      BY <1>0, <2>1, <2>2, <2>3, <2>4 DEF IInv, EveryRecordAccounted
  <1>3. Ordered'
    BY <1>0, SMT DEF IInv, TypeInv, Ordered, Increasing
  <1>4. Sized'
    BY <1>0, SMT DEF IInv, TypeInv, Sized
  <1>5. Stamped'
    <2>1. Posts' \subseteq Posts \cup {Stored}
      BY <1>0, InsertGrows DEF Posts
    <2> QED
      BY <1>0, <2>1, MorePosts DEF IInv
  <1> QED
    BY <1>1, <1>2, <1>3, <1>4, <1>5 DEF IInv

LEMMA RejectedIInv ==
  ASSUME IInv, Rejected
  PROVE  IInv'
  <1>1. TypeInv'
    BY Constants, SMT DEF Rejected, event, ironpot, IInv, TypeInv
  <1>2. EveryRecordAccounted'
    BY SMT DEF Rejected, event, ironpot, IInv, TypeInv, EveryRecordAccounted
  <1>3. Ordered'
    BY SMT DEF Rejected, event, IInv, TypeInv, Ordered, Increasing
  <1>4. Sized'
    BY SMT DEF Rejected, event, IInv, TypeInv, Sized
  <1>5. Stamped'
    <2>1. /\ Posts' = Posts /\ UNCHANGED <<rec, stamp, last, kills>>
          /\ pc' = "idle" \/ pc # "idle"
      BY DEF Rejected, event, ironpot, Posts
    <2> QED
      BY <2>1, SamePosts DEF IInv
  <1> QED
    BY <1>1, <1>2, <1>3, <1>4, <1>5 DEF IInv

LEMMA FailedIInv ==
  ASSUME IInv, Failed
  PROVE  IInv'
  <1>0. /\ pc = "post" /\ late' \subseteq late \cup {Stored}
        /\ pc' \in {"backoff", "spool"} /\ attempt' \in {attempt, attempt + 1}
        /\ UNCHANGED <<clock, last, rec, stamp, rows, accepted, spool, old, gone, kills>>
    BY DEF Failed
  <1>1. TypeInv'
    <2>1. Stored \in Row
      BY <1>0, StoredIsLast DEF IInv
    <2>2. late' \in SUBSET Row
      BY <1>0, <2>1 DEF IInv, TypeInv
    <2> QED
      BY <1>0, <2>2, SMT DEF IInv, TypeInv
  <1>2. EveryRecordAccounted'
    BY <1>0, StillAccounted DEF IInv
  <1>3. Ordered'
    BY <1>0, SMT DEF IInv, TypeInv, Ordered, Increasing
  <1>4. Sized'
    BY <1>0, SMT DEF IInv, TypeInv, Sized
  <1>5. Stamped'
    <2>1. Posts' \subseteq Posts \cup {Stored}
      BY <1>0 DEF Posts
    <2> QED
      BY <1>0, <2>1, MorePosts DEF IInv
  <1> QED
    BY <1>1, <1>2, <1>3, <1>4, <1>5 DEF IInv

LEMMA LateIInv ==
  ASSUME IInv, Late
  PROVE  IInv'
  <1>0. PICK post \in late : Insert(post) /\ late' = late \ {post}
    BY DEF Late
  <1>1. /\ UNCHANGED <<clock, last, pc, rec, stamp, attempt, accepted, spool, old, gone, kills>>
        /\ rows \subseteq rows' /\ rows' \subseteq rows \cup {post}
    BY <1>0, InsertGrows DEF Late, event
  <1>2. TypeInv'
    <2>1. rows' \in SUBSET Row /\ late' \in SUBSET Row
      BY <1>0, <1>1 DEF IInv, TypeInv
    <2> QED
      BY <1>1, <2>1, SMT DEF IInv, TypeInv
  <1>3. EveryRecordAccounted'
    BY <1>1, StillAccounted DEF IInv
  <1>4. Ordered'
    BY <1>1, SMT DEF IInv, TypeInv, Ordered, Increasing
  <1>5. Sized'
    BY <1>1, SMT DEF IInv, TypeInv, Sized
  <1>6. Stamped'
    <2>1. Posts' \subseteq Posts
      BY <1>0, <1>1 DEF Posts
    <2> QED
      BY <1>1, <2>1, SamePosts DEF IInv
  <1> QED
    BY <1>2, <1>3, <1>4, <1>5, <1>6 DEF IInv

LEMMA RetryIInv ==
  ASSUME IInv, Retry
  PROVE  IInv'
  <1>1. TypeInv'
    BY Constants, SMT DEF Retry, event, ironpot, IInv, TypeInv
  <1>2. EveryRecordAccounted'
    BY SMT DEF Retry, event, ironpot, IInv, TypeInv, EveryRecordAccounted
  <1>3. Ordered'
    BY SMT DEF Retry, event, IInv, TypeInv, Ordered, Increasing
  <1>4. Sized'
    BY SMT DEF Retry, event, IInv, TypeInv, Sized
  <1>5. Stamped'
    <2>1. /\ Posts' = Posts /\ UNCHANGED <<rec, stamp, last, kills>>
          /\ pc' = "idle" \/ pc # "idle"
      BY DEF Retry, event, ironpot, Posts
    <2> QED
      BY <2>1, SamePosts DEF IInv
  <1> QED
    BY <1>1, <1>2, <1>3, <1>4, <1>5 DEF IInv

LEMMA SpoolRotateIInv ==
  ASSUME IInv, SpoolRotate
  PROVE  IInv'
  <1>1. TypeInv'
    <2>1. ToSet(old) \subseteq Records
      BY MembersOf DEF IInv, TypeInv
    <2> QED
      <3>1. spool' \in Seq(Records) /\ old' \in Seq(Records)
        BY EmptySeq DEF SpoolRotate, IInv, TypeInv
      <3>2. gone' \in SUBSET Records
        BY <2>1 DEF SpoolRotate, IInv, TypeInv
      <3> QED
        BY <3>1, <3>2 DEF SpoolRotate, event, ironpot, IInv, TypeInv
  <1>2. EveryRecordAccounted'
    BY SMT DEF SpoolRotate, SpoolFull, event, ironpot, IInv, TypeInv, EveryRecordAccounted
  <1>3. Ordered'
    BY SMT DEF SpoolRotate, SpoolFull, event, IInv, TypeInv, Ordered, Increasing
  <1>4. Sized'
    <2> SUFFICES ASSUME SpoolCap > 0
                 PROVE  /\ \A f \in {spool', old'} : Bytes(f) < SpoolCap + Largest
                        /\ Bytes(spool') < SpoolCap
      BY DEF Sized
    <2>1. CASE SpoolFull
      BY <2>1, BytesEmpty, Constants, LargestIsLargest DEF SpoolRotate, IInv, Sized
    <2>2. CASE ~SpoolFull
      <3>1. Bytes(spool) \in Nat /\ Bytes(spool) < SpoolCap
        BY <2>2, BytesIsNat, Constants DEF SpoolFull, IInv, TypeInv
      <3> QED
        BY <2>2, <3>1 DEF SpoolRotate, IInv, Sized
    <2> QED
      BY <2>1, <2>2
  <1>5. Stamped'
    <2>1. /\ Posts' = Posts /\ UNCHANGED <<rec, stamp, last, kills>>
          /\ pc' = "idle" \/ pc # "idle"
      BY DEF SpoolRotate, event, ironpot, Posts
    <2> QED
      BY <2>1, SamePosts DEF IInv
  <1> QED
    BY <1>1, <1>2, <1>3, <1>4, <1>5 DEF IInv

LEMMA SpoolAppendIInv ==
  ASSUME IInv, SpoolAppend
  PROVE  IInv'
  <1>1. TypeInv'
    BY Constants, SMT DEF SpoolAppend, event, ironpot, IInv, TypeInv
  <1>2. EveryRecordAccounted'
    <2>1. /\ rec \in Records /\ spool' = Append(spool, rec)
          /\ UNCHANGED <<rec, rows, accepted, gone, old>>
      BY DEF SpoolAppend, event, ironpot, IInv, TypeInv
    <2>2. ToSet(spool') = ToSet(spool) \cup {rec}
      BY <2>1, MembersOfAppend DEF IInv, TypeInv
    <2>3. \A x : ExchangeKey(x)' = ExchangeKey(x)
      BY DEF ExchangeKey
    <2> QED
      BY <2>1, <2>2, <2>3 DEF IInv, EveryRecordAccounted
  <1>3. Ordered'
    BY SMT DEF SpoolAppend, event, IInv, TypeInv, Ordered, Increasing
  <1>4. Sized'
    <2>1. /\ rec \in Records /\ old' = old /\ pc = "append" /\ pc' = "idle"
          /\ spool' = Append(spool, rec)
      BY DEF SpoolAppend, IInv, TypeInv
    <2>2. Bytes(spool') = Bytes(spool) + SizeOf[rec] /\ Bytes(spool) \in Nat
      BY <2>1, BytesAppend, BytesIsNat DEF IInv, TypeInv
    <2>3. SizeOf[rec] \in Nat /\ SizeOf[rec] <= Largest /\ Largest \in Nat
      BY <2>1, SizeIsNat, LargestIsLargest
    <2>4. SpoolCap > 0 => Bytes(spool') < SpoolCap + Largest
      BY <2>1, <2>2, <2>3, Constants DEF IInv, Sized
    <2> QED
      BY <2>1, <2>4 DEF IInv, Sized
  <1>5. Stamped'
    <2>1. /\ Posts' = Posts /\ UNCHANGED <<rec, stamp, last, kills>>
          /\ pc' = "idle" \/ pc # "idle"
      BY DEF SpoolAppend, event, ironpot, Posts
    <2> QED
      BY <2>1, SamePosts DEF IInv
  <1> QED
    BY <1>1, <1>2, <1>3, <1>4, <1>5 DEF IInv

LEMMA SpoolErrorIInv ==
  ASSUME IInv, SpoolError
  PROVE  IInv'
  <1>1. TypeInv'
    BY Constants, SMT DEF SpoolError, event, ironpot, IInv, TypeInv
  <1>2. EveryRecordAccounted'
    BY SMT DEF SpoolError, event, ironpot, IInv, TypeInv, EveryRecordAccounted
  <1>3. Ordered'
    BY SMT DEF SpoolError, event, IInv, TypeInv, Ordered, Increasing
  <1>4. Sized'
    BY SMT DEF SpoolError, event, IInv, TypeInv, Sized
  <1>5. Stamped'
    <2>1. /\ Posts' = Posts /\ UNCHANGED <<rec, stamp, last, kills>>
          /\ pc' = "idle" \/ pc # "idle"
      BY DEF SpoolError, event, ironpot, Posts
    <2> QED
      BY <2>1, SamePosts DEF IInv
  <1> QED
    BY <1>1, <1>2, <1>3, <1>4, <1>5 DEF IInv

LEMMA KillIInv ==
  ASSUME IInv, Kill
  PROVE  IInv'
  <1>0. /\ pc' = "idle" /\ last' = NoStamp /\ kills' = kills + 1 /\ kills' \in 0..MaxKills
        /\ clock' \in Int
        /\ gone' = IF pc = "idle" THEN gone ELSE gone \cup {rec}
        /\ UNCHANGED <<rec, stamp, attempt, rows, accepted, spool, old>>
        /\ late' = late \/ (pc = "post" /\ late' = late \cup {Stored})
    BY Constants DEF Kill, event, IInv, TypeInv
  <1>1. TypeInv'
    <2>1. late' \in SUBSET Row
      BY <1>0, StoredIsLast DEF IInv, TypeInv
    <2>2. gone' \in SUBSET Records
      BY <1>0 DEF IInv, TypeInv
    <2> QED
      BY <1>0, <2>1, <2>2, Constants, SMT DEF IInv, TypeInv
  <1>2. EveryRecordAccounted'
    <2>1. \A x : ExchangeKey(x)' = ExchangeKey(x)
      BY DEF ExchangeKey
    <2> QED
      BY <1>0, <2>1, SMT DEF IInv, TypeInv, EveryRecordAccounted
  <1>3. Ordered'
    BY <1>0, SMT DEF IInv, TypeInv, Ordered, Increasing
  <1>4. Sized'
    BY <1>0, SMT DEF IInv, TypeInv, Sized
  <1>5. Stamped'
    <2>1. ASSUME NEW x \in Posts'
          PROVE  x.rec <= rec /\ x.boot <= kills /\ x.boot \in Nat
      <3>1. x \in Posts \/ (pc = "post" /\ x = Stored)
        BY <1>0 DEF Posts
      <3>2. x.rec <= rec /\ x.boot <= kills
        BY <3>1, StoredIsLast, SMT DEF IInv, TypeInv, Stamped
      <3>3. x \in Row
        BY <3>1, StoredIsLast DEF Posts, IInv, TypeInv
      <3> QED
        BY <3>2, <3>3 DEF Row
    <2>2. ASSUME NEW x \in Posts' PROVE x.boot <= kills' /\ x.boot # kills'
      BY <1>0, <2>1, SMT DEF IInv, TypeInv
    <2>3. \A x, y \in Posts' : x = y \/ Before(x, y) \/ Before(y, x)
      <3>1. CASE late' = late
        BY <1>0, <3>1 DEF Posts, IInv, Stamped
      <3>2. CASE pc = "post" /\ late' = late \cup {Stored}
        <4>1. \A x \in Posts' : x \in Posts \/ x = Stored
          BY <1>0, <3>2 DEF Posts
        <4>2. \A x \in Posts : x = Stored \/ Before(x, Stored)
          BY <3>2, StoredIsLast DEF IInv
        <4> QED
          BY <4>1, <4>2, Zenon DEF IInv, Stamped
      <3> QED
        BY <1>0, <3>1, <3>2
    <2> QED
      BY <1>0, <2>1, <2>2, <2>3 DEF Stamped
  <1> QED
    BY <1>1, <1>2, <1>3, <1>4, <1>5 DEF IInv

LEMMA TickIInv ==
  ASSUME IInv, Tick
  PROVE  IInv'
  <1>1. TypeInv'
    BY Constants, SMT DEF Tick, event, ironpot, IInv, TypeInv
  <1>2. EveryRecordAccounted'
    BY SMT DEF Tick, event, ironpot, IInv, TypeInv, EveryRecordAccounted
  <1>3. Ordered'
    BY SMT DEF Tick, event, IInv, TypeInv, Ordered, Increasing
  <1>4. Sized'
    BY SMT DEF Tick, event, IInv, TypeInv, Sized
  <1>5. Stamped'
    <2>1. /\ Posts' = Posts /\ UNCHANGED <<rec, stamp, last, kills>>
          /\ pc' = "idle" \/ pc # "idle"
      BY DEF Tick, event, ironpot, Posts
    <2> QED
      BY <2>1, SamePosts DEF IInv
  <1> QED
    BY <1>1, <1>2, <1>3, <1>4, <1>5 DEF IInv

LEMMA NextIInv == IInv /\ [Next]_vars => IInv'
  <1> SUFFICES ASSUME IInv, [Next]_vars PROVE IInv'
    OBVIOUS
  <1>1. CASE Step
    BY <1>1, MapIInv, AcceptedIInv, RejectedIInv, FailedIInv, RetryIInv,
       SpoolRotateIInv, SpoolAppendIInv, SpoolErrorIInv DEF Step
  <1>2. CASE UNCHANGED vars
    BY <1>2 DEF vars, event, ironpot, IInv, TypeInv, EveryRecordAccounted, Ordered,
       Increasing, Sized, Stamped, Posts, Before, Stored, ExchangeKey
  <1> QED
    BY <1>1, <1>2, KillIInv, LateIInv, TickIInv DEF Next

LEMMA SpecIInv == Spec => []IInv
  BY InitIInv, NextIInv, PTL DEF Spec

-----------------------------------------------------------------------------
(* No record is missing without a cause the code names, through kills at   *)
(* any point, lost answers and errors of the spool.                        *)
THEOREM Accounted == Spec => []EveryRecordAccounted
  <1>1. IInv => EveryRecordAccounted
    BY DEF IInv
  <1> QED
    BY <1>1, SpecIInv, PTL

(* The two spool files, read one after the other, are in the order of the  *)
(* log and have no record twice, however often they were rotated.          *)
THEOREM ReplayInOrder == Spec => []SpoolInOrder
  <1>1. ASSUME IInv PROVE SpoolInOrder
    <2> DEFINE both == old \o spool
    <2>1. old \in Seq(Records) /\ spool \in Seq(Records) /\ Len(old) \in Nat /\ Len(spool) \in Nat
      BY <1>1, LenProperties DEF IInv, TypeInv
    <2>2. /\ DOMAIN both = 1..(Len(old) + Len(spool))
          /\ \A i \in 1..(Len(old) + Len(spool)) :
                both[i] = IF i <= Len(old) THEN old[i] ELSE spool[i - Len(old)]
      BY <2>1, ConcatProperties, LenProperties
    <2> HIDE DEF both
    <2>3. ASSUME NEW i \in DOMAIN both, NEW j \in DOMAIN both, i < j
          PROVE  both[i] < both[j]
      <3>1. CASE j <= Len(old)
        BY <1>1, <2>1, <2>2, <2>3, <3>1 DEF IInv, Ordered, Increasing
      <3>2. CASE i <= Len(old) /\ j > Len(old)
        <4>1. j - Len(old) \in 1..Len(spool) /\ i \in 1..Len(old)
          BY <2>1, <2>2, <2>3, <3>2
        <4> QED
          BY <1>1, <2>1, <2>2, <2>3, <3>2, <4>1 DEF IInv, Ordered
      <3>3. CASE i > Len(old)
        <4>1. /\ i - Len(old) \in 1..Len(spool) /\ j - Len(old) \in 1..Len(spool)
              /\ i - Len(old) < j - Len(old) /\ j > Len(old)
          BY <2>1, <2>2, <2>3, <3>3
        <4>2. both[i] = spool[i - Len(old)] /\ both[j] = spool[j - Len(old)]
          BY <2>1, <2>2, <2>3, <3>3, <4>1
        <4>3. Increasing(spool)
          BY <1>1 DEF IInv, Ordered
        <4> QED
          BY <4>1, <4>2, <4>3 DEF Increasing
      <3> QED
        BY <2>1, <2>2, <2>3, <3>1, <3>2, <3>3
    <2> QED
      BY <2>3 DEF SpoolInOrder, both
  <1> QED
    BY <1>1, SpecIInv, PTL

(* A spool file outgrows its cap by less than one record, for records of   *)
(* any sizes.                                                              *)
THEOREM Bounded == Spec => []SpoolBounded
  <1>1. IInv => SpoolBounded
    BY DEF IInv, Sized, SpoolBounded
  <1> QED
    BY <1>1, SpecIInv, PTL

(* A row that is new to IronPot, in time or late, goes where its stamp says*)
(* among those it has, under a key none of them has.                       *)
LEMMA StoreStep ==
  ASSUME IInv, NEW new \in Row, Insert(new), rows' # rows,
         \A row \in rows : row = new \/ Before(row, new) \/ Before(new, row)
  PROVE  Store!Next
  <1>1. ~Taken(new) /\ rows' = rows \cup {new}
    BY DEF Insert
  <1>2. \A row \in rows : <<row.stamp, Pdu[row.rec]>> # <<new.stamp, Pdu[new.rec]>>
    BY <1>1 DEF Taken, ExchangeKey
  <1>3. \A row \in rows : Store!Observed(row, new) \/ Store!Observed(new, row)
    <2>1. new \notin rows
      BY <1>1
    <2> QED
      BY <2>1 DEF Before, Store!Observed
  <1>4. Store!Store(new)
    BY <1>1, <1>2, <1>3 DEF Store!Store
  <1>5. new \in rows'
    BY <1>1
  <1> QED
    BY <1>4, <1>5 DEF Store!Next, Row

(* The table grows as ExchangeStore says, with every post that is repeated *)
(* or stored late and every restart.                                       *)
THEOREM Implements == Spec => ImplementsStore
  <1>1. Init => Store!Init
    BY DEF Init, Store!Init
  <1>2. ASSUME IInv, [Next]_vars PROVE [Store!Next]_rows
    <2>1. CASE Accepted
      <3>1. pc = "post" /\ Insert(Stored)
        BY <2>1 DEF Accepted
      <3>2. Stored \in Row /\ \A row \in rows : row = Stored \/ Before(row, Stored)
        BY <1>2, <3>1, StoredIsLast DEF IInv, Posts
      <3> QED
        BY <1>2, <3>1, <3>2, StoreStep
    <2>2. CASE Late
      <3>1. PICK post \in late : Insert(post)
        BY <2>2 DEF Late
      <3>2. /\ post \in Row
            /\ \A row \in rows : row = post \/ Before(row, post) \/ Before(post, row)
        BY <1>2 DEF IInv, TypeInv, Stamped, Posts
      <3> QED
        BY <1>2, <3>1, <3>2, StoreStep
    <2>3. CASE Map \/ Rejected \/ Failed \/ Retry \/ SpoolRotate \/ SpoolAppend
               \/ SpoolError \/ Kill \/ Tick
      BY <2>3 DEF Map, Rejected, Failed, Retry, SpoolRotate, SpoolAppend, SpoolError,
         Kill, Tick, ironpot
    <2>4. CASE UNCHANGED vars
      BY <2>4 DEF vars, ironpot
    <2> QED
      BY <1>2, <2>1, <2>2, <2>3, <2>4 DEF Next, Step
  <1> QED
    BY <1>1, <1>2, SpecIInv, PTL DEF Spec, ImplementsStore, Store!Spec

=============================================================================
