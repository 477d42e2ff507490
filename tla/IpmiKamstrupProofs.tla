------------------------- MODULE IpmiKamstrupProofs -------------------------
(* What holds of two services by themselves: the IPMI server's one session,   *)
(* for any clients and levels, and the requests of a Kamstrup connection, for *)
(* any number of them and wherever recv cuts their bytes.                     *)
EXTENDS IpmiServer, KamstrupParser, SequenceTheorems, NaturalsInduction,
        WellFoundedInduction, TLAPS

(* --------------------------------- IPMI ---------------------------------- *)
\* A client is neither the name for no client nor the one for a key of two.
ClientNames == Nobody \notin IpmiClients /\ "mixed" \notin IpmiClients

\* The fields of the session and of the handshake.
Sessions == [peer : IpmiClients \union {Nobody}, stage : {0, 1}, v2 : BOOLEAN,
            k1 : IpmiClients \union {Nobody, "mixed"}]
Shaken == [open : IpmiClients \union {Nobody}, rakp1 : IpmiClients \union {Nobody},
           kg : IpmiClients \union {Nobody}, max : Nat, priv : Nat]
Fields == session \in Sessions /\ shaken \in Shaken

\* SessionIsListed says nothing of the fields' types, which the steps need.
IpmiInv == Fields /\ SessionIsListed

\* What the updates of a session leave alone.
LEMMA NewSessions ==
  ASSUME NEW c \in IpmiClients
  PROVE  /\ None \in Sessions /\ None.k1 = Nobody
         /\ NewSession(c) \in Sessions
         /\ NewSession(c).peer = c /\ NewSession(c).k1 = Nobody
<1>1. None \in Sessions
  BY DEF None, Sessions
<1>2. NewSession(c) \in Sessions
  BY DEF None, NewSession, Sessions
<1>3. None.k1 = Nobody /\ NewSession(c).peer = c /\ NewSession(c).k1 = Nobody
  BY DEF None, NewSession
<1> QED BY <1>1, <1>2, <1>3

LEMMA SwitchedSession ==
  ASSUME session \in Sessions
  PROVE  V2 \in Sessions /\ V2.peer = session.peer /\ V2.k1 = session.k1
<1>1. V2 \in Sessions
  BY DEF V2, Sessions
<1>2. V2.peer = session.peer /\ V2.k1 = session.k1
  BY SMT DEF V2, Sessions
<1> QED BY <1>1, <1>2

LEMMA InitIpmiInv == ClientNames /\ IpmiInit => IpmiInv
BY SMT DEF ClientNames, IpmiInit, IpmiInv, Fields, Sessions, Shaken,
       SessionIsListed, HasSession, None, Nobody

\* Closing leaves no session, so nothing that would have to be listed.
LEMMA Closes ==
  ASSUME ClientNames, IpmiInv, NEW c \in IpmiClients,
         close_server_session(c), shaken' \in Shaken
  PROVE  IpmiInv'
BY SMT DEF ClientNames, IpmiInv, Fields, Sessions, Shaken,
       SessionIsListed, HasSession, None, Nobody,
           close_server_session

\* A datagram that at most switches the session to 2.0 and keeps the user's key,
\* the open request and the list.
LEMMA Stays ==
  ASSUME ClientNames, IpmiInv, session' = session \/ session' = V2, listed' = listed,
         HasSession,
         shaken' \in Shaken,
         shaken.open # Nobody => shaken'.open # Nobody,
         shaken.kg # Nobody => shaken'.kg = shaken.kg
  PROVE  IpmiInv'
<1>1. session' \in Sessions
      /\ session'.peer = session.peer /\ session'.k1 = session.k1
  BY SwitchedSession DEF IpmiInv, Fields
<1> QED BY <1>1, SMT DEF ClientNames, IpmiInv, Fields, Sessions, Shaken,
       SessionIsListed, HasSession, Nobody

LEMMA NextIpmiInv ==
  ASSUME ClientNames, MaxPriv \in Nat, IpmiInv, [IpmiNext]_ipmiVars
  PROVE  IpmiInv'
<1>1. CASE UNCHANGED ipmiVars
  BY <1>1, SMT DEF ipmiVars, IpmiInv, Fields, Sessions, Shaken,
       SessionIsListed, HasSession
<1>2. ASSUME NEW c \in IpmiClients, NewIgnored(c) PROVE IpmiInv'
  <2>1. shaken' \in Shaken
    BY <1>2, SMT DEF NewIgnored, IpmiInv, Fields, Shaken
  <2>2. session' \in Sessions /\ session'.k1 = Nobody
    <3>1. session' = None \/ session' = NewSession(c)
      BY <1>2 DEF NewIgnored
    <3> QED BY <3>1, NewSessions
  <2>3. session' # None => session'.peer \in listed'
    BY <1>2, NewSessions DEF NewIgnored
  <2> QED BY <2>1, <2>2, <2>3 DEF IpmiInv, Fields, SessionIsListed, HasSession, ClientNames
<1>3. ASSUME NEW c \in IpmiClients, NEW v2 \in BOOLEAN, NewAuthCap(c, v2) PROVE IpmiInv'
  <2>1. shaken' \in Shaken
    BY <1>3, SMT DEF NewAuthCap, IpmiInv, Fields, Shaken
  <2>2. session' \in Sessions /\ session'.k1 = Nobody
    <3>1. session' = [NewSession(c) EXCEPT !.stage = 1, !.v2 = v2]
      BY <1>3 DEF NewAuthCap
    <3> QED BY <3>1 DEF None, NewSession, Sessions
  <2>3. session' # None => session'.peer \in listed'
    BY <1>3, NewSessions DEF NewAuthCap
  <2> QED BY <2>1, <2>2, <2>3 DEF IpmiInv, Fields, SessionIsListed, HasSession, ClientNames
<1>4. ASSUME NEW c \in IpmiClients,
             StageZero(c) \/ Dropped(c) \/ CloseSession(c)
      PROVE  IpmiInv'
  BY <1>4, Closes, SMT DEF StageZero, Dropped, CloseSession, IpmiInv, Fields, Sessions, Shaken
<1>5. ASSUME NEW c \in IpmiClients, got_rmcp_openrequest(c) PROVE IpmiInv'
  <2>1. HasSession
    BY <1>5 DEF got_rmcp_openrequest, Known, IsNew
  <2>2. shaken' \in Shaken
        /\ shaken'.open = c /\ shaken'.kg = shaken.kg
    BY <1>5, SMT DEF got_rmcp_openrequest, IpmiInv, Fields, Sessions, Shaken
  <2> QED BY <1>5, <2>1, <2>2, Stays, SMT DEF got_rmcp_openrequest, ClientNames
<1>6. ASSUME NEW c \in IpmiClients, NEW p \in 1..MaxPriv, got_rakp1(c, p) PROVE IpmiInv'
  <2>1. HasSession /\ p \in Nat
    BY <1>6, SMT DEF got_rakp1, Known, IsNew
  <2>2. shaken' \in Shaken
        /\ shaken'.open = shaken.open /\ (shaken.kg # Nobody => shaken'.kg = shaken.kg)
    <3>1. \/ shaken' = [shaken EXCEPT !.max = p]
          \/ shaken' = [shaken EXCEPT !.rakp1 = c, !.max = p,
                          !.kg = IF @ = Nobody THEN c ELSE @]
      BY <1>6 DEF got_rakp1
    <3>2. CASE shaken' = [shaken EXCEPT !.max = p]
      BY <2>1, <3>2, SMT DEF IpmiInv, Fields, Shaken
    <3>3. CASE shaken' = [shaken EXCEPT !.rakp1 = c, !.max = p,
                            !.kg = IF @ = Nobody THEN c ELSE @]
      <4>1. shaken.kg \in IpmiClients \union {Nobody}
        BY SMT DEF IpmiInv, Fields, Shaken
      <4> DEFINE key == IF shaken.kg = Nobody THEN c ELSE shaken.kg
      <4>2. key \in IpmiClients \union {Nobody} /\ (shaken.kg # Nobody => key = shaken.kg)
        BY <4>1
      <4>3. shaken' = [shaken EXCEPT !.rakp1 = c, !.max = p, !.kg = key]
        BY <3>3
      <4> HIDE DEF key
      <4>4. shaken \in Shaken /\ p \in Nat
        BY <2>1 DEF IpmiInv, Fields
      <4>5. shaken' \in Shaken
        BY <4>2, <4>3, <4>4 DEF Shaken
      <4>6. shaken'.open = shaken.open /\ shaken'.kg = key
        BY <4>3, <4>4 DEF Shaken
      <4> QED BY <4>2, <4>5, <4>6
    <3> QED BY <3>1, <3>2, <3>3
  <2>3. CASE close_server_session(c)
    BY <2>2, <2>3, Closes
  <2>4. CASE session' = V2 /\ UNCHANGED listed
    BY <2>1, <2>2, <2>4, Stays
  <2> QED BY <1>6, <2>3, <2>4 DEF got_rakp1
<1>7. ASSUME NEW c \in IpmiClients, got_rakp3(c) PROVE IpmiInv'
  <2>1. CASE close_server_session(c)
    BY <1>7, <2>1, Closes, SMT DEF got_rakp3, IpmiInv, Fields, Sessions, Shaken
  <2>2. CASE /\ shaken.rakp1 = c /\ shaken.open = c /\ UNCHANGED listed
             /\ session' = [V2 EXCEPT !.k1 = IF shaken.kg = c THEN c ELSE "mixed"]
    <3>1. HasSession
      BY <1>7 DEF got_rakp3, Known, IsNew
    <3>2. session' \in Sessions
          /\ session'.peer = session.peer
          /\ session'.k1 = (IF shaken.kg = c THEN c ELSE "mixed")
      <4> DEFINE key == IF shaken.kg = c THEN c ELSE "mixed"
      <4>1. key \in IpmiClients \union {Nobody, "mixed"}
        OBVIOUS
      <4>2. V2 \in Sessions /\ V2.peer = session.peer
        BY SwitchedSession DEF IpmiInv, Fields
      <4>3. session' = [V2 EXCEPT !.k1 = key]
        BY <2>2
      <4> HIDE DEF key
      <4>4. session' \in Sessions
        BY <4>1, <4>2, <4>3 DEF Sessions
      <4>5. session'.peer = session.peer /\ session'.k1 = key
        BY <4>2, <4>3 DEF Sessions
      <4> QED BY <4>4, <4>5 DEF key
    <3>3. shaken' = shaken
      BY <1>7 DEF got_rakp3
    <3> QED BY <2>2, <3>1, <3>2, <3>3, SMT
              DEF ClientNames, IpmiInv, Fields, Sessions, Shaken, SessionIsListed,
              HasSession, Nobody
  <2> QED BY <1>7, <2>1, <2>2 DEF got_rakp3
<1>8. ASSUME NEW c \in IpmiClients, Reaches(c),
             shaken' = shaken \/ (\E p \in 1..MaxPriv : shaken' = [shaken EXCEPT !.priv = p])
      PROVE  IpmiInv'
  <2>1. HasSession
    BY <1>8 DEF Reaches, Plain, Keyed, Known, IsNew
  <2>2. shaken' \in Shaken
        /\ shaken'.open = shaken.open /\ shaken'.kg = shaken.kg
    BY <1>8, SMT DEF IpmiInv, Fields, Sessions, Shaken
  <2> QED BY <1>8, <2>1, <2>2, Stays, SMT DEF Reaches
<1>9. ASSUME NEW c \in IpmiClients,
             \/ Queried(c)
             \/ \E p \in 1..MaxPriv : SetPrivilege(c, p)
             \/ \E on \in BOOLEAN : SetUser(c, on)
             \/ \E op \in {"on", "off", "cycle", "reset"} : Chassis(c, op)
      PROVE  IpmiInv'
  BY <1>8, <1>9 DEF Queried, SetPrivilege, SetUser, Chassis
<1> QED BY <1>1, <1>2, <1>3, <1>4, <1>5, <1>6, <1>7, <1>9 DEF IpmiNext

\* The server's one session is always listed under the address it is closed by,
\* and its key is that of the first user tried, for any clients' datagrams in
\* any order.
THEOREM Listed ==
  ASSUME ClientNames, MaxPriv \in Nat
  PROVE  IpmiSpec => []SessionIsListed
<1>1. IpmiInit => IpmiInv
  BY InitIpmiInv
<1>2. IpmiInv /\ [IpmiNext]_ipmiVars => IpmiInv'
  BY NextIpmiInv
<1>3. IpmiInv => SessionIsListed
  BY DEF IpmiInv
<1> QED BY <1>1, <1>2, <1>3, PTL DEF IpmiSpec

(* ---------------------------- Kamstrup parser ---------------------------- *)
\* A set of naturals has a least member.
LEMMA LeastNat ==
  ASSUME NEW S \in SUBSET Nat, S # {}
  PROVE  \E m \in S : \A k \in S : m <= k
<1>1. PICK m \in S : \A k \in S : ~ (<<k, m>> \in OpToRel(<, Nat))
  BY NatLessThanWellFounded, WFMin
<1>2. \A k \in S : ~ (k < m)
  BY <1>1 DEF OpToRel
<1> QED BY <1>2

\* Concatenation is associative.
Grouped(s, t, u) == (s \o t) \o u = s \o (t \o u)

LEMMA Regroup ==
  ASSUME NEW S, NEW s \in Seq(S), NEW t \in Seq(S), NEW u \in Seq(S)
  PROVE  Grouped(s, t, u)
BY ConcatAssociative DEF Grouped

\* The partial joins of the sequences of s, and the joins that are still to come.
Joins(S, f, s, n) ==
  /\ f \in [1..n -> Seq(S)]
  /\ \A i \in 1..n : f[i] = IF i = 1 THEN s[i] ELSE f[i - 1] \o s[i]
Tails(S, r, s, m, n) ==
  /\ r \in [m..n -> Seq(S)] /\ r[n] = <<>>
  /\ \A i \in m..(n - 1) : r[i] = s[i + 1] \o r[i + 1]

LEMMA JoinsExist ==
  ASSUME NEW S, NEW n \in Nat, NEW s \in [1..n -> Seq(S)]
  PROVE  \E f : Joins(S, f, s, n)
<1> DEFINE bad == {m \in 0..n : ~ \E f : Joins(S, f, s, m)}
<1>1. SUFFICES ASSUME bad # {} PROVE FALSE
  <2>1. n \in 0..n
    OBVIOUS
  <2> QED BY <2>1
<1>2. PICK m \in bad : \A k \in bad : m <= k
  <2>1. bad \in SUBSET Nat
    OBVIOUS
  <2> HIDE DEF bad
  <2> QED BY <1>1, <2>1, LeastNat
<1>3. m # 0
  <2>1. [i \in 1..0 |-> <<>>] \in [1..0 -> Seq(S)] /\ 1..0 = {}
    OBVIOUS
  <2>2. Joins(S, [i \in 1..0 |-> <<>>], s, 0)
    BY <2>1 DEF Joins
  <2> QED BY <2>2
<1>4. m \in 1..n /\ m - 1 \in 0..n /\ m - 1 \notin bad /\ m \in Nat
  <2>1. m \in 0..n
    OBVIOUS
  <2> HIDE DEF bad
  <2>2. m \in 1..n /\ m - 1 \in 0..n /\ m \in Nat /\ ~(m <= m - 1)
    BY <1>3, <2>1
  <2> QED BY <1>2, <2>2
<1>5. PICK f : Joins(S, f, s, m - 1)
  BY <1>4
<1> DEFINE g == [i \in 1..m |-> IF i = m THEN IF m = 1 THEN s[m] ELSE f[m - 1] \o s[m] ELSE f[i]]
<1>6. s[m] \in Seq(S) /\ (m # 1 => f[m - 1] \in Seq(S) /\ m - 1 \in 1..m - 1)
  BY <1>4, <1>5 DEF Joins
<1>7. m # 1 => f[m - 1] \o s[m] \in Seq(S)
  BY <1>6, ConcatProperties
<1>8. g \in [1..m -> Seq(S)]
  <2>1. ASSUME NEW i \in 1..m, i # m PROVE f[i] \in Seq(S)
    <3>1. i \in 1..m - 1
      BY <1>4, <2>1
    <3> QED BY <1>5, <3>1 DEF Joins
  <2> QED BY <1>6, <1>7, <2>1
<1>9. ASSUME NEW i \in 1..m PROVE g[i] = IF i = 1 THEN s[i] ELSE g[i - 1] \o s[i]
  <2>1. CASE i = m
    <3>1. m # 1 => g[m - 1] = f[m - 1]
      BY <1>4
    <3> QED BY <2>1, <3>1
  <2>2. CASE i # m
    <3>1. i \in 1..m - 1 /\ g[i] = f[i]
      BY <1>4, <2>2
    <3>2. i # 1 => i - 1 \in 1..m /\ i - 1 # m
      BY <1>4, <3>1
    <3>3. i # 1 => g[i - 1] = f[i - 1]
      BY <3>2
    <3> QED BY <1>5, <3>1, <3>3 DEF Joins
  <2> QED BY <2>1, <2>2
<1> HIDE DEF g
<1>10. Joins(S, g, s, m)
  BY <1>8, <1>9 DEF Joins
<1> QED BY <1>2, <1>10

\* FlattenSeq is the last of the joins.
LEMMA FlattenJoins ==
  ASSUME NEW S, NEW n \in Nat \ {0}, NEW s \in [1..n -> Seq(S)]
  PROVE  \E f : Joins(S, f, s, n) /\ FlattenSeq(s) = f[n]
<1> DEFINE AtStep(f) == [i \in 1..n |-> IF i = 1 THEN s[i] ELSE f[i - 1] \o s[i]]
           sol == CHOOSE f : f = AtStep(f)
<1>1. s \in Seq(Seq(S)) /\ Len(s) = n
  OBVIOUS
<1>2. PICK f : Joins(S, f, s, n)
  BY JoinsExist
<1>3. f = AtStep(f)
  BY <1>2 DEF Joins
<1>4. sol = AtStep(sol)
  BY <1>3
<1>5. FlattenSeq(s) = sol[n]
  BY <1>1 DEF FlattenSeq
<1> HIDE DEF sol
<1>6. DOMAIN sol = 1..n /\ \A i \in 1..n : sol[i] = IF i = 1 THEN s[i] ELSE sol[i - 1] \o s[i]
  BY <1>4
<1>7. \A i \in 1..n : sol[i] = f[i]
  <2> DEFINE bad == {k \in 1..n : sol[k] # f[k]}
  <2>1. SUFFICES ASSUME bad # {} PROVE FALSE
    OBVIOUS
  <2>2. PICK k \in bad : \A j \in bad : k <= j
    <3>1. bad \in SUBSET Nat
      OBVIOUS
    <3> HIDE DEF bad
    <3> QED BY <2>1, <3>1, LeastNat
  <2>3. k # 1
    BY <1>2, <1>6 DEF Joins
  <2>4. k \in 1..n /\ k - 1 \in 1..n /\ k - 1 \notin bad
    BY <2>2, <2>3
  <2>5. sol[k - 1] = f[k - 1]
    BY <2>4
  <2> QED BY <1>2, <1>6, <2>3, <2>4, <2>5 DEF Joins
<1> QED BY <1>2, <1>5, <1>7

\* It is also the first of the tails, which a reader takes off one by one.
LEMMA FlattenTails ==
  ASSUME NEW S, NEW n \in Nat \ {0}, NEW s \in [1..n -> Seq(S)]
  PROVE  \E r : Tails(S, r, s, 0, n) /\ FlattenSeq(s) = r[0]
<1>a. \A a, b, c \in Seq(S) : (a \o b) \o c = a \o (b \o c)
  <2>1. \A k, l, m \in Seq(S) : Grouped(k, l, m)
    BY Regroup
  <2> QED BY <2>1 DEF Grouped
<1>1. PICK f : Joins(S, f, s, n) /\ FlattenSeq(s) = f[n]
  BY FlattenJoins
<1> DEFINE g == [i \in 0..n |-> IF i = 0 THEN <<>> ELSE f[i]]
<1>2. /\ g[0] = <<>> /\ g[n] = f[n] /\ \A i \in 0..n : g[i] \in Seq(S)
      /\ \A i \in 1..n : g[i] = g[i - 1] \o s[i]
  <2>1. \A i \in 1..n : f[i] \in Seq(S) /\ s[i] \in Seq(S)
    BY <1>1 DEF Joins
  <2>2. g[0] = <<>> /\ g[n] = f[n]
    OBVIOUS
  <2>3. ASSUME NEW i \in 0..n PROVE g[i] \in Seq(S)
    <3>1. i # 0 => i \in 1..n
      OBVIOUS
    <3> QED BY <2>1, <3>1, EmptySeq
  <2>4. ASSUME NEW i \in 1..n PROVE g[i] = g[i - 1] \o s[i]
    <3>1. i \in 0..n /\ i - 1 \in 0..n /\ (i # 1 => i - 1 # 0) /\ i # 0
      OBVIOUS
    <3>2. CASE i = 1
      BY <1>1, <2>1, <3>2, ConcatEmptySeq DEF Joins
    <3>3. CASE i # 1
      BY <1>1, <3>1, <3>3 DEF Joins
    <3> QED BY <3>2, <3>3
  <2> QED BY <2>2, <2>3, <2>4
<1> HIDE DEF g
<1>0. \A i \in 0..(n - 1) : g[i + 1] = g[i] \o s[i + 1]
  <2> TAKE i \in 0..(n - 1)
  <2> DEFINE j == i + 1
  <2>1. j \in 1..n /\ j - 1 = i
    OBVIOUS
  <2> HIDE DEF j
  <2>2. g[j] = g[j - 1] \o s[j]
    BY <1>2, <2>1
  <2> QED BY <2>1, <2>2 DEF j
<1> DEFINE Splits(m) == \E r : Tails(S, r, s, m, n) /\ g[n] = g[m] \o r[m]
           bad == {d \in 0..n : ~Splits(n - d)}
<1>3. bad = {}
  <2>1. SUFFICES ASSUME bad # {} PROVE FALSE
    OBVIOUS
  <2>2. PICK d \in bad : \A k \in bad : d <= k
    <3> HIDE DEF Splits
    <3>1. bad \in SUBSET Nat
      OBVIOUS
    <3> HIDE DEF bad
    <3> QED BY <2>1, <3>1, LeastNat
  <2>3. d # 0
    <3> DEFINE r == [i \in n..n |-> <<>>]
    <3>1. r \in [n..n -> Seq(S)] /\ r[n] = <<>> /\ n..(n - 1) = {}
      <4>1. n \in n..n /\ n..(n - 1) = {}
        OBVIOUS
      <4> QED BY <4>1, EmptySeq
    <3>2. g[n] = g[n] \o <<>>
      <4>1. g[n] \in Seq(S)
        BY <1>2
      <4> QED BY <4>1, ConcatEmptySeq
    <3> HIDE DEF r
    <3>3. Tails(S, r, s, n, n)
      BY <3>1 DEF Tails
    <3>4. Splits(n)
      BY <3>1, <3>2, <3>3
    <3>5. n - 0 = n
      OBVIOUS
    <3> HIDE DEF Splits
    <3> QED BY <3>4, <3>5
  <2> DEFINE m == n - d
  <2>4. d - 1 \in 0..n /\ d - 1 \notin bad /\ n - (d - 1) = m + 1 /\ m \in 0..(n - 1) /\ m + 1 \in 1..n
    <3> HIDE DEF Splits
    <3>1. d \in 0..n
      OBVIOUS
    <3> HIDE DEF bad
    <3>2. d - 1 \in 0..n /\ ~(d <= d - 1)
      BY <2>3, <3>1
    <3>3. n - (d - 1) = m + 1 /\ m \in 0..(n - 1) /\ m + 1 \in 1..n
      BY <2>3, <3>1
    <3> QED BY <2>2, <3>2, <3>3
  <2> HIDE DEF m
  <2>5. PICK r : Tails(S, r, s, m + 1, n) /\ g[n] = g[m + 1] \o r[m + 1]
    BY <2>4
  <2> DEFINE t == s[m + 1] \o r[m + 1]
             q == [i \in m..n |-> IF i = m THEN t ELSE r[i]]
  <2>6. s[m + 1] \in Seq(S) /\ r[m + 1] \in Seq(S) /\ g[m] \in Seq(S) /\ g[m + 1] = g[m] \o s[m + 1]
    <3>1. m + 1 \in (m + 1)..n /\ m \in 0..n /\ m + 1 - 1 = m
      BY <2>4
    <3>2. m + 1 \in 1..n
      BY <2>4
    <3>3. g[m + 1] = g[m] \o s[m + 1]
      BY <1>0, <2>4
    <3>4. s[m + 1] \in Seq(S)
      BY <3>2
    <3>5. r[m + 1] \in Seq(S)
      BY <2>5, <3>1 DEF Tails
    <3>6. g[m] \in Seq(S)
      BY <1>2, <3>1
    <3> QED BY <3>1, <3>3, <3>4, <3>5, <3>6
  <2>7. t \in Seq(S) /\ g[n] = g[m] \o t
    <3>1. t \in Seq(S)
      BY <2>6, ConcatProperties
    <3>3. (g[m] \o s[m + 1]) \o r[m + 1] = g[m] \o (s[m + 1] \o r[m + 1])
      <4> HIDE DEF t, q
      <4> QED BY <1>a, <2>6
    <3> QED BY <2>5, <2>6, <3>1, <3>3
  <2> HIDE DEF t
  <2>8. \A i \in m..n : i # m => i \in (m + 1)..n
    BY <2>4
  <2>9. q \in [m..n -> Seq(S)]
    BY <2>5, <2>7, <2>8 DEF Tails
  <2>10. m \in m..n /\ n \in m..n /\ n # m /\ m + 1 \in m..n /\ m + 1 # m
    BY <2>4
  <2>11. q[n] = <<>> /\ q[m] = t /\ q[m + 1] = r[m + 1]
    BY <2>5, <2>10 DEF Tails
  <2>12. ASSUME NEW i \in m..(n - 1) PROVE q[i] = s[i + 1] \o q[i + 1]
    <3>1. CASE i = m
      BY <2>11, <3>1 DEF t
    <3>2. CASE i # m
      <4>1. i \in (m + 1)..(n - 1) /\ i \in m..n /\ i + 1 \in m..n /\ i + 1 # m
        BY <2>4, <3>2
      <4>2. q[i] = r[i] /\ q[i + 1] = r[i + 1]
        BY <3>2, <4>1
      <4> QED BY <2>5, <4>1, <4>2 DEF Tails
    <3> QED BY <3>1, <3>2
  <2> HIDE DEF q
  <2>13. Tails(S, q, s, m, n)
    BY <2>9, <2>11, <2>12 DEF Tails
  <2>14. Splits(n - d)
    BY <2>7, <2>11, <2>13 DEF m
  <2> QED BY <2>2, <2>14
<1>4. Splits(n - n)
  <2>1. n \in 0..n
    OBVIOUS
  <2> QED BY <1>3, <2>1
<1>5. PICK r : Tails(S, r, s, 0, n) /\ g[n] = g[0] \o r[0]
  <2>1. n - n = 0
    OBVIOUS
  <2> QED BY <1>4, <2>1
<1>6. r[0] \in Seq(S)
  <2>1. 0 \in 0..n
    OBVIOUS
  <2> QED BY <1>5, <2>1 DEF Tails
<1> QED BY <1>1, <1>2, <1>5, <1>6, ConcatEmptySeq

\* Cutting a sequence that is a concatenation.
LEMMA Cut ==
  ASSUME NEW S, NEW s \in Seq(S), NEW t \in Seq(S)
  PROVE  /\ SubSeq(s \o t, 1, Len(s)) = s
         /\ SubSeq(s \o t, Len(s) + 1, Len(s \o t)) = t
         /\ s # <<>> => SubSeq(s \o t, 2, Len(s)) = Tail(s)
<1> DEFINE w == s \o t
           a == Len(s)
           b == Len(t)
<1>1. /\ a \in Nat /\ b \in Nat /\ w \in Seq(S) /\ Len(w) = a + b
      /\ \A i \in 1..a + b : w[i] \in S /\ w[i] = IF i <= a THEN s[i] ELSE t[i - a]
  <2>1. a \in Nat /\ b \in Nat /\ w \in Seq(S) /\ Len(w) = a + b
    BY LenProperties, ConcatProperties
  <2>2. \A i \in 1..a + b : w[i] = IF i <= a THEN s[i] ELSE t[i - a]
    BY ConcatProperties
  <2> HIDE DEF w
  <2> QED BY <2>1, <2>2, ElementOfSeq
<1> HIDE DEF w, a, b
<1>2. ASSUME NEW m \in Int, NEW n \in Int, m >= 1, n <= a + b
      PROVE  /\ SubSeq(w, m, n) \in Seq(S)
             /\ Len(SubSeq(w, m, n)) = IF m <= n THEN n - m + 1 ELSE 0
             /\ \A i \in 1..n - m + 1 : SubSeq(w, m, n)[i] = w[m + i - 1]
  <2>1. \A i \in m..n : i \in 1..a + b
    BY <1>1, <1>2
  <2>2. \A i \in m..n : w[i] \in S
    BY <1>1, <2>1
  <2> QED BY <1>2, <2>2, SubSeqProperties
<1>3. SubSeq(w, 1, a) = s
  <2> DEFINE u == SubSeq(w, 1, a)
  <2>1. u \in Seq(S) /\ Len(u) = a /\ \A i \in 1..a : u[i] = w[i]
    <3>1. /\ u \in Seq(S) /\ Len(u) = IF 1 <= a THEN a - 1 + 1 ELSE 0
          /\ \A i \in 1..a - 1 + 1 : u[i] = w[1 + i - 1]
      BY <1>1, <1>2
    <3> HIDE DEF u
    <3> QED BY <1>1, <3>1
  <2> HIDE DEF u
  <2>2. \A i \in 1..a : u[i] = s[i]
    BY <1>1, <2>1
  <2>3. u = s
    BY <1>1, <2>1, <2>2, SeqEqual DEF a
  <2> QED BY <2>3 DEF u
<1>4. SubSeq(w, a + 1, a + b) = t
  <2> DEFINE u == SubSeq(w, a + 1, a + b)
  <2>1. u \in Seq(S) /\ Len(u) = b /\ \A i \in 1..b : u[i] = w[a + i]
    <3>1. /\ u \in Seq(S) /\ Len(u) = IF a + 1 <= a + b THEN a + b - (a + 1) + 1 ELSE 0
          /\ \A i \in 1..a + b - (a + 1) + 1 : u[i] = w[a + 1 + i - 1]
      BY <1>1, <1>2
    <3> HIDE DEF u
    <3> QED BY <1>1, <3>1
  <2> HIDE DEF u
  <2>2. \A i \in 1..b : u[i] = t[i]
    <3> TAKE i \in 1..b
    <3>1. a + i \in 1..a + b /\ ~(a + i <= a) /\ a + i - a = i
      BY <1>1
    <3> QED BY <1>1, <2>1, <3>1
  <2>3. u = t
    BY <1>1, <2>1, <2>2, SeqEqual DEF b
  <2> QED BY <2>3 DEF u
<1>5. ASSUME s # <<>> PROVE SubSeq(w, 2, a) = Tail(s)
  <2> DEFINE u == SubSeq(w, 2, a)
             v == Tail(s)
  <2>1. v \in Seq(S) /\ Len(v) = a - 1 /\ \A i \in 1..Len(v) : v[i] = s[i + 1]
    BY <1>5, HeadTailProperties DEF a
  <2>2. a >= 1
    BY <1>1, <1>5, EmptySeq DEF a
  <2>3. u \in Seq(S) /\ Len(u) = a - 1 /\ \A i \in 1..a - 1 : u[i] = w[i + 1]
    <3>1. /\ u \in Seq(S) /\ Len(u) = IF 2 <= a THEN a - 2 + 1 ELSE 0
          /\ \A i \in 1..a - 2 + 1 : u[i] = w[2 + i - 1]
      BY <1>1, <1>2
    <3> HIDE DEF u
    <3> QED BY <1>1, <2>2, <3>1
  <2> HIDE DEF u, v
  <2>4. \A i \in 1..a - 1 : u[i] = v[i]
    <3> TAKE i \in 1..a - 1
    <3>1. i + 1 \in 1..a + b /\ i + 1 <= a
      BY <1>1, <2>2
    <3> QED BY <1>1, <2>1, <2>3, <3>1
  <2>5. u = v
    BY <2>1, <2>3, <2>4, SeqEqual
  <2> QED BY <2>5 DEF u, v
<1> QED BY <1>1, <1>3, <1>4, <1>5 DEF w, a

\* Taking the first element off.
LEMMA Uncons ==
  ASSUME NEW S, NEW s \in Seq(S), NEW t \in Seq(S), t # <<>>
  PROVE  /\ Head(t) \in S /\ Tail(t) \in Seq(S) /\ t = <<Head(t)>> \o Tail(t)
         /\ s \o t = Append(s, Head(t)) \o Tail(t)
         /\ t \o s # <<>> /\ Head(t \o s) = Head(t) /\ Tail(t \o s) = Tail(t) \o s
<1> DEFINE h == Head(t)
           r == Tail(t)
<1>1. h \in S /\ r \in Seq(S) /\ Len(r) = Len(t) - 1 /\ Len(t) \in Nat /\ Len(t) >= 1
      /\ \A i \in 1..Len(r) : r[i] = t[i + 1]
  BY HeadTailProperties, EmptySeq
<1>2. h = t[1]
  OBVIOUS
<1> HIDE DEF h, r
<1>3. <<h>> \in Seq(S) /\ Len(<<h>>) = 1 /\ <<h>>[1] = h
  BY <1>1
<1>4. t = <<h>> \o r
  <2> DEFINE w == <<h>> \o r
  <2>1. /\ w \in Seq(S) /\ Len(w) = 1 + Len(r)
        /\ \A i \in 1..1 + Len(r) : w[i] = IF i <= 1 THEN <<h>>[i] ELSE r[i - 1]
    BY <1>1, <1>3, ConcatProperties
  <2> HIDE DEF w
  <2>2. \A i \in 1..Len(t) : w[i] = t[i]
    <3> TAKE i \in 1..Len(t)
    <3>1. CASE i = 1
      BY <1>1, <1>2, <1>3, <2>1, <3>1
    <3>2. CASE i # 1
      <4>1. i - 1 \in 1..Len(r) /\ i - 1 + 1 = i /\ i \in 1..1 + Len(r) /\ ~(i <= 1)
        BY <1>1, <3>2
      <4> QED BY <1>1, <2>1, <4>1
    <3> QED BY <3>1, <3>2
  <2>3. Len(w) = Len(t)
    BY <1>1, <2>1
  <2>4. w = t
    BY <2>1, <2>2, <2>3, SeqEqual
  <2> QED BY <2>4 DEF w
<1>5. Append(s, h) = s \o <<h>>
  BY <1>1, AppendIsConcat
<1>6. Grouped(s, <<h>>, r) /\ Grouped(<<h>>, r, s)
  BY <1>1, <1>3, Regroup
<1>7. s \o t = Append(s, h) \o r
  BY <1>4, <1>5, <1>6, Zenon DEF Grouped
<1>8. t \o s = <<h>> \o (r \o s) /\ r \o s \in Seq(S)
  <2>1. r \o s \in Seq(S)
    BY <1>1, ConcatProperties
  <2> QED BY <1>4, <1>6, <2>1, Zenon DEF Grouped
<1>9. ASSUME NEW u \in Seq(S), NEW w \in Seq(S), u = <<h>> \o w
      PROVE  u # <<>> /\ Head(u) = h /\ Tail(u) = w
  <2>1. /\ Len(u) = 1 + Len(w) /\ Len(w) \in Nat
        /\ \A i \in 1..1 + Len(w) : u[i] = IF i <= 1 THEN <<h>>[i] ELSE w[i - 1]
    BY <1>3, <1>9, ConcatProperties, LenProperties
  <2>2. u # <<>> /\ u[1] = h
    <3>1. 1 \in 1..1 + Len(w)
      BY <2>1
    <3>2. Len(u) # 0
      BY <2>1
    <3> QED BY <1>3, <2>1, <3>1, <3>2
  <2> DEFINE v == Tail(u)
  <2>3. v \in Seq(S) /\ Len(v) = Len(u) - 1 /\ \A i \in 1..Len(v) : v[i] = u[i + 1]
    BY <2>2, HeadTailProperties
  <2> HIDE DEF v
  <2>4. \A i \in 1..Len(w) : v[i] = w[i]
    <3> TAKE i \in 1..Len(w)
    <3>1. i + 1 \in 1..1 + Len(w) /\ ~(i + 1 <= 1) /\ i + 1 - 1 = i /\ i \in 1..Len(v)
      BY <2>1, <2>3
    <3> QED BY <2>1, <2>3, <3>1
  <2>5. Len(v) = Len(w)
    BY <2>1, <2>3
  <2>6. v = w
    BY <2>3, <2>4, <2>5, SeqEqual
  <2> QED BY <2>2, <2>6 DEF v
<1>10. t \o s \in Seq(S)
  BY ConcatProperties
<1> QED BY <1>1, <1>4, <1>7, <1>8, <1>9, <1>10 DEF h, r

LEMMA OneChanged ==
  ASSUME NEW S, NEW w \in Seq(S), NEW n \in 1..Len(w), NEW x \in S
  PROVE  /\ [w EXCEPT ![n] = x] \in Seq(S)
         /\ Len([w EXCEPT ![n] = x]) = Len(w)
         /\ \A i \in 1..Len(w) : [w EXCEPT ![n] = x][i] = IF i = n THEN x ELSE w[i]
<1> DEFINE u == [w EXCEPT ![n] = x]
<1>1. w \in [1..Len(w) -> S] /\ Len(w) \in Nat
  BY LenProperties
<1>2. u \in [1..Len(w) -> S] /\ \A i \in 1..Len(w) : u[i] = IF i = n THEN x ELSE w[i]
  BY <1>1
<1>3. u \in Seq(S) /\ DOMAIN u = 1..Len(w)
  BY <1>1, <1>2, SeqDef
<1>4. Len(u) = Len(w)
  <2>1. DOMAIN u = 1..Len(u) /\ Len(u) \in Nat
    BY <1>3, LenProperties
  <2> HIDE DEF u
  <2> QED BY <1>1, <1>3, <2>1
<1> QED BY <1>2, <1>3, <1>4

\* Where s ends and t begins: what is there, and what becomes of the whole when it
\* is dropped, is kept, or is all that is kept.
Meeting(s, t) ==
  /\ (s \o t)[Len(s) + 1] = Head(t) /\ Len(s) + 1 > 0 /\ Len(s) + 1 <= Len(s \o t)
  /\ RemoveAt(s \o t, Len(s) + 1) = s \o Tail(t)
  /\ s \o t = Append(s, Head(t)) \o Tail(t)
  /\ Len(s) + 2 = Len(Append(s, Head(t))) + 1
  /\ s # <<>> => SubSeq(s \o t, 2, Len(s)) = Tail(s)
  /\ SubSeq(s \o t, Len(s) + 2, Len(s \o t)) = Tail(t)

\* And when it is changed to x.
Changed(s, t, x) ==
  /\ [(s \o t) EXCEPT ![Len(s) + 1] = x] = Append(s, x) \o Tail(t)
  /\ Len(s) + 2 = Len(Append(s, x)) + 1 /\ Append(s, x) # <<>>

\* What the scan does to a buffer that it has read up to its last part.
LEMMA AtCursor ==
  ASSUME NEW S, NEW s \in Seq(S), NEW t \in Seq(S), t # <<>>, NEW x \in S
  PROVE  Meeting(s, t) /\ Changed(s, t, x) /\ Append(s, x) \in Seq(S)
<1> DEFINE h == Head(t)
           r == Tail(t)
           a == Len(s)
           w == s \o t
           p == a + 1
<1>0. w = s \o t /\ p = Len(s) + 1
  OBVIOUS
<1> HIDE DEF w, p
<1>1. h \in S /\ r \in Seq(S) /\ w = Append(s, h) \o r
  BY <1>0, Uncons
<1>2. a \in Nat
  BY LenProperties
<1>3. w[p] = h /\ p > 0 /\ p <= Len(w)
  <2>1. Len(w) = a + Len(t) /\ \A i \in 1..a + Len(t) : w[i] = IF i <= a THEN s[i] ELSE t[i - a]
    BY <1>0, ConcatProperties
  <2>2. Len(t) \in Nat \ {0}
    BY EmptySeq
  <2>3. h = t[1]
    OBVIOUS
  <2> HIDE DEF h, r, a
  <2>4. p \in 1..a + Len(t) /\ ~(p <= a) /\ p - a = 1 /\ p = a + 1
    BY <1>0, <1>2, <2>2 DEF a
  <2> QED BY <2>1, <2>2, <2>3, <2>4
<1>4. ASSUME NEW y \in S
      PROVE  /\ Append(s, y) \in Seq(S) /\ Len(Append(s, y)) = a + 1 /\ Append(s, y)[a + 1] = y
             /\ Append(s, y) # <<>> /\ \A i \in 1..a : Append(s, y)[i] = s[i]
  <2>1. Append(s, y) \in Seq(S) /\ Len(Append(s, y)) = a + 1 /\ Append(s, y)[a + 1] = y
        /\ \A i \in 1..a : Append(s, y)[i] = s[i]
    BY AppendProperties
  <2>2. Append(s, y) # <<>>
    BY <1>2, <2>1, EmptySeq
  <2> QED BY <2>1, <2>2
<1>5. SubSeq(w, 1, a) = s /\ (s # <<>> => SubSeq(w, 2, a) = Tail(s))
  BY <1>0, Cut
<1>6. SubSeq(w, a + 2, Len(w)) = r
  <2>1. SubSeq(Append(s, h) \o r, Len(Append(s, h)) + 1, Len(Append(s, h) \o r)) = r
    <3> DEFINE b == Append(s, h)
    <3>1. b \in Seq(S)
      BY <1>1, <1>4
    <3> HIDE DEF b, r
    <3>2. SubSeq(b \o r, Len(b) + 1, Len(b \o r)) = r
      BY <1>1, <3>1, Cut
    <3> QED BY <3>2 DEF b
  <2>2. Len(Append(s, h)) + 1 = a + 2
    BY <1>1, <1>2, <1>4
  <2> QED BY <1>1, <2>1, <2>2
<1>7. p - 1 = a /\ p + 1 = a + 2
  BY <1>0, <1>2
<1>8. RemoveAt(w, p) = s \o r
  BY <1>5, <1>6, <1>7 DEF RemoveAt
<1>9. [w EXCEPT ![p] = x] = Append(s, x) \o r
  <2> DEFINE u == [w EXCEPT ![p] = x]
             v == Append(s, x) \o r
             b == Append(s, h)
             d == Append(s, x)
  <2>1. /\ w \in Seq(S) /\ Len(w) = a + 1 + Len(r) /\ Len(r) \in Nat
        /\ \A i \in 1..a + 1 + Len(r) : w[i] = IF i <= a + 1 THEN b[i] ELSE r[i - (a + 1)]
    BY <1>1, <1>4, ConcatProperties, LenProperties
  <2>2. /\ v \in Seq(S) /\ Len(v) = a + 1 + Len(r)
        /\ \A i \in 1..a + 1 + Len(r) : v[i] = IF i <= a + 1 THEN d[i] ELSE r[i - (a + 1)]
    BY <1>1, <1>4, ConcatProperties
  <2>3. p \in 1..Len(w) /\ p = a + 1
    BY <1>0, <1>2, <2>1
  <2>4. /\ u \in Seq(S) /\ Len(u) = Len(w)
        /\ \A i \in 1..Len(w) : u[i] = IF i = p THEN x ELSE w[i]
    <3>1. ASSUME NEW q \in Seq(S), NEW n \in 1..Len(q)
          PROVE  /\ [q EXCEPT ![n] = x] \in Seq(S) /\ Len([q EXCEPT ![n] = x]) = Len(q)
                 /\ \A i \in 1..Len(q) : [q EXCEPT ![n] = x][i] = IF i = n THEN x ELSE q[i]
      BY <3>1, OneChanged
    <3>2. w \in Seq(S) /\ p \in 1..Len(w)
      BY <2>1, <2>3
    <3> HIDE DEF v, b, d, h, r, a
    <3> QED BY <3>1, <3>2, Zenon
  <2>5. /\ b[a + 1] = h /\ d[a + 1] = x /\ \A i \in 1..a : b[i] = s[i] /\ d[i] = s[i]
    BY <1>1, <1>4
  <2> HIDE DEF u, v, b, d, h, r, a
  <2>6. \A i \in 1..Len(w) : u[i] = v[i]
    <3> TAKE i \in 1..Len(w)
    <3>1. CASE i <= a
      <4>1. i \in 1..a /\ i # p /\ i <= a + 1 /\ i \in 1..a + 1 + Len(r)
        BY <1>2, <2>1, <2>3, <3>1
      <4> QED BY <2>1, <2>2, <2>4, <2>5, <4>1
    <3>2. CASE i = a + 1
      <4>1. i \in 1..a + 1 + Len(r) /\ i <= a + 1
        BY <1>2, <2>1, <3>2
      <4> QED BY <2>2, <2>3, <2>4, <2>5, <3>2, <4>1
    <3>3. CASE i > a + 1
      <4>1. i \in 1..a + 1 + Len(r) /\ ~(i <= a + 1) /\ i # p
        BY <1>2, <2>1, <2>3, <3>3
      <4> QED BY <2>1, <2>2, <2>4, <4>1
    <3>4. i \in Int
      OBVIOUS
    <3> QED BY <1>2, <3>1, <3>2, <3>3, <3>4
  <2>7. u = v
    BY <2>1, <2>2, <2>4, <2>6, SeqEqual
  <2> QED BY <2>7 DEF u, v
<1> HIDE DEF h, r, a
<1>10. p + 1 = Len(Append(s, x)) + 1 /\ p + 1 = Len(Append(s, h)) + 1
  BY <1>1, <1>2, <1>4, <1>7 DEF a
<1>11. Append(s, x) \in Seq(S) /\ Append(s, x) # <<>>
  BY <1>4
<1>12. Len(s) = a /\ Len(s) + 1 = p /\ Len(s) + 2 = p + 1
  BY <1>0, <1>2 DEF a
<1>13. Meeting(s, t)
  BY <1>0, <1>1, <1>3, <1>5, <1>6, <1>7, <1>8, <1>10, <1>12 DEF Meeting, h, r
<1>14. Changed(s, t, x)
  BY <1>0, <1>9, <1>10, <1>11, <1>12 DEF Changed, r
<1> QED BY <1>11, <1>13, <1>14

ParserBytes == {"eot^", "escape^", "data", "eot", "magic", "escape", "invalid"}
Contents == Good \union {Bad}

\* A byte of a request as it is sent, and what of a request is left after its first i.
Esc(x) == IF x \in {Eot, Escape} THEN <<Escape, Inverted[x]>> ELSE <<x>>
LeftOf(c, i) == CASE i = 0 -> Esc(c[1]) \o (Esc(c[2]) \o <<Eot>>)
                  [] i = 1 -> Esc(c[2]) \o <<Eot>>
                  [] OTHER -> <<Eot>>
ReadOf(c, i) == CASE i = 0 -> <<Magic>>
                  [] i = 1 -> <<Magic, c[1]>>
                  [] OTHER -> <<Magic, c[1], c[2]>>

\* The scan has read done, unescaped, of request c and next is what it has not read.
Within(c, done, next, afterEscape) ==
  \/ done = <<>> /\ next = Framed(c) /\ ~afterEscape
  \/ \E i \in 0..2 :
       /\ done = ReadOf(c, i)
       /\ \/ ~afterEscape /\ next = LeftOf(c, i)
          \/ /\ afterEscape /\ i < 2 /\ c[i + 1] \in {Eot, Escape}
             /\ next = <<Inverted[c[i + 1]]>> \o LeftOf(c, i + 1)

\* The requests of the model: two bytes each.
LEMMA TwoBytes ==
  ASSUME NEW c \in Contents
  PROVE  /\ c \in Seq(ParserBytes) /\ Len(c) = 2 /\ c = <<c[1], c[2]>>
         /\ c[1] \in {"data", "eot", "escape", "invalid"}
         /\ c[2] \in {"data", "eot", "escape", "invalid"}
<1>1. c \in {<<"data", "data">>, <<"data", "eot">>, <<"escape", "data">>, <<"data", "invalid">>}
  BY DEF Contents, Good, Bad
<1>2. ASSUME NEW x \in {"data", "escape"}, NEW y \in {"data", "eot", "invalid"}, c = <<x, y>>
      PROVE  /\ c \in Seq(ParserBytes) /\ Len(c) = 2 /\ c = <<c[1], c[2]>>
             /\ c[1] \in {"data", "eot", "escape", "invalid"}
             /\ c[2] \in {"data", "eot", "escape", "invalid"}
  <2>1. x \in ParserBytes /\ y \in ParserBytes
    BY DEF ParserBytes
  <2>2. Len(c) = 2 /\ c[1] = x /\ c[2] = y
    BY <1>2
  <2>3. c \in Seq(ParserBytes)
    BY <1>2, <2>1
  <2> QED BY <1>2, <2>2, <2>3
<1>3. \E x \in {"data", "escape"} : \E y \in {"data", "eot", "invalid"} : c = <<x, y>>
  BY <1>1
<1> QED BY <1>2, <1>3

LEMMA EscapedByte ==
  ASSUME NEW x \in {"data", "eot", "escape", "invalid"}
  PROVE  /\ x \in ParserBytes /\ Esc(x) \in Seq(ParserBytes)
         /\ x \in {"eot", "escape"} =>
              /\ Esc(x) = <<"escape", Inverted[x]>> /\ Inverted[x] \in ParserBytes
              /\ Inverted[Inverted[x]] = x
         /\ x \notin {"eot", "escape"} => Esc(x) = <<x>>
<1>1. x \in {"eot", "escape"} => /\ Inverted[x] \in ParserBytes
                                 /\ Inverted[Inverted[x]] = x
  BY DEF Inverted, ParserBytes
<1>2. x \in {"eot", "escape"} => Esc(x) = <<"escape", Inverted[x]>>
  BY DEF Esc, Eot, Escape
<1>3. x \notin {"eot", "escape"} => Esc(x) = <<x>>
  BY DEF Esc, Eot, Escape
<1>4. x \in ParserBytes /\ "escape" \in ParserBytes
  BY DEF ParserBytes
<1>5. \A y \in ParserBytes : <<y>> \in Seq(ParserBytes)
  OBVIOUS
<1>6. \A y, z \in ParserBytes : <<y, z>> \in Seq(ParserBytes)
  OBVIOUS
<1>7. Esc(x) \in Seq(ParserBytes)
  <2>1. CASE x \in {"eot", "escape"}
    BY <1>1, <1>2, <1>4, <1>6, <2>1
  <2>2. CASE x \notin {"eot", "escape"}
    BY <1>3, <1>4, <1>5, <2>2
  <2> QED BY <2>1, <2>2
<1> QED BY <1>1, <1>2, <1>3, <1>4, <1>7

\* What of a request is left begins with its next byte, or its escape.
LEMMA LeftStep ==
  ASSUME NEW c \in Contents
  PROVE  /\ \A i \in 0..2 : LeftOf(c, i) \in Seq(ParserBytes) /\ ReadOf(c, i) \in Seq(ParserBytes)
         /\ \A i \in 0..1 : /\ LeftOf(c, i) = Esc(c[i + 1]) \o LeftOf(c, i + 1)
                            /\ c[i + 1] \in {"data", "eot", "escape", "invalid"}
                            /\ ReadOf(c, i + 1) = Append(ReadOf(c, i), c[i + 1])
         /\ LeftOf(c, 2) = <<"eot">> /\ Tail(ReadOf(c, 2)) = c /\ ReadOf(c, 0) = <<"magic">>
         /\ \A i \in 0..2 : ReadOf(c, i) # <<>>
         /\ Framed(c) = <<"magic">> \o LeftOf(c, 0)
<1>1. /\ c \in Seq(ParserBytes) /\ Len(c) = 2 /\ c = <<c[1], c[2]>>
      /\ c[1] \in {"data", "eot", "escape", "invalid"}
      /\ c[2] \in {"data", "eot", "escape", "invalid"}
  BY TwoBytes
<1>2. "eot" \in ParserBytes /\ "magic" \in ParserBytes /\ c[1] \in ParserBytes /\ c[2] \in ParserBytes
  BY <1>1 DEF ParserBytes
<1> DEFINE E == <<"eot">>
           e1 == Esc(c[1])
           e2 == Esc(c[2])
<1>3. E \in Seq(ParserBytes) /\ e1 \in Seq(ParserBytes) /\ e2 \in Seq(ParserBytes)
  <2>1. E \in Seq(ParserBytes)
    BY <1>2
  <2> QED BY <1>1, <2>1, EscapedByte
<1>4. LeftOf(c, 0) = e1 \o (e2 \o E) /\ LeftOf(c, 1) = e2 \o E /\ LeftOf(c, 2) = E
  BY DEF LeftOf, Eot
<1>5. ReadOf(c, 0) = <<"magic">> /\ ReadOf(c, 1) = <<"magic", c[1]>>
      /\ ReadOf(c, 2) = <<"magic", c[1], c[2]>>
  BY DEF ReadOf, Magic
<1>6. e2 \o E \in Seq(ParserBytes) /\ e1 \o (e2 \o E) \in Seq(ParserBytes)
  BY <1>3, ConcatProperties
<1>7. \A i \in 0..2 : i = 0 \/ i = 1 \/ i = 2
  OBVIOUS
<1>8. \A i \in 0..1 : i = 0 \/ i = 1
  OBVIOUS
<1>9. \A i \in 0..2 : ReadOf(c, i) \in Seq(ParserBytes) /\ ReadOf(c, i) # <<>>
  <2>1. <<"magic">> \in Seq(ParserBytes) /\ <<"magic">> # <<>>
    BY <1>2
  <2>2. <<"magic", c[1]>> \in Seq(ParserBytes) /\ <<"magic", c[1]>> # <<>>
    BY <1>2
  <2>3. <<"magic", c[1], c[2]>> \in Seq(ParserBytes) /\ <<"magic", c[1], c[2]>> # <<>>
    BY <1>2
  <2> QED BY <1>5, <1>7, <2>1, <2>2, <2>3
<1>10. \A i \in 0..2 : LeftOf(c, i) \in Seq(ParserBytes)
  BY <1>3, <1>4, <1>6, <1>7
<1>11. Tail(ReadOf(c, 2)) = c
  <2>1. Tail(<<"magic", c[1], c[2]>>) = <<c[1], c[2]>>
    OBVIOUS
  <2> QED BY <1>1, <1>5, <2>1
<1>12. \A i \in 0..1 : /\ LeftOf(c, i) = Esc(c[i + 1]) \o LeftOf(c, i + 1)
                       /\ c[i + 1] \in {"data", "eot", "escape", "invalid"}
                       /\ ReadOf(c, i + 1) = Append(ReadOf(c, i), c[i + 1])
  <2>1. <<"magic", c[1]>> = Append(<<"magic">>, c[1])
        /\ <<"magic", c[1], c[2]>> = Append(<<"magic", c[1]>>, c[2])
    OBVIOUS
  <2>2. 0 + 1 = 1 /\ 1 + 1 = 2
    OBVIOUS
  <2> HIDE DEF E
  <2>3. \A i \in 0..1 : /\ LeftOf(c, i) = Esc(c[i + 1]) \o LeftOf(c, i + 1)
                        /\ c[i + 1] \in {"data", "eot", "escape", "invalid"}
    BY <1>1, <1>4, <1>8, <2>2
  <2>4. \A i \in 0..1 : ReadOf(c, i + 1) = Append(ReadOf(c, i), c[i + 1])
    BY <1>5, <1>8, <2>1, <2>2
  <2> QED BY <2>3, <2>4
<1>13. Framed(c) = <<"magic">> \o LeftOf(c, 0)
  <2> DEFINE q == [i \in 1..Len(c) |->
                     IF c[i] \in {Eot, Escape}
                       THEN <<Escape, Inverted[c[i]]>> ELSE <<c[i]>>]
  <2>1. q = [i \in 1..2 |-> Esc(c[i])]
    BY <1>1 DEF Esc
  <2>2. q \in [1..2 -> Seq(ParserBytes)] /\ q[1] = e1 /\ q[2] = e2
    <3>1. \A i \in 1..2 : i = 1 \/ i = 2
      OBVIOUS
    <3>2. \A i \in 1..2 : Esc(c[i]) \in Seq(ParserBytes)
      BY <1>3, <3>1
    <3> HIDE DEF q
    <3> QED BY <2>1, <3>2
  <2>3. Escaped(c) = FlattenSeq(q)
    BY DEF Escaped
  <2> HIDE DEF q, e1, e2
  <2>4. PICK f : Joins(ParserBytes, f, q, 2) /\ FlattenSeq(q) = f[2]
    <3>1. 2 \in Nat \ {0}
      OBVIOUS
    <3> QED BY <2>2, <3>1, FlattenJoins
  <2>5. f[2] = e1 \o e2
    <3>1. 1 \in 1..2 /\ 2 \in 1..2 /\ 2 - 1 = 1
      OBVIOUS
    <3>2. f[1] = q[1] /\ f[2] = f[1] \o q[2]
      BY <2>4, <3>1 DEF Joins
    <3> QED BY <2>2, <3>2
  <2>6. Framed(c) = <<"magic">> \o (e1 \o e2) \o E
    BY <2>3, <2>4, <2>5 DEF Framed, Magic, Eot
  <2>7. \A s, t, u \in Seq(ParserBytes) : (s \o t) \o u = s \o (t \o u)
    <3>1. \A k, l, m \in Seq(ParserBytes) : Grouped(k, l, m)
      BY Regroup
    <3> QED BY <3>1 DEF Grouped
  <2>8. <<"magic">> \in Seq(ParserBytes) /\ e1 \o e2 \in Seq(ParserBytes)
    <3>1. <<"magic">> \in Seq(ParserBytes)
      BY <1>2
    <3> QED BY <1>3, <3>1, ConcatProperties
  <2> HIDE DEF E
  <2>9. <<"magic">> \o (e1 \o e2) \o E = <<"magic">> \o ((e1 \o e2) \o E)
    BY <1>3, <2>7, <2>8
  <2>10. (e1 \o e2) \o E = e1 \o (e2 \o E)
    BY <1>3, <2>7
  <2> QED BY <1>4, <2>6, <2>9, <2>10
<1> QED BY <1>4, <1>5, <1>9, <1>10, <1>11, <1>12, <1>13

LEMMA FirstOff ==
  ASSUME NEW S, NEW x \in S, NEW u \in Seq(S)
  PROVE  <<x>> \o u # <<>> /\ Head(<<x>> \o u) = x /\ Tail(<<x>> \o u) = u
<1>1. <<x>> \in Seq(S) /\ <<x>> # <<>> /\ Head(<<x>>) = x /\ Tail(<<x>>) = <<>>
  OBVIOUS
<1>2. /\ <<x>> \o u # <<>> /\ Head(<<x>> \o u) = Head(<<x>>)
      /\ Tail(<<x>> \o u) = Tail(<<x>>) \o u
  BY <1>1, Uncons
<1> QED BY <1>1, <1>2, ConcatEmptySeq

\* What its next byte is to a scan inside a request, and where it leads.
ByteRead(c, done, next, esc) ==
  /\ next # <<>>
  /\ done = <<>> => Head(next) = "magic" /\ ~esc
  /\ esc => /\ Inverted[Head(next)] \in ParserBytes
            /\ Within(c, Append(done, Inverted[Head(next)]), Tail(next), FALSE)
  /\ ~esc /\ Head(next) = "escape" => Within(c, done, Tail(next), TRUE) /\ done # <<>>
  /\ ~esc /\ Head(next) \notin {"escape", "eot"} =>
       Within(c, Append(done, Head(next)), Tail(next), FALSE)
  /\ ~esc /\ Head(next) = "eot" => Tail(next) = <<>> /\ Tail(done) = c /\ done # <<>>

\* The next byte of a request, and where the scan is once it has dealt with it.
LEMMA WithinStep ==
  ASSUME NEW c \in Contents, NEW done \in Seq(ParserBytes), NEW next \in Seq(ParserBytes),
         NEW esc \in BOOLEAN, Within(c, done, next, esc)
  PROVE  ByteRead(c, done, next, esc)
<1> DEFINE h == Head(next)
           t == Tail(next)
           Goal == /\ next # <<>>
                   /\ done = <<>> => h = "magic" /\ ~esc
                   /\ esc => /\ Inverted[h] \in ParserBytes
                             /\ Within(c, Append(done, Inverted[h]), t, FALSE)
                   /\ ~esc /\ h = "escape" => Within(c, done, t, TRUE) /\ done # <<>>
                   /\ ~esc /\ h \notin {"escape", "eot"} => Within(c, Append(done, h), t, FALSE)
                   /\ ~esc /\ h = "eot" => t = <<>> /\ Tail(done) = c /\ done # <<>>
<1>1. /\ \A i \in 0..2 : LeftOf(c, i) \in Seq(ParserBytes) /\ ReadOf(c, i) \in Seq(ParserBytes)
      /\ \A i \in 0..1 : /\ LeftOf(c, i) = Esc(c[i + 1]) \o LeftOf(c, i + 1)
                         /\ c[i + 1] \in {"data", "eot", "escape", "invalid"}
                         /\ ReadOf(c, i + 1) = Append(ReadOf(c, i), c[i + 1])
      /\ LeftOf(c, 2) = <<"eot">> /\ Tail(ReadOf(c, 2)) = c /\ ReadOf(c, 0) = <<"magic">>
      /\ \A i \in 0..2 : ReadOf(c, i) # <<>>
      /\ Framed(c) = <<"magic">> \o LeftOf(c, 0)
  BY LeftStep
<1>2. "magic" \in ParserBytes /\ "escape" \in ParserBytes
  BY DEF ParserBytes
<1>3. \A i \in 0..1 : i \in 0..2 /\ i + 1 \in 0..2 /\ i < 2
  OBVIOUS
<1>4. ASSUME NEW i \in 0..2, NEW done1, NEW next1, done1 = ReadOf(c, i), next1 = LeftOf(c, i)
      PROVE  Within(c, done1, next1, FALSE)
  BY <1>4 DEF Within
<1>5. ASSUME done = <<>> /\ next = Framed(c) /\ ~esc PROVE Goal
  <2>1. LeftOf(c, 0) \in Seq(ParserBytes) /\ 0 \in 0..2
    BY <1>1
  <2>2. next # <<>> /\ h = "magic" /\ t = LeftOf(c, 0)
    <3> DEFINE l == LeftOf(c, 0)
    <3>1. next = <<"magic">> \o l /\ l \in Seq(ParserBytes)
      BY <1>1, <1>5, <2>1
    <3> HIDE DEF l
    <3>2. <<"magic">> \o l # <<>> /\ Head(<<"magic">> \o l) = "magic" /\ Tail(<<"magic">> \o l) = l
      BY <1>2, <3>1, FirstOff
    <3> QED BY <3>1, <3>2 DEF l
  <2>3. Append(done, h) = ReadOf(c, 0)
    <3>1. Append(<<>>, "magic") = <<"magic">>
      OBVIOUS
    <3> QED BY <1>1, <1>5, <2>2, <3>1
  <2>4. Within(c, Append(done, h), t, FALSE)
    BY <1>4, <2>1, <2>2, <2>3
  <2> HIDE DEF h, t
  <2> QED BY <1>5, <2>2, <2>4
<1>6. ASSUME NEW i \in 0..2, done = ReadOf(c, i), ~esc, next = LeftOf(c, i) PROVE Goal
  <2>1. done # <<>>
    BY <1>1, <1>6
  <2>2. CASE i = 2
    <3>1. next = <<"eot">> /\ Tail(done) = c
      BY <1>1, <1>6, <2>2
    <3>2. next # <<>> /\ h = "eot" /\ t = <<>>
      BY <3>1
    <3> HIDE DEF h, t
    <3> QED BY <1>6, <2>1, <3>1, <3>2
  <2>3. CASE i # 2
    <3> DEFINE x == c[i + 1]
               l == LeftOf(c, i + 1)
    <3>1. i \in 0..1 /\ i + 1 \in 0..2 /\ i < 2
      BY <2>3
    <3>2. /\ next = Esc(x) \o l /\ x \in {"data", "eot", "escape", "invalid"}
          /\ ReadOf(c, i + 1) = Append(done, x) /\ l \in Seq(ParserBytes)
      BY <1>1, <1>6, <3>1
    <3> HIDE DEF l, x
    <3>3. CASE x \in {"eot", "escape"}
      <4> DEFINE y == Inverted[x]
                 r == <<y>> \o l
      <4>1. Esc(x) = <<"escape", y>> /\ y \in ParserBytes
        BY <3>2, <3>3, EscapedByte
      <4> HIDE DEF y
      <4>2. /\ <<y>> \in Seq(ParserBytes) /\ <<"escape">> \in Seq(ParserBytes)
            /\ <<"escape", y>> = <<"escape">> \o <<y>>
        BY <1>2, <4>1
      <4>3. next = <<"escape">> \o r /\ r \in Seq(ParserBytes)
        <5>1. \A s, u, v \in Seq(ParserBytes) : (s \o u) \o v = s \o (u \o v)
          <6>1. \A s, u, v \in Seq(ParserBytes) : Grouped(s, u, v)
            BY Regroup
          <6> QED BY <6>1 DEF Grouped
        <5>2. (<<"escape">> \o <<y>>) \o l = <<"escape">> \o (<<y>> \o l)
          BY <3>2, <4>2, <5>1
        <5>3. r \in Seq(ParserBytes)
          BY <3>2, <4>2, ConcatProperties
        <5> QED BY <3>2, <4>1, <4>2, <5>2, <5>3
      <4>4. next # <<>> /\ h = "escape" /\ t = r
        <5> HIDE DEF r
        <5> QED BY <1>2, <4>3, FirstOff
      <4>5. Within(c, done, t, TRUE)
        <5>1. /\ c[i + 1] \in {Eot, Escape}
              /\ t = <<Inverted[c[i + 1]]>> \o LeftOf(c, i + 1)
          BY <3>3, <4>4 DEF x, y, l, Eot, Escape
        <5> HIDE DEF h, t
        <5> QED BY <1>6, <3>1, <5>1 DEF Within
      <4> HIDE DEF h, t
      <4> QED BY <1>6, <2>1, <4>4, <4>5
    <3>4. CASE x \notin {"eot", "escape"}
      <4>1. next = <<x>> \o l /\ x \in ParserBytes
        BY <3>2, <3>4, EscapedByte
      <4>2. next # <<>> /\ h = x /\ t = l
        BY <3>2, <4>1, FirstOff
      <4>3. Within(c, Append(done, h), t, FALSE)
        BY <1>4, <3>1, <3>2, <4>2 DEF l
      <4> HIDE DEF h, t
      <4> QED BY <1>6, <2>1, <3>4, <4>2, <4>3
    <3> QED BY <3>3, <3>4
  <2> QED BY <2>2, <2>3
<1>7. ASSUME NEW i \in 0..2, done = ReadOf(c, i), esc, i < 2,
             c[i + 1] \in {Eot, Escape},
             next = <<Inverted[c[i + 1]]>> \o LeftOf(c, i + 1)
      PROVE  Goal
  <2> DEFINE x == c[i + 1]
             y == Inverted[x]
             l == LeftOf(c, i + 1)
  <2>1. i \in 0..1 /\ i + 1 \in 0..2
    BY <1>7
  <2>2. /\ x \in {"data", "eot", "escape", "invalid"}
        /\ ReadOf(c, i + 1) = Append(done, x) /\ l \in Seq(ParserBytes) /\ done # <<>>
    BY <1>1, <1>7, <2>1
  <2>3. x \in {"eot", "escape"} /\ next = <<y>> \o l
    BY <1>7 DEF Eot, Escape
  <2>4. y \in ParserBytes /\ Inverted[y] = x /\ x \in ParserBytes
    <3> HIDE DEF x
    <3> QED BY <2>2, <2>3, EscapedByte
  <2> HIDE DEF y, l
  <2>5. next # <<>> /\ h = y /\ t = l
    BY <2>2, <2>3, <2>4, FirstOff
  <2>6. Within(c, Append(done, x), t, FALSE)
    BY <1>4, <2>1, <2>2, <2>5 DEF l
  <2>7. Inverted[h] = x
    BY <2>4, <2>5
  <2> HIDE DEF h, t, x
  <2> QED BY <1>7, <2>2, <2>4, <2>5, <2>6, <2>7
<1> HIDE DEF h, t
<1>8. Goal
  <2> HIDE DEF Goal
  <2> QED BY <1>5, <1>6, <1>7 DEF Within
<1> QED BY <1>8 DEF h, t, ByteRead

FramedAll == [i \in 1..Len(frames) |-> Framed(frames[i])]

\* The scan has read done of the buffer, and ahead is what it has not read of it.
Scanned(done, ahead) ==
  /\ done \in Seq(ParserBytes) /\ ahead \in Seq(ParserBytes) /\ buffer = done \o ahead
  /\ \/ scan = "scan" /\ position = Len(done) + 1
     \/ scan = "recv" /\ position = 0 /\ ahead = <<>>

\* Before the first request, inside the one after those returned, or after the last.
Before(rest, done, ahead) ==
  /\ parsed = <<>> /\ ~parsing /\ ~escaped /\ unescaped = "none" /\ done = <<>>
  /\ ahead \o toCome = <<"data">> \o rest[0]
Inside(rest, done, ahead) ==
  \E next \in Seq(ParserBytes) :
    /\ Len(parsed) < Len(frames) /\ Within(frames[Len(parsed) + 1], done, next, escaped)
    /\ ahead \o toCome = next \o rest[Len(parsed) + 1]
    /\ done # <<>> => parsing
    /\ unescaped \in {"none", "some"} /\ (done = <<>> => unescaped = "none")
    /\ unescaped = "none" => ~escaped /\ done \o next = Framed(frames[Len(parsed) + 1])
After(done, ahead) ==
  /\ Len(parsed) = Len(frames) /\ done = <<>> /\ ahead = <<>> /\ toCome = <<>>
  /\ ~escaped /\ unescaped = "none"

ParsedSoFar ==
  /\ parsed \in Seq(Contents) /\ Len(parsed) <= Len(frames)
  /\ \A i \in 1..Len(parsed) : parsed[i] = frames[i]

ParserTyped == frames \in Seq(Contents) /\ frames # <<>> /\ parsing \in BOOLEAN /\ escaped \in BOOLEAN
\* Unless bytes are unescaped twice, the buffer and what has not come are what the
\* client sent after the requests returned, the part that is scanned unescaped.
ParserInv ==
  /\ ParserTyped
  /\ unescaped # "twice" =>
       /\ buffer \in Seq(ParserBytes) /\ toCome \in Seq(ParserBytes) /\ ParsedSoFar
       /\ scan = "dead" => /\ Len(parsed) < Len(frames) /\ frames[Len(parsed) + 1] = Bad
                           /\ position = 0
       /\ scan # "dead" => \E rest, done, ahead :
            /\ Tails(ParserBytes, rest, FramedAll, 0, Len(frames))
            /\ Scanned(done, ahead)
            /\ Before(rest, done, ahead) \/ Inside(rest, done, ahead) \/ After(done, ahead)

\* Where the buffer is at the start of a request that is not the last.
LEMMA StartOfRequest ==
  ASSUME frames \in Seq(Contents), NEW rest, Tails(ParserBytes, rest, FramedAll, 0, Len(frames)),
         NEW k \in Nat, k < Len(frames)
  PROVE  /\ frames[k + 1] \in Contents /\ Framed(frames[k + 1]) \in Seq(ParserBytes)
         /\ rest[k] = Framed(frames[k + 1]) \o rest[k + 1]
         /\ rest[k + 1] \in Seq(ParserBytes) /\ rest[k] \in Seq(ParserBytes)
         /\ Within(frames[k + 1], <<>>, Framed(frames[k + 1]), FALSE)
<1>1. Len(frames) \in Nat
  BY LenProperties
<1>2. k \in 0..(Len(frames) - 1) /\ k + 1 \in 1..Len(frames) /\ k + 1 \in 0..Len(frames)
      /\ k \in 0..Len(frames)
  BY <1>1
<1>3. frames[k + 1] \in Contents
  BY <1>2, ElementOfSeq
<1>4. Framed(frames[k + 1]) \in Seq(ParserBytes)
  <2> DEFINE c == frames[k + 1]
             l == LeftOf(c, 0)
  <2>1. Framed(c) = <<"magic">> \o l /\ l \in Seq(ParserBytes)
    <3>1. 0 \in 0..2
      OBVIOUS
    <3> QED BY <1>3, <3>1, LeftStep
  <2>2. <<"magic">> \in Seq(ParserBytes)
    BY DEF ParserBytes
  <2> HIDE DEF c, l
  <2>3. Framed(c) \in Seq(ParserBytes)
    BY <2>1, <2>2, ConcatProperties
  <2> QED BY <2>3 DEF c
<1>5. FramedAll[k + 1] = Framed(frames[k + 1])
  BY <1>2 DEF FramedAll
<1>6. rest[k] = FramedAll[k + 1] \o rest[k + 1]
  BY <1>2 DEF Tails
<1>7. rest[k + 1] \in Seq(ParserBytes) /\ rest[k] \in Seq(ParserBytes)
  BY <1>2 DEF Tails
<1>8. Within(frames[k + 1], <<>>, Framed(frames[k + 1]), FALSE)
  BY DEF Within
<1> QED BY <1>3, <1>4, <1>5, <1>6, <1>7, <1>8

\* The tails exist, for any requests.
LEMMA RestExists ==
  ASSUME frames \in Seq(Contents), frames # <<>>
  PROVE  \E rest : /\ Tails(ParserBytes, rest, FramedAll, 0, Len(frames))
                   /\ FlattenSeq(FramedAll) = rest[0]
<1>1. Len(frames) \in Nat \ {0}
  BY EmptySeq
<1>2. ASSUME NEW c \in Contents PROVE Framed(c) \in Seq(ParserBytes)
  <2> DEFINE l == LeftOf(c, 0)
  <2>1. Framed(c) = <<"magic">> \o l /\ l \in Seq(ParserBytes)
    <3>1. 0 \in 0..2
      OBVIOUS
    <3> QED BY <3>1, LeftStep
  <2>2. <<"magic">> \in Seq(ParserBytes)
    BY DEF ParserBytes
  <2> HIDE DEF l
  <2> QED BY <2>1, <2>2, ConcatProperties
<1>3. FramedAll \in [1..Len(frames) -> Seq(ParserBytes)]
  <2>1. \A i \in 1..Len(frames) : Framed(frames[i]) \in Seq(ParserBytes)
    BY <1>2, ElementOfSeq
  <2> QED BY <2>1 DEF FramedAll
<1> QED BY <1>1, <1>3, FlattenTails

LEMMA InitParserInv ==
  ASSUME MaxFrames \in Nat
  PROVE  ParserInit => ParserInv
<1> SUFFICES ASSUME ParserInit PROVE ParserInv
  OBVIOUS
<1>1. frames \in Seq(Contents) /\ frames # <<>>
  <2>1. PICK n \in 1..MaxFrames : frames \in [1..n -> Contents]
    BY DEF ParserInit, Contents
  <2>2. n \in Nat /\ 1 \in 1..n
    BY <2>1
  <2>3. frames \in Seq(Contents) /\ Len(frames) = n
    BY <2>1, <2>2
  <2> QED BY <2>2, <2>3, EmptySeq
<1>2. PICK rest : /\ Tails(ParserBytes, rest, FramedAll, 0, Len(frames))
                  /\ FlattenSeq(FramedAll) = rest[0]
  BY <1>1, RestExists
<1>3. Len(frames) \in Nat /\ 0 < Len(frames)
  BY <1>1, EmptySeq
<1>4. /\ frames[0 + 1] \in Contents /\ Framed(frames[0 + 1]) \in Seq(ParserBytes)
      /\ rest[0] = Framed(frames[0 + 1]) \o rest[0 + 1] /\ rest[0] \in Seq(ParserBytes)
      /\ Within(frames[0 + 1], <<>>, Framed(frames[0 + 1]), FALSE)
  BY <1>1, <1>2, <1>3, StartOfRequest
<1>5. /\ buffer = <<>> /\ position = 0 /\ parsing = FALSE /\ escaped = FALSE
      /\ parsed = <<>> /\ unescaped = "none" /\ scan = "recv"
      /\ toCome = <<>> \o rest[0] \/ toCome = <<"data">> \o rest[0]
  BY <1>2 DEF ParserInit, FramedAll
<1>6. <<"data">> \in Seq(ParserBytes) /\ <<>> \in Seq(ParserBytes)
  <2>1. "data" \in ParserBytes
    BY DEF ParserBytes
  <2> QED BY <2>1
<1>7. toCome \in Seq(ParserBytes)
  BY <1>4, <1>5, <1>6, ConcatProperties
<1>8. ParsedSoFar
  BY <1>3, <1>5 DEF ParsedSoFar
<1>9. Scanned(<<>>, <<>>)
  BY <1>5, <1>6, ConcatEmptySeq DEF Scanned
<1>10. <<>> \o toCome = toCome /\ <<>> \o rest[0] = rest[0] /\ Len(parsed) = 0
  BY <1>4, <1>5, <1>7, ConcatEmptySeq
<1>11. CASE toCome = <<>> \o rest[0]
  <2>1. Inside(rest, <<>>, <<>>)
    <3> DEFINE f == Framed(frames[0 + 1])
    <3>1. <<>> \o f = f
      BY <1>4, ConcatEmptySeq
    <3> QED BY <1>3, <1>4, <1>5, <1>10, <1>11, <3>1 DEF Inside
  <2> QED BY <1>1, <1>2, <1>5, <1>6, <1>7, <1>8, <1>9, <2>1 DEF ParserInv, ParserTyped
<1>12. CASE toCome = <<"data">> \o rest[0]
  <2>1. Before(rest, <<>>, <<>>)
    BY <1>5, <1>10, <1>12 DEF Before
  <2> QED BY <1>1, <1>2, <1>5, <1>6, <1>7, <1>8, <1>9, <2>1 DEF ParserInv, ParserTyped
<1> QED BY <1>5, <1>11, <1>12

\* The invariant of a next state whose buffer is cut in two.
LEMMA IntoParserInv ==
  ASSUME NEW rest, NEW done, NEW ahead, ParserTyped', ParsedSoFar', toCome' \in Seq(ParserBytes),
         Tails(ParserBytes, rest, FramedAll, 0, Len(frames))', Scanned(done, ahead)',
         (Before(rest, done, ahead) \/ Inside(rest, done, ahead) \/ After(done, ahead))'
  PROVE  ParserInv'
<1>1. buffer' \in Seq(ParserBytes)
  BY ConcatProperties DEF Scanned
<1>2. scan' # "dead"
  BY DEF Scanned
<1> QED BY <1>1, <1>2 DEF ParserInv

\* Bytes that come: the part scanned goes back in front of them.
LEMMA ReceiveKeeps == ParserInv /\ add_bytes => ParserInv'
<1> SUFFICES ASSUME ParserInv, add_bytes PROVE ParserInv'
  OBVIOUS
<1>0. \A s, t, u \in Seq(ParserBytes) : (s \o t) \o u = s \o (t \o u)
  <2>1. \A k, l, m \in Seq(ParserBytes) : Grouped(k, l, m)
    BY Regroup
  <2> QED BY <2>1 DEF Grouped
<1>1. ParserTyped'
  BY DEF ParserInv, ParserTyped, add_bytes
<1>2. CASE unescaped # "none"
  BY <1>1, <1>2 DEF ParserInv, add_bytes
<1>3. CASE unescaped = "none"
  <2>1. /\ toCome \in Seq(ParserBytes) /\ ParsedSoFar /\ frames \in Seq(Contents)
        /\ \E rest, done, ahead :
             /\ Tails(ParserBytes, rest, FramedAll, 0, Len(frames)) /\ Scanned(done, ahead)
             /\ Before(rest, done, ahead) \/ Inside(rest, done, ahead) \/ After(done, ahead)
    BY <1>3 DEF ParserInv, ParserTyped, add_bytes
  <2>2. PICK rest, done, ahead :
             /\ Tails(ParserBytes, rest, FramedAll, 0, Len(frames)) /\ Scanned(done, ahead)
             /\ Before(rest, done, ahead) \/ Inside(rest, done, ahead) \/ After(done, ahead)
    BY <2>1
  <2>3. done \in Seq(ParserBytes) /\ ahead = <<>> /\ buffer = done /\ toCome # <<>>
    <3>1. done \in Seq(ParserBytes) /\ ahead = <<>> /\ buffer = done \o ahead /\ toCome # <<>>
      BY <2>2 DEF Scanned, add_bytes
    <3> QED BY <3>1, ConcatEmptySeq
  <2>4. PICK n \in 1..Len(toCome) : /\ buffer' = buffer \o SubSeq(toCome, 1, n)
                                    /\ toCome' = SubSeq(toCome, n + 1, Len(toCome))
    BY DEF add_bytes
  <2>5. PICK x \in Seq(ParserBytes), y \in Seq(ParserBytes) :
          /\ x = SubSeq(toCome, 1, n) /\ y = SubSeq(toCome, n + 1, Len(toCome)) /\ toCome = x \o y
    <3> DEFINE x == SubSeq(toCome, 1, n)
               y == SubSeq(toCome, n + 1, Len(toCome))
    <3>1. Len(toCome) \in Nat
      BY <2>1, LenProperties
    <3>2. /\ 1 \in 1..Len(toCome) + 1 /\ n \in (1 - 1)..Len(toCome)
          /\ Len(toCome) \in n..Len(toCome) /\ n \in Int
      BY <3>1
    <3>3. x \o y = SubSeq(toCome, 1, Len(toCome))
      BY <2>1, <3>2, ConcatAdjacentSubSeq
    <3>4. \A i \in 1..n : toCome[i] \in ParserBytes
      BY <2>1, <3>1, ElementOfSeq
    <3>5. \A i \in (n + 1)..Len(toCome) : toCome[i] \in ParserBytes
      <4>1. \A i \in (n + 1)..Len(toCome) : i \in 1..Len(toCome)
        BY <3>1
      <4> QED BY <2>1, <4>1, ElementOfSeq
    <3>6. x \in Seq(ParserBytes)
      BY <3>2, <3>4, SubSeqProperties
    <3>7. y \in Seq(ParserBytes)
      <4>1. n + 1 \in Int /\ Len(toCome) \in Int
        BY <3>1, <3>2
      <4> QED BY <3>5, <4>1, SubSeqProperties
    <3>8. SubSeq(toCome, 1, Len(toCome)) = toCome
      BY <2>1, SubSeqFull
    <3> QED BY <3>3, <3>6, <3>7, <3>8
  <2>6. /\ buffer' = done \o x /\ toCome' = y /\ position' = 1 /\ scan' = "scan"
        /\ unescaped' = "none" /\ UNCHANGED <<frames, parsing, escaped, parsed>>
    BY <1>3, <2>3, <2>4, <2>5 DEF add_bytes
  <2> DEFINE a == done \o x
  <2>7. a \in Seq(ParserBytes) /\ a \o y = done \o toCome /\ <<>> \o a = a
    <3>1. a \in Seq(ParserBytes)
      BY <2>3, <2>5, ConcatProperties
    <3>2. a \o y = done \o (x \o y)
      BY <1>0, <2>3, <2>5
    <3> HIDE DEF a
    <3> QED BY <2>5, <3>1, <3>2, ConcatEmptySeq
  <2>8. Scanned(<<>>, a)'
    <3>1. <<>> \in Seq(ParserBytes) /\ Len(<<>>) + 1 = 1
      BY EmptySeq
    <3>2. buffer' = <<>> \o a
      BY <2>6, <2>7
    <3> HIDE DEF a
    <3> QED BY <2>6, <2>7, <3>1, <3>2 DEF Scanned
  <2> HIDE DEF a
  <2>9. /\ Tails(ParserBytes, rest, FramedAll, 0, Len(frames))'
        /\ ParsedSoFar' /\ toCome' \in Seq(ParserBytes)
    BY <2>1, <2>2, <2>5, <2>6 DEF Tails, FramedAll, ParsedSoFar
  <2>10. <<>> \o toCome = toCome
    BY <2>1, ConcatEmptySeq
  <2>11. CASE Before(rest, done, ahead)
    <3>1. done \o toCome = <<"data">> \o rest[0] /\ done = <<>>
      BY <2>3, <2>11 DEF Before
    <3>2. Before(rest, <<>>, a)'
      BY <2>6, <2>7, <2>11, <3>1 DEF Before
    <3> QED BY <1>1, <2>8, <2>9, <3>2, IntoParserInv
  <2>12. CASE Inside(rest, done, ahead)
    <3> DEFINE k == Len(parsed)
               f == Framed(frames[k + 1])
    <3>1. PICK next \in Seq(ParserBytes) :
            /\ k < Len(frames) /\ ahead \o toCome = next \o rest[k + 1]
            /\ ~escaped /\ done \o next = f
      BY <1>3, <2>12 DEF Inside
    <3>2. k \in Nat
      BY <2>1, LenProperties DEF ParsedSoFar
    <3>3. /\ f \in Seq(ParserBytes) /\ rest[k + 1] \in Seq(ParserBytes)
          /\ Within(frames[k + 1], <<>>, f, FALSE)
      BY <2>1, <2>2, <3>1, <3>2, StartOfRequest
    <3>4. a \o y = f \o rest[k + 1]
      <4>1. toCome = next \o rest[k + 1]
        BY <2>3, <2>10, <3>1
      <4> HIDE DEF k, f
      <4>3. (done \o next) \o rest[k + 1] = done \o (next \o rest[k + 1])
        <5> DEFINE q == rest[k + 1]
        <5>1. done \in Seq(ParserBytes) /\ next \in Seq(ParserBytes) /\ q \in Seq(ParserBytes)
          BY <2>3, <3>1, <3>3
        <5> HIDE DEF q
        <5>2. Grouped(done, next, q)
          BY <5>1, Regroup
        <5> QED BY <5>2 DEF q, Grouped
      <4> QED BY <2>7, <3>1, <4>1, <4>3
    <3>5. <<>> \o f = f
      <4> HIDE DEF f
      <4> QED BY <3>3, ConcatEmptySeq
    <3>6. Inside(rest, <<>>, a)'
      <4>1. /\ escaped' = FALSE /\ frames' = frames /\ parsed' = parsed /\ toCome' = y
            /\ unescaped' = "none"
        BY <2>6, <3>1 DEF ParserInv, ParserTyped
      <4>2. Within(frames'[Len(parsed') + 1], <<>>, f, escaped')
        BY <3>3, <4>1
      <4> QED BY <3>1, <3>3, <3>4, <3>5, <4>1, <4>2 DEF Inside
    <3> QED BY <1>1, <2>8, <2>9, <3>6, IntoParserInv
  <2>13. CASE After(done, ahead)
    BY <2>3, <2>13 DEF After
  <2> QED BY <2>2, <2>11, <2>12, <2>13
<1> QED BY <1>2, <1>3

\* No whole request in the buffer.
LEMMA WaitKeeps ==
  ASSUME ParserInv, unescaped # "twice", NoneYet
  PROVE  ParserInv'
<1>1. ParserTyped' /\ toCome' \in Seq(ParserBytes) /\ ParsedSoFar'
  BY DEF ParserInv, ParserTyped, ParsedSoFar, NoneYet
<1>2. scan # "dead"
  <2>1. buffer \in Seq(ParserBytes) /\ position > Len(buffer)
    BY DEF ParserInv, NoneYet
  <2>2. Len(buffer) \in Nat
    BY <2>1, LenProperties
  <2>3. position # 0
    BY <2>1, <2>2
  <2> QED BY <2>3 DEF ParserInv
<1>3. PICK rest, done, ahead :
        /\ Tails(ParserBytes, rest, FramedAll, 0, Len(frames)) /\ Scanned(done, ahead)
        /\ Before(rest, done, ahead) \/ Inside(rest, done, ahead) \/ After(done, ahead)
  BY <1>2 DEF ParserInv
<1>4. ahead = <<>>
  <2>1. /\ done \in Seq(ParserBytes) /\ ahead \in Seq(ParserBytes) /\ buffer = done \o ahead
        /\ position > Len(buffer) /\ (position = Len(done) + 1 \/ ahead = <<>>)
    BY <1>3 DEF Scanned, NoneYet
  <2>2. Len(buffer) = Len(done) + Len(ahead) /\ Len(done) \in Nat /\ Len(ahead) \in Nat
    BY <2>1, ConcatProperties, LenProperties
  <2>3. ahead # <<>> => Len(ahead) # 0
    BY <2>1, EmptySeq
  <2> QED BY <2>1, <2>2, <2>3
<1>5. Scanned(done, ahead)' /\ Tails(ParserBytes, rest, FramedAll, 0, Len(frames))'
  BY <1>3, <1>4 DEF Scanned, Tails, FramedAll, NoneYet
<1>6. (Before(rest, done, ahead) \/ Inside(rest, done, ahead) \/ After(done, ahead))'
  BY <1>3 DEF Before, Inside, After, NoneYet
<1> QED BY <1>1, <1>5, <1>6, IntoParserInv

\* The buffer and the scan are where done and ahead meet.
Cursor(done, ahead) ==
  /\ RemoveAt(buffer, position) = done \o Tail(ahead)
  /\ \A x \in ParserBytes : /\ [buffer EXCEPT ![position] = x] = Append(done, x) \o Tail(ahead)
                            /\ position + 1 = Len(Append(done, x)) + 1
                            /\ Append(done, x) \in Seq(ParserBytes) /\ Append(done, x) # <<>>
  /\ buffer = Append(done, Head(ahead)) \o Tail(ahead)
  /\ done # <<>> => SubSeq(buffer, 2, position - 1) = Tail(done)
  /\ SubSeq(buffer, position + 1, Len(buffer)) = Tail(ahead)

\* A step of the scan looks at the first byte that it has not read.
LEMMA AtByte ==
  ASSUME ParserInv, unescaped # "twice", Scanning
  PROVE  \E rest, done, ahead :
           /\ Tails(ParserBytes, rest, FramedAll, 0, Len(frames))
           /\ done \in Seq(ParserBytes) /\ ahead \in Seq(ParserBytes) /\ buffer = done \o ahead
           /\ scan = "scan" /\ position = Len(done) + 1
           /\ ahead # <<>> /\ Byte = Head(ahead)
           /\ Head(ahead) \in ParserBytes /\ Tail(ahead) \in Seq(ParserBytes)
           /\ Cursor(done, ahead)
           /\ Before(rest, done, ahead) \/ Inside(rest, done, ahead)
<1>1. scan # "dead" /\ scan # "recv"
  <2>1. position > 0 /\ scan # "dead"
    BY DEF ParserInv, Scanning
  <2> QED BY <2>1 DEF ParserInv, Scanned
<1>2. PICK rest, done, ahead :
        /\ Tails(ParserBytes, rest, FramedAll, 0, Len(frames)) /\ Scanned(done, ahead)
        /\ Before(rest, done, ahead) \/ Inside(rest, done, ahead) \/ After(done, ahead)
  BY <1>1 DEF ParserInv
<1>3. /\ done \in Seq(ParserBytes) /\ ahead \in Seq(ParserBytes) /\ buffer = done \o ahead
      /\ scan = "scan" /\ position = Len(done) + 1 /\ position <= Len(buffer)
  BY <1>1, <1>2 DEF Scanned, Scanning
<1>4. ahead # <<>>
  <2>1. Len(buffer) = Len(done) + Len(ahead) /\ Len(done) \in Nat /\ Len(ahead) \in Nat
    BY <1>3, ConcatProperties, LenProperties
  <2>2. ahead = <<>> => Len(ahead) = 0
    BY EmptySeq
  <2> QED BY <1>3, <2>1, <2>2
<1>5. Head(ahead) \in ParserBytes /\ Tail(ahead) \in Seq(ParserBytes)
  BY <1>3, <1>4, HeadTailProperties
<1>0. Meeting(done, ahead)
  BY <1>3, <1>4, <1>5, AtCursor
<1>6. Byte = Head(ahead)
  BY <1>0, <1>3 DEF Byte, Meeting
<1>7. Before(rest, done, ahead) \/ Inside(rest, done, ahead)
  BY <1>2, <1>4 DEF After
<1>8. Cursor(done, ahead)
  <2>1. ASSUME NEW x \in ParserBytes
        PROVE  /\ [buffer EXCEPT ![position] = x] = Append(done, x) \o Tail(ahead)
               /\ position + 1 = Len(Append(done, x)) + 1
               /\ Append(done, x) \in Seq(ParserBytes) /\ Append(done, x) # <<>>
    <3>1. Changed(done, ahead, x) /\ Append(done, x) \in Seq(ParserBytes)
      BY <1>3, <1>4, AtCursor
    <3>2. position + 1 = Len(done) + 2
      <4>1. Len(done) \in Nat
        BY <1>3, LenProperties
      <4> QED BY <1>3, <4>1
    <3>3. /\ [(done \o ahead) EXCEPT ![Len(done) + 1] = x] = Append(done, x) \o Tail(ahead)
          /\ Len(done) + 2 = Len(Append(done, x)) + 1 /\ Append(done, x) # <<>>
      BY <3>1 DEF Changed
    <3> QED BY <1>3, <3>1, <3>2, <3>3, Zenon
  <2>2. /\ RemoveAt(buffer, position) = done \o Tail(ahead)
        /\ buffer = Append(done, Head(ahead)) \o Tail(ahead)
        /\ done # <<>> => SubSeq(buffer, 2, position - 1) = Tail(done)
        /\ SubSeq(buffer, position + 1, Len(buffer)) = Tail(ahead)
    <3>1. position - 1 = Len(done) /\ position + 1 = Len(done) + 2
      <4>1. Len(done) \in Nat
        BY <1>3, LenProperties
      <4> QED BY <1>3, <4>1
    <3>2. /\ RemoveAt(done \o ahead, Len(done) + 1) = done \o Tail(ahead)
          /\ done \o ahead = Append(done, Head(ahead)) \o Tail(ahead)
          /\ done # <<>> => SubSeq(done \o ahead, 2, Len(done)) = Tail(done)
          /\ SubSeq(done \o ahead, Len(done) + 2, Len(done \o ahead)) = Tail(ahead)
      BY <1>0 DEF Meeting
    <3> QED BY <1>3, <3>1, <3>2
  <2> QED BY <2>1, <2>2 DEF Cursor
<1> QED BY <1>2, <1>3, <1>4, <1>5, <1>6, <1>7, <1>8

\* What Before and Inside say of the byte looked at, and of what follows it.
LEMMA BeforeByte ==
  ASSUME NEW rest, NEW done, NEW ahead \in Seq(ParserBytes), toCome \in Seq(ParserBytes),
         rest[0] \in Seq(ParserBytes), ahead # <<>>, Before(rest, done, ahead)
  PROVE  Head(ahead) = "data" /\ Tail(ahead) \o toCome = rest[0]
<1>1. Head(ahead \o toCome) = Head(ahead) /\ Tail(ahead \o toCome) = Tail(ahead) \o toCome
  BY Uncons
<1>2. "data" \in ParserBytes
  BY DEF ParserBytes
<1>3. Head(<<"data">> \o rest[0]) = "data" /\ Tail(<<"data">> \o rest[0]) = rest[0]
  BY <1>2, FirstOff
<1>4. ahead \o toCome = <<"data">> \o rest[0]
  BY DEF Before
<1> QED BY <1>1, <1>3, <1>4

\* Two readings of the same bytes have the same first and the same others.
SameFirst(ahead, come, next, r) ==
  ahead \o come = next \o r =>
    Head(ahead) = Head(next) /\ Tail(ahead) \o come = Tail(next) \o r

LEMMA SameByte ==
  ASSUME NEW r \in Seq(ParserBytes), NEW next \in Seq(ParserBytes), NEW ahead \in Seq(ParserBytes),
         NEW come \in Seq(ParserBytes), ahead # <<>>, next # <<>>
  PROVE  SameFirst(ahead, come, next, r)
<1>1. Head(ahead \o come) = Head(ahead) /\ Tail(ahead \o come) = Tail(ahead) \o come
  BY Uncons
<1>2. Head(next \o r) = Head(next) /\ Tail(next \o r) = Tail(next) \o r
  BY Uncons
<1> QED BY <1>1, <1>2 DEF SameFirst

\* Inside request c, of which next is still to be read: what the next byte is.
InsideRead(rest, done, ahead, next, c) ==
  /\ c = frames[Len(parsed) + 1] /\ Len(parsed) \in Nat /\ Len(parsed) < Len(frames)
  /\ rest[Len(parsed) + 1] \in Seq(ParserBytes) /\ Len(frames) \in Nat
  /\ next # <<>> /\ Head(next) = Head(ahead) /\ Tail(next) \in Seq(ParserBytes)
  /\ Tail(ahead) \o toCome = Tail(next) \o rest[Len(parsed) + 1]
  /\ done # <<>> => parsing
  /\ unescaped \in {"none", "some"}
  /\ unescaped = "none" => ~escaped /\ done \o next = Framed(c)
  /\ ByteRead(c, done, next, escaped)

LEMMA InsideByte ==
  ASSUME ParserInv, unescaped # "twice", NEW rest, NEW done \in Seq(ParserBytes),
         NEW ahead \in Seq(ParserBytes), ahead # <<>>,
         Tails(ParserBytes, rest, FramedAll, 0, Len(frames)), Inside(rest, done, ahead)
  PROVE  \E next \in Seq(ParserBytes), c \in Contents : InsideRead(rest, done, ahead, next, c)
<1>1. /\ frames \in Seq(Contents) /\ toCome \in Seq(ParserBytes) /\ parsed \in Seq(Contents)
      /\ escaped \in BOOLEAN
  BY DEF ParserInv, ParserTyped, ParsedSoFar
<1>2. Len(frames) \in Nat /\ Len(parsed) \in Nat
  BY <1>1, LenProperties
<1>3. PICK next \in Seq(ParserBytes) :
        /\ Len(parsed) < Len(frames) /\ Within(frames[Len(parsed) + 1], done, next, escaped)
        /\ ahead \o toCome = next \o rest[Len(parsed) + 1]
        /\ done # <<>> => parsing
        /\ unescaped \in {"none", "some"} /\ (done = <<>> => unescaped = "none")
        /\ unescaped = "none" => ~escaped /\ done \o next = Framed(frames[Len(parsed) + 1])
  BY DEF Inside
<1>4. PICK c \in Contents : c = frames[Len(parsed) + 1]
  BY <1>1, <1>2, <1>3, StartOfRequest
<1>5. rest[Len(parsed) + 1] \in Seq(ParserBytes)
  BY <1>1, <1>2, <1>3, StartOfRequest
<1>6. Within(c, done, next, escaped)
  BY <1>3, <1>4
<1>7. ByteRead(c, done, next, escaped) /\ next # <<>>
  <2>1. ByteRead(c, done, next, escaped)
    BY <1>1, <1>6, WithinStep
  <2> QED BY <2>1 DEF ByteRead
<1>8. Tail(next) \in Seq(ParserBytes)
  BY <1>7, HeadTailProperties
<1>9. Head(ahead) = Head(next) /\ Tail(ahead) \o toCome = Tail(next) \o rest[Len(parsed) + 1]
  <2> DEFINE r == rest[Len(parsed) + 1]
  <2>1. r \in Seq(ParserBytes) /\ next # <<>> /\ ahead \o toCome = next \o r
    BY <1>3, <1>5, <1>7
  <2> HIDE DEF r
  <2>2. Head(ahead) = Head(next) /\ Tail(ahead) \o toCome = Tail(next) \o r
    <3>1. r \in Seq(ParserBytes) /\ next # <<>> /\ toCome \in Seq(ParserBytes)
      BY <1>1, <2>1
    <3>2. SameFirst(ahead, toCome, next, r)
      BY <3>1, SameByte
    <3> QED BY <2>1, <3>2 DEF SameFirst
  <2> QED BY <2>2 DEF r
<1>10. unescaped = "none" => ~escaped /\ done \o next = Framed(c)
  BY <1>3, <1>4
<1>11. InsideRead(rest, done, ahead, next, c)
  BY <1>2, <1>3, <1>4, <1>5, <1>7, <1>8, <1>9, <1>10, Zenon DEF InsideRead
<1> QED BY <1>11

\* Bytes before the first request are skipped, and nothing else is.
LEMMA SkipKeeps ==
  ASSUME ParserInv, unescaped # "twice", Skip
  PROVE  ParserInv'
<1>1. PICK rest, done, ahead :
           /\ Tails(ParserBytes, rest, FramedAll, 0, Len(frames))
           /\ done \in Seq(ParserBytes) /\ ahead \in Seq(ParserBytes) /\ buffer = done \o ahead
           /\ scan = "scan" /\ position = Len(done) + 1
           /\ ahead # <<>> /\ Byte = Head(ahead)
           /\ Head(ahead) \in ParserBytes /\ Tail(ahead) \in Seq(ParserBytes)
           /\ Cursor(done, ahead)
           /\ Before(rest, done, ahead) \/ Inside(rest, done, ahead)
  BY AtByte DEF Skip
<1>2. ParserTyped' /\ toCome' \in Seq(ParserBytes) /\ ParsedSoFar'
  BY DEF ParserInv, ParserTyped, ParsedSoFar, Skip
<1>3. frames \in Seq(Contents) /\ toCome \in Seq(ParserBytes) /\ Len(frames) \in Nat
      /\ frames # <<>> /\ Len(parsed) \in Nat /\ 0 < Len(frames)
  <2>1. frames \in Seq(Contents) /\ toCome \in Seq(ParserBytes) /\ frames # <<>>
        /\ parsed \in Seq(Contents)
    BY DEF ParserInv, ParserTyped, ParsedSoFar
  <2>2. Len(frames) \in Nat \ {0} /\ Len(parsed) \in Nat
    BY <2>1, EmptySeq, LenProperties
  <2> QED BY <2>1, <2>2
<1>4. CASE Before(rest, done, ahead)
  <2>1. /\ frames[0 + 1] \in Contents /\ Framed(frames[0 + 1]) \in Seq(ParserBytes)
        /\ rest[0] = Framed(frames[0 + 1]) \o rest[0 + 1] /\ rest[0] \in Seq(ParserBytes)
        /\ Within(frames[0 + 1], <<>>, Framed(frames[0 + 1]), FALSE)
    BY <1>1, <1>3, StartOfRequest
  <2>2. Tail(ahead) \o toCome = rest[0]
    BY <1>1, <1>3, <1>4, <2>1, BeforeByte
  <2>3. done = <<>> /\ parsed = <<>> /\ ~parsing /\ ~escaped /\ unescaped = "none" /\ Len(parsed) = 0
    BY <1>4, EmptySeq DEF Before
  <2>4. buffer' = done \o Tail(ahead)
    <3>1. buffer' = RemoveAt(buffer, position)
      BY DEF Skip
    <3> QED BY <1>1, <3>1 DEF Cursor
  <2>5. Scanned(done, Tail(ahead))'
    BY <1>1, <2>4 DEF Scanned, Skip
  <2>6. Inside(rest, done, Tail(ahead))'
    <3> DEFINE f == Framed(frames[0 + 1])
    <3>1. /\ escaped' = FALSE /\ frames' = frames /\ parsed' = parsed /\ toCome' = toCome
          /\ unescaped' = "none"
      BY <2>3 DEF ParserInv, ParserTyped, Skip
    <3>2. /\ f \in Seq(ParserBytes) /\ 0 < Len(frames) /\ Within(frames[0 + 1], done, f, FALSE)
          /\ Tail(ahead) \o toCome = f \o rest[0 + 1] /\ done \o f = f
      <4>1. f \in Seq(ParserBytes) /\ <<>> \o f = f
        BY <2>1, ConcatEmptySeq
      <4> QED BY <1>3, <2>1, <2>2, <2>3, <4>1
    <3> QED BY <2>3, <3>1, <3>2 DEF Inside
  <2>7. Tails(ParserBytes, rest, FramedAll, 0, Len(frames))'
    BY <1>1 DEF Tails, FramedAll, Skip
  <2> QED BY <1>2, <2>5, <2>6, <2>7, IntoParserInv
<1>5. CASE Inside(rest, done, ahead)
  <2>1. PICK next \in Seq(ParserBytes), c \in Contents :
          Head(next) = Head(ahead) /\ (done # <<>> => parsing) /\ ByteRead(c, done, next, escaped)
    BY <1>1, <1>5, InsideByte DEF InsideRead
  <2>2. CASE done = <<>>
    <3>1. ByteRead(c, done, next, escaped) => (done = <<>> => Head(next) = "magic")
      BY DEF ByteRead
    <3>2. Byte = "magic"
      BY <1>1, <2>1, <2>2, <3>1
    <3> QED BY <3>2 DEF Skip, Magic
  <2>3. CASE done # <<>>
    BY <2>1, <2>3 DEF Skip
  <2> QED BY <2>2, <2>3
<1> QED BY <1>1, <1>4, <1>5

\* Once the mark of a request is seen the scan is inside the request.
InRequestAt(rest, done, ahead, next, c) ==
  /\ Tails(ParserBytes, rest, FramedAll, 0, Len(frames))
  /\ done \in Seq(ParserBytes) /\ ahead \in Seq(ParserBytes) /\ buffer = done \o ahead
  /\ scan = "scan" /\ position = Len(done) + 1
  /\ Byte = Head(next) /\ Head(next) \in ParserBytes /\ Head(next) = Head(ahead)
  /\ Tail(ahead) \in Seq(ParserBytes) /\ Tail(next) \in Seq(ParserBytes) /\ next # <<>>
  /\ next \in Seq(ParserBytes) /\ c \in Contents /\ c = frames[Len(parsed) + 1]
  /\ Len(parsed) \in Nat /\ Len(frames) \in Nat /\ Len(parsed) < Len(frames)
  /\ rest[Len(parsed) + 1] \in Seq(ParserBytes)
  /\ Tail(ahead) \o toCome = Tail(next) \o rest[Len(parsed) + 1]
  /\ unescaped \in {"none", "some"}
  /\ unescaped = "none" => ~escaped /\ done \o next = Framed(c)

LEMMA InRequestByte ==
  ASSUME ParserInv, unescaped # "twice", Scanning, parsing \/ Byte = Magic
  PROVE  \E rest, done, ahead, next, c :
           /\ InRequestAt(rest, done, ahead, next, c) /\ Cursor(done, ahead)
           /\ ByteRead(c, done, next, escaped)
<1>1. PICK rest, done, ahead :
           /\ Tails(ParserBytes, rest, FramedAll, 0, Len(frames))
           /\ done \in Seq(ParserBytes) /\ ahead \in Seq(ParserBytes) /\ buffer = done \o ahead
           /\ scan = "scan" /\ position = Len(done) + 1
           /\ ahead # <<>> /\ Byte = Head(ahead)
           /\ Head(ahead) \in ParserBytes /\ Tail(ahead) \in Seq(ParserBytes)
           /\ Cursor(done, ahead)
           /\ Before(rest, done, ahead) \/ Inside(rest, done, ahead)
  BY AtByte
<1>2. Inside(rest, done, ahead)
  <2>1. SUFFICES ASSUME Before(rest, done, ahead) PROVE FALSE
    BY <1>1
  <2>2. frames \in Seq(Contents) /\ frames # <<>> /\ toCome \in Seq(ParserBytes)
    BY DEF ParserInv, ParserTyped
  <2>3. Len(frames) \in Nat /\ 0 < Len(frames)
    BY <2>2, EmptySeq
  <2>4. rest[0] \in Seq(ParserBytes)
    BY <1>1, <2>2, <2>3, StartOfRequest
  <2>5. Head(ahead) = "data"
    BY <1>1, <2>1, <2>2, <2>4, BeforeByte
  <2> QED BY <1>1, <2>1, <2>5 DEF Before, Magic
<1>3. PICK next \in Seq(ParserBytes), c \in Contents :
           InsideRead(rest, done, ahead, next, c)
  <2>1. done \in Seq(ParserBytes) /\ ahead \in Seq(ParserBytes) /\ ahead # <<>>
        /\ Tails(ParserBytes, rest, FramedAll, 0, Len(frames))
    BY <1>1
  <2> QED BY <1>2, <2>1, InsideByte
<1>4. InRequestAt(rest, done, ahead, next, c)
  BY <1>1, <1>3 DEF InRequestAt, InsideRead
<1>5. ByteRead(c, done, next, escaped)
  BY <1>3 DEF InsideRead
<1> QED BY <1>1, <1>4, <1>5

\* A byte read, as it came or inverted: the scan is past it.
LEMMA ReadOn ==
  ASSUME ParserInv, unescaped # "twice", NEW rest, NEW done, NEW ahead, NEW next, NEW c,
         InRequestAt(rest, done, ahead, next, c), NEW x \in ParserBytes,
         Append(done, x) \in Seq(ParserBytes), Append(done, x) # <<>>,
         Within(c, Append(done, x), Tail(next), FALSE),
         buffer' = Append(done, x) \o Tail(ahead), position' = Len(Append(done, x)) + 1,
         parsing' = TRUE, escaped' = FALSE, UNCHANGED <<toCome, frames, parsed, unescaped, scan>>,
         unescaped = "none" => Append(done, x) \o Tail(next) = Framed(c)
  PROVE  ParserInv'
<1> DEFINE d == Append(done, x)
<1>1. ParserTyped' /\ toCome' \in Seq(ParserBytes) /\ ParsedSoFar'
  BY DEF ParserInv, ParserTyped, ParsedSoFar
<1>2. Tails(ParserBytes, rest, FramedAll, 0, Len(frames))'
  BY DEF InRequestAt, Tails, FramedAll
<1> HIDE DEF d
<1>3. Scanned(d, Tail(ahead))'
  BY DEF InRequestAt, Scanned, d
<1>4. Inside(rest, d, Tail(ahead))'
  <2>1. frames' = frames /\ parsed' = parsed /\ toCome' = toCome /\ unescaped' = unescaped
        /\ escaped' = FALSE /\ parsing' = TRUE
    OBVIOUS
  <2>2. Within(frames'[Len(parsed') + 1], d, Tail(next), escaped')
    BY <2>1 DEF InRequestAt, d
  <2>3. /\ Tail(next) \in Seq(ParserBytes) /\ Len(parsed') < Len(frames')
        /\ Tail(ahead) \o toCome' = Tail(next) \o rest[Len(parsed') + 1]
        /\ unescaped' \in {"none", "some"} /\ d # <<>>
        /\ unescaped' = "none" => d \o Tail(next) = Framed(frames'[Len(parsed') + 1])
    BY <2>1 DEF InRequestAt, d
  <2> QED BY <2>1, <2>2, <2>3 DEF Inside
<1> QED BY <1>1, <1>2, <1>3, <1>4, IntoParserInv

LEMMA UnescapeKeeps ==
  ASSUME ParserInv, unescaped # "twice", Unescape
  PROVE  ParserInv'
<1>1. PICK rest, done, ahead, next, c :
        /\ InRequestAt(rest, done, ahead, next, c) /\ Cursor(done, ahead)
        /\ ByteRead(c, done, next, escaped)
  BY InRequestByte DEF Unescape, InRequest
<1>2. escaped
  BY DEF Unescape
<1> DEFINE x == Inverted[Head(next)]
<1>3. x \in ParserBytes /\ Within(c, Append(done, x), Tail(next), FALSE)
  BY <1>1, <1>2 DEF ByteRead
<1>4. Byte = Head(next) /\ buffer' = [buffer EXCEPT ![position] = Inverted[buffer[position]]]
  BY <1>1 DEF InRequestAt, Unescape
<1>5. buffer' = [buffer EXCEPT ![position] = x]
  BY <1>4 DEF Byte
<1> HIDE DEF x
<1>6. /\ buffer' = Append(done, x) \o Tail(ahead) /\ position + 1 = Len(Append(done, x)) + 1
      /\ Append(done, x) \in Seq(ParserBytes) /\ Append(done, x) # <<>>
  BY <1>1, <1>3, <1>5 DEF Cursor
<1>7. unescaped # "none"
  BY <1>1, <1>2 DEF InRequestAt
<1>8. /\ position' = position + 1 /\ parsing' = TRUE /\ escaped' = FALSE
      /\ UNCHANGED <<toCome, frames, parsed, unescaped, scan>>
  BY DEF Unescape, InRequest
<1> QED BY <1>1, <1>3, <1>6, <1>7, <1>8, ReadOn

LEMMA NextByteKeeps ==
  ASSUME ParserInv, unescaped # "twice", Next_byte
  PROVE  ParserInv'
<1>1. PICK rest, done, ahead, next, c :
        /\ InRequestAt(rest, done, ahead, next, c) /\ Cursor(done, ahead)
        /\ ByteRead(c, done, next, escaped)
  BY InRequestByte DEF Next_byte, InRequest
<1> DEFINE x == Head(next)
<1>2. ~escaped /\ x \notin {"escape", "eot"}
  BY <1>1 DEF InRequestAt, Next_byte, Escape, Eot
<1>3. x \in ParserBytes /\ x = Head(ahead) /\ Within(c, Append(done, x), Tail(next), FALSE)
  <2>1. Within(c, Append(done, x), Tail(next), FALSE)
    BY <1>1, <1>2 DEF ByteRead
  <2> QED BY <1>1, <2>1 DEF InRequestAt
<1>4. unescaped = "none" => Append(done, x) \o Tail(next) = Framed(c)
  <2>1. done \o next = Append(done, x) \o Tail(next)
    <3>1. done \in Seq(ParserBytes) /\ next \in Seq(ParserBytes) /\ next # <<>>
      BY <1>1 DEF InRequestAt
    <3> QED BY <3>1, Uncons
  <2> QED BY <1>1, <2>1 DEF InRequestAt
<1> HIDE DEF x
<1>5. /\ buffer = Append(done, x) \o Tail(ahead) /\ position + 1 = Len(Append(done, x)) + 1
      /\ Append(done, x) \in Seq(ParserBytes) /\ Append(done, x) # <<>>
  BY <1>1, <1>3 DEF Cursor
<1>6. /\ buffer' = buffer /\ position' = position + 1 /\ parsing' = TRUE /\ escaped' = FALSE
      /\ UNCHANGED <<toCome, frames, parsed, unescaped, scan>>
  <2>1. escaped = FALSE
    BY <1>2 DEF ParserInv, ParserTyped
  <2> QED BY <2>1 DEF Next_byte, InRequest
<1> QED BY <1>1, <1>3, <1>4, <1>5, <1>6, ReadOn

LEMMA EscapeKeeps ==
  ASSUME ParserInv, unescaped # "twice", DropEscape
  PROVE  ParserInv'
<1>1. PICK rest, done, ahead, next, c :
        /\ InRequestAt(rest, done, ahead, next, c) /\ Cursor(done, ahead)
        /\ ByteRead(c, done, next, escaped)
  BY InRequestByte DEF DropEscape, InRequest
<1>2. ~escaped /\ Head(next) = "escape"
  BY <1>1 DEF InRequestAt, DropEscape, Escape
<1>3. Within(c, done, Tail(next), TRUE) /\ done # <<>>
  BY <1>1, <1>2 DEF ByteRead
<1>4. /\ buffer' = done \o Tail(ahead) /\ position' = position /\ parsing' = TRUE /\ escaped' = TRUE
      /\ unescaped' = "some" /\ UNCHANGED <<toCome, frames, parsed, scan>>
  <2>1. buffer' = RemoveAt(buffer, position)
    BY DEF DropEscape
  <2>2. buffer' = done \o Tail(ahead)
    BY <1>1, <2>1 DEF Cursor
  <2> QED BY <2>2 DEF DropEscape, InRequest
<1>5. ParserTyped' /\ toCome' \in Seq(ParserBytes) /\ ParsedSoFar'
  BY <1>4 DEF ParserInv, ParserTyped, ParsedSoFar
<1>6. Tails(ParserBytes, rest, FramedAll, 0, Len(frames))'
  BY <1>1, <1>4 DEF InRequestAt, Tails, FramedAll
<1>7. Scanned(done, Tail(ahead))'
  BY <1>1, <1>4 DEF InRequestAt, Scanned
<1>8. Inside(rest, done, Tail(ahead))'
  <2>1. Within(frames'[Len(parsed') + 1], done, Tail(next), escaped')
    BY <1>1, <1>3, <1>4 DEF InRequestAt
  <2>2. /\ Tail(next) \in Seq(ParserBytes) /\ Len(parsed') < Len(frames')
        /\ Tail(ahead) \o toCome' = Tail(next) \o rest[Len(parsed') + 1]
    BY <1>1, <1>4 DEF InRequestAt
  <2> QED BY <1>3, <1>4, <2>1, <2>2 DEF Inside
<1> QED BY <1>5, <1>6, <1>7, <1>8, IntoParserInv

\* At the end mark the content read is that of the request.
LEMMA AtEndByte ==
  ASSUME ParserInv, unescaped # "twice", AtEnd
  PROVE  \E rest, done, ahead, next, c :
           /\ InRequestAt(rest, done, ahead, next, c) /\ Tail(next) = <<>>
           /\ Content = c /\ SubSeq(buffer, position + 1, Len(buffer)) = Tail(ahead)
<1>1. PICK rest, done, ahead, next, c :
        /\ InRequestAt(rest, done, ahead, next, c) /\ Cursor(done, ahead)
        /\ ByteRead(c, done, next, escaped)
  BY InRequestByte DEF AtEnd
<1>2. ~escaped /\ Head(next) = "eot"
  BY <1>1 DEF InRequestAt, AtEnd, Eot
<1>3. Tail(next) = <<>> /\ Tail(done) = c /\ done # <<>>
  BY <1>1, <1>2 DEF ByteRead
<1>4. Content = c /\ SubSeq(buffer, position + 1, Len(buffer)) = Tail(ahead)
  BY <1>1, <1>3 DEF Cursor, Content
<1> QED BY <1>1, <1>3, <1>4

LEMMA BadCrcKeeps ==
  ASSUME ParserInv, unescaped # "twice", BadCrc
  PROVE  ParserInv'
<1>1. PICK rest, done, ahead, next, c :
        /\ InRequestAt(rest, done, ahead, next, c) /\ Tail(next) = <<>>
        /\ Content = c /\ SubSeq(buffer, position + 1, Len(buffer)) = Tail(ahead)
  BY AtEndByte DEF BadCrc
<1>2. c = Bad
  BY <1>1 DEF InRequestAt, Contents, BadCrc, valid_crc
<1>3. Len(parsed) < Len(frames) /\ frames[Len(parsed) + 1] = Bad
  BY <1>1, <1>2 DEF InRequestAt
<1>4. /\ scan' = "dead" /\ position' = 0
      /\ UNCHANGED <<toCome, frames, buffer, parsing, escaped, parsed, unescaped>>
  BY DEF BadCrc
<1> QED BY <1>3, <1>4 DEF ParserInv, ParserTyped, ParsedSoFar

\* A request returned is the next of the client's; what follows starts another.
LEMMA RequestKeeps ==
  ASSUME ParserInv, unescaped # "twice", Request
  PROVE  ParserInv'
<1>1. PICK rest, done, ahead, next, c :
        /\ InRequestAt(rest, done, ahead, next, c) /\ Tail(next) = <<>>
        /\ Content = c /\ SubSeq(buffer, position + 1, Len(buffer)) = Tail(ahead)
  BY AtEndByte DEF Request
<1>2. ~escaped
  BY DEF Request, AtEnd
<1>3. /\ parsed' = Append(parsed, c) /\ buffer' = Tail(ahead) /\ position' = 1
      /\ unescaped' = "none" /\ escaped' = FALSE
      /\ UNCHANGED <<toCome, frames, parsing, escaped, scan>>
  BY <1>1, <1>2 DEF ParserInv, ParserTyped, Request
<1>4. PICK k \in Nat : k = Len(parsed) + 1
  BY <1>1 DEF InRequestAt
<1>5. /\ frames \in Seq(Contents) /\ parsed \in Seq(Contents) /\ toCome \in Seq(ParserBytes)
      /\ \A i \in 1..Len(parsed) : parsed[i] = frames[i]
  BY DEF ParserInv, ParserTyped, ParsedSoFar
<1>6. /\ Tails(ParserBytes, rest, FramedAll, 0, Len(frames)) /\ scan = "scan"
      /\ c \in Contents /\ c = frames[k] /\ k <= Len(frames) /\ Len(frames) \in Nat
      /\ rest[k] \in Seq(ParserBytes) /\ Tail(ahead) \in Seq(ParserBytes)
      /\ Tail(ahead) \o toCome = <<>> \o rest[k]
  <2>1. /\ Tails(ParserBytes, rest, FramedAll, 0, Len(frames)) /\ scan = "scan"
        /\ Len(parsed) \in Nat /\ Len(frames) \in Nat /\ Len(parsed) < Len(frames)
        /\ Tail(ahead) \in Seq(ParserBytes)
    BY <1>1 DEF InRequestAt
  <2>2. c \in Contents /\ c = frames[k] /\ rest[k] \in Seq(ParserBytes)
    BY <1>1, <1>4 DEF InRequestAt
  <2>3. Tail(ahead) \o toCome = <<>> \o rest[k]
    BY <1>1, <1>4 DEF InRequestAt
  <2>4. k <= Len(frames)
    BY <1>4, <2>1
  <2> QED BY <2>1, <2>2, <2>3, <2>4
<1>7. Tail(ahead) \o toCome = rest[k]
  BY <1>6, ConcatEmptySeq
<1>8. /\ Append(parsed, c) \in Seq(Contents) /\ Len(Append(parsed, c)) = k
      /\ \A i \in 1..k : Append(parsed, c)[i] = frames[i]
  <2>1. /\ Append(parsed, c) \in Seq(Contents) /\ Len(Append(parsed, c)) = Len(parsed) + 1
        /\ \A i \in 1..Len(parsed) : Append(parsed, c)[i] = parsed[i]
        /\ Append(parsed, c)[Len(parsed) + 1] = c
    BY <1>5, <1>6, AppendProperties
  <2>2. Len(parsed) \in Nat
    BY <1>5, LenProperties
  <2>3. \A i \in 1..k : i = k \/ i \in 1..Len(parsed)
    BY <1>4, <2>2
  <2> QED BY <1>4, <1>5, <1>6, <2>1, <2>3
<1>9. /\ ParserTyped' /\ toCome' \in Seq(ParserBytes) /\ ParsedSoFar'
  <2>1. ParserTyped' /\ toCome' \in Seq(ParserBytes)
    BY <1>3, <1>5 DEF ParserInv, ParserTyped
  <2>2. ParsedSoFar'
    BY <1>3, <1>6, <1>8 DEF ParsedSoFar
  <2> QED BY <2>1, <2>2
<1>10. Tails(ParserBytes, rest, FramedAll, 0, Len(frames))'
  BY <1>3, <1>6 DEF Tails, FramedAll
<1>11. <<>> \in Seq(ParserBytes) /\ Len(<<>>) + 1 = 1 /\ <<>> \o Tail(ahead) = Tail(ahead)
  BY <1>6, EmptySeq, ConcatEmptySeq
<1>12. Scanned(<<>>, Tail(ahead))'
  BY <1>3, <1>6, <1>11 DEF Scanned
<1>13. Len(parsed') = k /\ frames' = frames /\ toCome' = toCome
  BY <1>3, <1>8
<1>14. CASE k < Len(frames)
  <2>1. /\ frames[k + 1] \in Contents /\ Framed(frames[k + 1]) \in Seq(ParserBytes)
        /\ rest[k] = Framed(frames[k + 1]) \o rest[k + 1]
        /\ Within(frames[k + 1], <<>>, Framed(frames[k + 1]), FALSE)
    BY <1>5, <1>6, <1>14, StartOfRequest
  <2>2. <<>> \o Framed(frames[k + 1]) = Framed(frames[k + 1])
    BY <2>1, ConcatEmptySeq
  <2>3. Within(frames'[Len(parsed') + 1], <<>>, Framed(frames[k + 1]), escaped')
    BY <1>3, <1>13, <2>1
  <2>4. Inside(rest, <<>>, Tail(ahead))'
    BY <1>3, <1>7, <1>13, <1>14, <2>1, <2>2, <2>3 DEF Inside
  <2> QED BY <1>9, <1>10, <1>12, <2>4, IntoParserInv
<1>15. CASE k = Len(frames)
  <2>1. rest[k] = <<>>
    BY <1>6, <1>15 DEF Tails
  <2>2. Tail(ahead) = <<>> /\ toCome = <<>>
    BY <1>5, <1>6, <1>7, <2>1, ConcatEqualIffEmpty
  <2>3. After(<<>>, Tail(ahead))'
    BY <1>3, <1>13, <1>15, <2>2 DEF After
  <2> QED BY <1>9, <1>10, <1>12, <2>3, IntoParserInv
<1> QED BY <1>6, <1>14, <1>15

LEMMA NextParserInv == ParserInv /\ [ParserNext]_parserVars => ParserInv'
<1> SUFFICES ASSUME ParserInv, [ParserNext]_parserVars PROVE ParserInv'
  OBVIOUS
<1>1. CASE UNCHANGED parserVars
  <2>1. UNCHANGED <<toCome, frames, buffer, position, parsing, escaped, parsed, unescaped, scan>>
    BY <1>1 DEF parserVars
  <2>2. ParserTyped' /\ (ParsedSoFar <=> ParsedSoFar')
    BY <2>1 DEF ParserInv, ParserTyped, ParsedSoFar
  <2>3. CASE unescaped = "twice" \/ scan = "dead"
    BY <2>1, <2>2, <2>3 DEF ParserInv
  <2>4. CASE unescaped # "twice" /\ scan # "dead"
    <3>1. PICK rest, done, ahead :
            /\ Tails(ParserBytes, rest, FramedAll, 0, Len(frames)) /\ Scanned(done, ahead)
            /\ Before(rest, done, ahead) \/ Inside(rest, done, ahead) \/ After(done, ahead)
      BY <2>4 DEF ParserInv
    <3>2. toCome' \in Seq(ParserBytes) /\ ParsedSoFar'
      BY <2>1, <2>2, <2>4 DEF ParserInv
    <3>3. Tails(ParserBytes, rest, FramedAll, 0, Len(frames))' /\ Scanned(done, ahead)'
      BY <2>1, <3>1 DEF Tails, FramedAll, Scanned
    <3>4. (Before(rest, done, ahead) \/ Inside(rest, done, ahead) \/ After(done, ahead))'
      BY <2>1, <3>1 DEF Before, Inside, After
    <3> QED BY <2>2, <3>2, <3>3, <3>4, IntoParserInv
  <2> QED BY <2>3, <2>4
<1>2. CASE add_bytes
  BY <1>2, ReceiveKeeps
<1>3. CASE ParserNext /\ unescaped = "twice"
  <2>1. unescaped' = "twice"
    BY <1>3 DEF ParserNext, add_bytes, NoneYet, Skip, Unescape,
                DropEscape, Next_byte, Request, BadCrc
  <2>2. frames' = frames
    BY <1>3 DEF ParserNext, add_bytes, NoneYet, Skip, Unescape,
                DropEscape, Next_byte, Request, BadCrc
  <2>3. parsing' = parsing \/ parsing' = TRUE
    BY <1>3 DEF ParserNext, add_bytes, NoneYet, Skip, Unescape,
                DropEscape, Next_byte, Request, BadCrc, InRequest
  <2>4. escaped' = escaped \/ escaped' = TRUE \/ escaped' = FALSE
    BY <1>3 DEF ParserNext, add_bytes, NoneYet, Skip, Unescape,
                DropEscape, Next_byte, Request, BadCrc
  <2>5. ParserTyped'
    BY <2>2, <2>3, <2>4 DEF ParserInv, ParserTyped
  <2> QED BY <2>1, <2>5 DEF ParserInv
<1>4. CASE unescaped # "twice" /\ NoneYet
  BY <1>4, WaitKeeps
<1>5. CASE unescaped # "twice" /\ Skip
  BY <1>5, SkipKeeps
<1>6. CASE unescaped # "twice" /\ Unescape
  BY <1>6, UnescapeKeeps
<1>7. CASE unescaped # "twice" /\ DropEscape
  BY <1>7, EscapeKeeps
<1>8. CASE unescaped # "twice" /\ Next_byte
  BY <1>8, NextByteKeeps
<1>9. CASE unescaped # "twice" /\ Request
  BY <1>9, RequestKeeps
<1>10. CASE unescaped # "twice" /\ BadCrc
  BY <1>10, BadCrcKeeps
<1> QED BY <1>1, <1>2, <1>3, <1>4, <1>5, <1>6, <1>7, <1>8, <1>9, <1>10 DEF ParserNext

LEMMA SentFromInv == ParserInv => ParsedAsSent
<1> SUFFICES ASSUME ParserInv, unescaped # "twice"
             PROVE  /\ IsPrefix(parsed, frames)
                    /\ scan = "dead" => /\ Len(parsed) < Len(frames)
                                        /\ frames[Len(parsed) + 1] = Bad
                    /\ (scan = "recv" /\ toCome = <<>>) => parsed = frames
  BY DEF ParsedAsSent
<1>1. /\ parsed \in Seq(Contents) /\ frames \in Seq(Contents) /\ Len(parsed) <= Len(frames)
      /\ \A i \in 1..Len(parsed) : parsed[i] = frames[i]
  BY DEF ParserInv, ParserTyped, ParsedSoFar
<1>2. Len(parsed) \in Nat /\ Len(frames) \in Nat
  BY <1>1, LenProperties
<1>3. IsPrefix(parsed, frames)
  <2> DEFINE u == SubSeq(frames, 1, Len(parsed))
  <2>1. u \in Seq(Contents) /\ Len(u) = Len(parsed) /\ \A i \in 1..Len(parsed) : u[i] = frames[i]
    <3>1. \A i \in 1..Len(parsed) : i \in 1..Len(frames)
      BY <1>1, <1>2
    <3>2. \A i \in 1..Len(parsed) : frames[i] \in Contents
      BY <1>1, <3>1, ElementOfSeq
    <3>3. /\ u \in Seq(Contents) /\ Len(u) = IF 1 <= Len(parsed) THEN Len(parsed) - 1 + 1 ELSE 0
          /\ \A i \in 1..Len(parsed) - 1 + 1 : u[i] = frames[1 + i - 1]
      <4>1. 1 \in Int /\ Len(parsed) \in Int
        BY <1>2
      <4> QED BY <3>2, <4>1, SubSeqProperties
    <3> HIDE DEF u
    <3> QED BY <1>2, <3>3
  <2> HIDE DEF u
  <2>2. u = parsed
    <3>1. \A i \in 1..Len(u) : u[i] = parsed[i]
      BY <1>1, <2>1
    <3> QED BY <1>1, <2>1, <3>1, SeqEqual
  <2>3. SubSeq(parsed, 1, Len(parsed)) = parsed
    BY <1>1, SubSeqFull
  <2> QED BY <1>1, <2>2, <2>3 DEF u, IsPrefix
<1>4. ASSUME scan = "recv", toCome = <<>> PROVE parsed = frames
  <2>1. PICK rest, done, ahead :
          /\ Tails(ParserBytes, rest, FramedAll, 0, Len(frames)) /\ Scanned(done, ahead)
          /\ Before(rest, done, ahead) \/ Inside(rest, done, ahead) \/ After(done, ahead)
    BY <1>4 DEF ParserInv
  <2>2. ahead = <<>> /\ done \in Seq(ParserBytes)
    BY <1>4, <2>1 DEF Scanned
  <2>3. <<>> \o <<>> = <<>> /\ <<>> \in Seq(ParserBytes)
    BY EmptySeq, ConcatEmptySeq
  <2>4. frames # <<>> /\ 0 < Len(frames)
    <3>1. frames # <<>>
      BY DEF ParserInv, ParserTyped
    <3> QED BY <1>1, <3>1, EmptySeq
  <2>5. ~Before(rest, done, ahead)
    <3>1. rest[0] \in Seq(ParserBytes) /\ "data" \in ParserBytes
      BY <1>1, <2>1, <2>4, StartOfRequest DEF ParserBytes
    <3>2. <<"data">> \o rest[0] # <<>>
      BY <3>1, FirstOff
    <3> QED BY <1>4, <2>2, <2>3, <3>2 DEF Before
  <2>6. ~Inside(rest, done, ahead)
    <3>1. SUFFICES ASSUME Inside(rest, done, ahead) PROVE FALSE
      OBVIOUS
    <3> DEFINE k == Len(parsed)
    <3>2. PICK next \in Seq(ParserBytes) :
            /\ k < Len(frames) /\ Within(frames[k + 1], done, next, escaped)
            /\ ahead \o toCome = next \o rest[k + 1]
      BY <3>1 DEF Inside
    <3>3. frames[k + 1] \in Contents /\ rest[k + 1] \in Seq(ParserBytes)
      BY <1>1, <1>2, <2>1, <3>2, StartOfRequest
    <3>4. escaped \in BOOLEAN
      BY DEF ParserInv, ParserTyped
    <3>5. ByteRead(frames[k + 1], done, next, escaped)
      BY <2>2, <3>2, <3>3, <3>4, WithinStep
    <3>6. next # <<>>
      BY <3>5 DEF ByteRead
    <3>7. next \o rest[k + 1] # <<>>
      <4> DEFINE r == rest[k + 1]
      <4>1. r \in Seq(ParserBytes)
        BY <3>3
      <4> HIDE DEF r
      <4>2. next \o r # <<>>
        BY <3>6, <4>1, Uncons
      <4> QED BY <4>2 DEF r
    <3> QED BY <1>4, <2>2, <2>3, <3>2, <3>7
  <2>7. Len(parsed) = Len(frames)
    BY <2>1, <2>5, <2>6 DEF After
  <2> QED BY <1>1, <2>7, SeqEqual
<1> QED BY <1>3, <1>4 DEF ParserInv

\* Wherever the stream is cut, the requests returned are the client's, in order and
\* without loss up to the first with a wrong checksum, unless a cut has bytes
\* unescaped twice.
THEOREM ReturnedAsSent ==
  ASSUME MaxFrames \in Nat
  PROVE  ParserSpec => []ParsedAsSent
<1>1. ParserInit => ParserInv
  BY InitParserInv
<1>2. ParserInv /\ [ParserNext]_parserVars => ParserInv'
  BY NextParserInv
<1> QED BY <1>1, <1>2, SentFromInv, PTL DEF ParserSpec
=============================================================================
