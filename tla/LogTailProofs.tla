--------------------------- MODULE LogTailProofs ---------------------------
(***************************************************************************)
(* Proofs about LogTail, for every number of records, files, deaths and    *)
(* restarts: what the forwarder posts is in the order of the log.          *)
(***************************************************************************)
EXTENDS LogTail, NaturalsInduction, WellFoundedInduction, SequenceTheorems, TLAPS

Piece == [rec : Nat, part : {"whole", "head", "tail"}]

(* Types; the forwarder's position is in the file it has open.             *)
TypeInv ==
    /\ inodes \in 0..MaxInodes
    /\ content \in [1..MaxInodes -> Seq(Piece)]
    /\ path \in 0..inodes /\ whandle \in 0..inodes
    /\ written \in Nat /\ midway \in 0..written
    /\ mapped \in Seq(Nat)
    /\ fpc \in {"open", "read", "post", "sleep"}
    /\ fh \in 0..inodes /\ (fpc # "open" => fh # 0)
    /\ off \in Nat /\ (fh # 0 => off <= Len(content[fh]))

(* No file holds a record that is not begun, and whatever begins a record  *)
(* in a file comes after the pieces of earlier ones.                       *)
FilesInOrder ==
    \A i \in 1..MaxInodes :
        /\ \A b \in 1..Len(content[i]) : content[i][b].rec <= written
        /\ \A a, b \in 1..Len(content[i]) :
               a < b /\ content[i][b].part # "tail"
                   => content[i][a].rec < content[i][b].rec

(* What was posted is earlier than every record that begins beyond the     *)
(* forwarder's position.                                                   *)
PostedIsBehind ==
    \A x \in 1..Len(mapped) :
        /\ mapped[x] <= written
        /\ fh # 0 => \A j \in (off + 1)..Len(content[fh]) :
                         content[fh][j].part # "tail" => mapped[x] < content[fh][j].rec

(* The inductive invariant.                                                *)
IInv == TypeInv /\ FilesInOrder /\ PostedIsBehind /\ PostedOnceInOrder

-----------------------------------------------------------------------------
(* A set of natural numbers that is not empty has a least element.         *)
LEMMA LeastNat ==
  ASSUME NEW S \in SUBSET Nat, S # {}
  PROVE  \E m \in S : \A k \in S : m <= k
  <1>1. PICK m \in S : \A k \in S : ~ (<<k, m>> \in OpToRel(<, Nat))
    BY NatLessThanWellFounded, WFMin
  <1>2. \A k \in S : ~ (k < m)
    BY <1>1 DEF OpToRel
  <1> QED
    BY <1>2

(* readline returns at least one piece and at most what is there.          *)
LEMMA LineIsThere ==
  ASSUME TypeInv, fh # 0, Unread # <<>>
  PROVE  /\ LineLength \in 1..Len(Unread)
         /\ Len(Unread) = Len(content[fh]) - off
         /\ Unread[1] = content[fh][off + 1]
         /\ off + 1 \in 1..Len(content[fh])
  <1> DEFINE f == content[fh]
             ends == {i \in DOMAIN Unread : EndsLine(Unread[i])}
  <1>1. f \in Seq(Piece) /\ Len(f) \in Nat /\ off \in Nat /\ off <= Len(f)
    <2>1. fh \in 1..MaxInodes
      BY TailAssumption DEF TypeInv
    <2>2. f \in Seq(Piece)
      BY <2>1 DEF TypeInv
    <2>3. off \in Nat /\ off <= Len(f)
      BY DEF TypeInv
    <2> QED
      BY <2>2, <2>3
  <1>2. /\ Unread \in Seq(Piece) /\ Len(Unread) = Len(f) - off
        /\ Unread[1] = f[off + 1] /\ off + 1 \in 1..Len(f)
        /\ Len(Unread) \in Nat \ {0}
    <2>1. Unread = SubSeq(f, off + 1, Len(f))
      BY DEF Unread
    <2> HIDE DEF f
    <2>2. off < Len(f)
      <3>1. off = Len(f) => SubSeq(f, off + 1, Len(f)) = <<>>
        BY <1>1
      <3> QED
        BY <1>1, <2>1, <3>1
    <2> QED
      BY <1>1, <2>1, <2>2
  <1>3. LineLength \in 1..Len(Unread)
    <2>1. CASE ends = {}
      <3>1. LineLength = Len(Unread)
        BY <2>1 DEF LineLength
      <3> QED
        BY <1>2, <3>1
    <2>2. CASE ends # {}
      <3>1. ends \subseteq 1..Len(Unread) /\ ends \in SUBSET Nat
        BY <1>2
      <3>2. LineLength = CHOOSE i \in ends : \A j \in ends : i <= j
        BY <2>2 DEF LineLength
      <3> HIDE DEF ends
      <3>3. \E i \in ends : \A j \in ends : i <= j
        BY <2>2, <3>1, LeastNat
      <3> QED
        BY <3>1, <3>2, <3>3
    <2> QED
      BY <2>1, <2>2
  <1> QED
    BY <1>2, <1>3

-----------------------------------------------------------------------------
(* A piece appended to the file conpot has open: a new record's, or the    *)
(* tail of the one under way.                                              *)
LEMMA WriteStep ==
  ASSUME IInv, whandle # 0, NEW p \in Piece,
         content' = [content EXCEPT ![whandle] = Append(@, p)],
         written' \in Nat, written <= written', p.rec <= written',
         p.part # "tail" => written < p.rec,
         midway' \in 0..written',
         UNCHANGED <<inodes, path, whandle, reader>>
  PROVE  IInv'
  <1>1. /\ content \in [1..MaxInodes -> Seq(Piece)] /\ whandle \in 1..MaxInodes
        /\ written \in Nat /\ mapped \in Seq(Nat) /\ off \in Nat /\ MaxInodes \in Nat
        /\ inodes \in 0..MaxInodes /\ fh \in 0..inodes
    BY TailAssumption DEF IInv, TypeInv
  <1>2. p.rec \in Nat
    BY DEF Piece
  <1>3. ASSUME NEW i \in 1..MaxInodes
        PROVE  /\ content[i] \in Seq(Piece) /\ Len(content[i]) \in Nat
               /\ content'[i] = IF i = whandle THEN Append(content[i], p) ELSE content[i]
    BY <1>1
  <1>4. ASSUME NEW i \in 1..MaxInodes
        PROVE  /\ content'[i] \in Seq(Piece)
               /\ Len(content'[i]) \in Nat /\ Len(content[i]) <= Len(content'[i])
               /\ \A b \in 1..Len(content[i]) : content'[i][b] = content[i][b]
               /\ \A b \in 1..Len(content'[i]) :
                      b \in 1..Len(content[i])
                          \/ (b = Len(content[i]) + 1 /\ content'[i][b] = p)
    <2> DEFINE f == content[i]
               g == content'[i]
    <2>1. f \in Seq(Piece) /\ Len(f) \in Nat /\ g = IF i = whandle THEN Append(f, p) ELSE f
      BY <1>3
    <2> HIDE DEF f, g
    <2>2. /\ g \in Seq(Piece) /\ Len(g) \in Nat /\ Len(f) <= Len(g)
          /\ \A b \in 1..Len(f) : g[b] = f[b]
          /\ \A b \in 1..Len(g) : b \in 1..Len(f) \/ (b = Len(f) + 1 /\ g[b] = p)
      <3>1. CASE g = Append(f, p)
        <4>1. /\ g \in Seq(Piece) /\ Len(g) = Len(f) + 1
              /\ \A b \in 1..Len(f) : g[b] = f[b]
              /\ g[Len(f) + 1] = p
          BY <2>1, <3>1
        <4>2. \A b \in 1..Len(g) : b \in 1..Len(f) \/ b = Len(f) + 1
          BY <2>1, <4>1
        <4> QED
          <5>1. \A b \in 1..Len(g) : b \in 1..Len(f) \/ (b = Len(f) + 1 /\ g[b] = p)
            BY <4>1, <4>2
          <5>2. Len(g) \in Nat /\ Len(f) <= Len(g)
            BY <2>1, <4>1
          <5> QED
            BY <4>1, <5>1, <5>2
      <3>2. CASE g = f
        <4>1. Len(g) \in Nat /\ Len(f) <= Len(g)
          BY <2>1, <3>2
        <4> QED
          BY <2>1, <3>2, <4>1
      <3> QED
        BY <2>1, <3>1, <3>2
    <2> QED
      BY <2>2 DEF f, g
  <1>5. TypeInv'
    <2>1. content' \in [1..MaxInodes -> Seq(Piece)]
      BY <1>1, <1>3, <1>4
    <2>2. fh # 0 => off <= Len(content'[fh])
      <3> SUFFICES ASSUME fh # 0 PROVE off <= Len(content'[fh])
        OBVIOUS
      <3>1. fh \in 1..MaxInodes /\ off <= Len(content[fh])
        BY <1>1 DEF IInv, TypeInv
      <3> QED
        BY <1>1, <1>3, <1>4, <3>1
    <2> QED
      BY <2>1, <2>2 DEF IInv, TypeInv, reader
  <1>6. FilesInOrder'
    <2> SUFFICES ASSUME NEW i \in 1..MaxInodes
                 PROVE  /\ \A b \in 1..Len(content'[i]) : content'[i][b].rec <= written'
                        /\ \A a, b \in 1..Len(content'[i]) :
                               a < b /\ content'[i][b].part # "tail"
                                   => content'[i][a].rec < content'[i][b].rec
      BY DEF FilesInOrder
    <2> DEFINE f == content[i]
               g == content'[i]
    <2>1. /\ \A b \in 1..Len(f) : f[b].rec <= written
          /\ \A a, b \in 1..Len(f) : a < b /\ f[b].part # "tail" => f[a].rec < f[b].rec
      BY DEF IInv, FilesInOrder
    <2>2. /\ g \in Seq(Piece) /\ f \in Seq(Piece) /\ Len(g) \in Nat /\ Len(f) \in Nat
          /\ \A b \in 1..Len(f) : g[b] = f[b]
          /\ \A b \in 1..Len(g) : b \in 1..Len(f) \/ (b = Len(f) + 1 /\ g[b] = p)
      BY <1>3, <1>4
    <2>3. \A b \in 1..Len(f) : f[b].rec \in Nat
      <3> TAKE b \in 1..Len(f)
      <3>1. f[b] \in Piece
        BY <2>2
      <3> QED
        BY <3>1 DEF Piece
    <2> HIDE DEF f, g
    <2>4. ASSUME NEW b \in 1..Len(g) PROVE g[b].rec <= written'
      <3>1. CASE b \in 1..Len(f)
        <4>1. g[b] = f[b]
          BY <2>2, <3>1
        <4>2. f[b].rec <= written /\ f[b].rec \in Nat
          BY <2>1, <2>3, <3>1
        <4>3. written \in Nat /\ written' \in Nat /\ written <= written'
          BY <1>1
        <4> QED
          BY <4>1, <4>2, <4>3
      <3>2. CASE g[b] = p
        BY <3>2
      <3> QED
        BY <2>2, <3>1, <3>2
    <2>5. ASSUME NEW a \in 1..Len(g), NEW b \in 1..Len(g), a < b, g[b].part # "tail"
          PROVE  g[a].rec < g[b].rec
      <3>1. CASE b \in 1..Len(f)
        <4>1. a \in 1..Len(f)
          BY <2>2, <2>5, <3>1
        <4> QED
          BY <2>1, <2>2, <2>5, <3>1, <4>1
      <3>2. CASE b = Len(f) + 1 /\ g[b] = p
        <4>1. a \in 1..Len(f)
          BY <2>2, <2>5, <3>2
        <4>2. g[a].rec <= written /\ g[a].rec \in Nat /\ written < p.rec
          <5>1. g[a] = f[a]
            BY <2>2, <4>1
          <5>2. f[a].rec <= written /\ f[a].rec \in Nat
            BY <2>1, <2>3, <4>1
          <5>3. written < p.rec
            BY <2>5, <3>2
          <5> QED
            BY <5>1, <5>2, <5>3
        <4>3. g[b].rec = p.rec
          BY <3>2
        <4>4. written \in Nat /\ p.rec \in Nat
          BY <1>1, <1>2
        <4> QED
          BY <4>2, <4>3, <4>4
      <3> QED
        BY <2>2, <3>1, <3>2
    <2> QED
      BY <2>4, <2>5 DEF g
  <1>7. PostedIsBehind'
    <2> SUFFICES ASSUME NEW x \in 1..Len(mapped)
                 PROVE  /\ mapped[x] <= written'
                        /\ fh # 0 => \A j \in (off + 1)..Len(content'[fh]) :
                                         content'[fh][j].part # "tail"
                                             => mapped[x] < content'[fh][j].rec
      BY DEF PostedIsBehind, reader
    <2>1. mapped[x] \in Nat /\ mapped[x] <= written
      <3>1. mapped[x] <= written
        BY DEF IInv, PostedIsBehind
      <3>2. mapped[x] \in Nat
        BY <1>1, ElementOfSeq
      <3> QED
        BY <3>1, <3>2
    <2>2. ASSUME fh # 0, NEW j \in (off + 1)..Len(content'[fh]),
                 content'[fh][j].part # "tail"
          PROVE  mapped[x] < content'[fh][j].rec
      <3>1. fh \in 1..MaxInodes
        <4>1. /\ MaxInodes \in Nat /\ inodes \in 0..MaxInodes
              /\ fh \in 0..inodes /\ fh # 0
          BY <1>1, <2>2
        <4> QED
          BY <4>1
      <3>2. j \in 1..Len(content'[fh]) /\ Len(content[fh]) \in Nat /\ j \in Nat
        <4>1. Len(content[fh]) \in Nat /\ Len(content'[fh]) \in Nat
          <5>1. Len(content[fh]) \in Nat
            BY <1>3, <3>1
          <5>2. Len(content'[fh]) \in Nat
            BY <1>4, <3>1
          <5> QED
            BY <5>1, <5>2
        <4>2. off \in Nat
          BY DEF IInv, TypeInv
        <4> QED
          BY <4>1, <4>2
      <3>3. CASE j \in 1..Len(content[fh])
        <4>1. j \in (off + 1)..Len(content[fh]) /\ content'[fh][j] = content[fh][j]
          BY <1>1, <1>4, <3>1, <3>2, <3>3
        <4> QED
          BY <2>2, <4>1 DEF IInv, PostedIsBehind
      <3>4. CASE content'[fh][j] = p
        <4>1. p.part # "tail"
          BY <2>2, <3>4
        <4>2. mapped[x] < p.rec
          <5>1. written < p.rec
            BY <4>1
          <5>2. written \in Nat /\ p.rec \in Nat
            BY <1>1, <1>2
          <5> QED
            BY <2>1, <5>1, <5>2
        <4> QED
          BY <3>4, <4>2
      <3> QED
        BY <1>4, <3>1, <3>2, <3>3, <3>4
    <2>3. mapped[x] <= written'
      BY <1>1, <2>1
    <2> QED
      BY <2>2, <2>3
  <1>8. PostedOnceInOrder'
    BY DEF IInv, PostedOnceInOrder, reader
  <1> QED
    BY <1>5, <1>6, <1>7, <1>8 DEF IInv

(* The forwarder reads a line.                                             *)
LEMMA ReadStep ==
  ASSUME IInv, ReadLine
  PROVE  IInv'
  <1> DEFINE f == content[fh]
             r == f[off + 1].rec
  <1>1. /\ TypeInv /\ fh # 0 /\ Unread # <<>> /\ fh \in 1..MaxInodes
        /\ UNCHANGED <<content, inodes, path, writer, fh, restarts, due>>
        /\ off' = off + LineLength
    BY TailAssumption DEF IInv, TypeInv, ReadLine
  <1>2. /\ f \in Seq(Piece) /\ Len(f) \in Nat /\ off \in Nat /\ mapped \in Seq(Nat)
        /\ written \in Nat
    BY <1>1 DEF TypeInv
  <1>3. /\ LineLength \in 1..(Len(f) - off) /\ Len(Unread) = Len(f) - off
        /\ Unread[1] = f[off + 1] /\ off + 1 \in 1..Len(f)
    BY <1>1, LineIsThere
  <1>4. f[off + 1] \in Piece /\ r \in Nat
    <2>1. f[off + 1] \in Piece
      BY <1>2, <1>3
    <2> QED
      BY <2>1 DEF Piece
  <1>5. off' \in Nat /\ off' <= Len(f) /\ off + 1 <= off'
    BY <1>1, <1>2, <1>3
  <1>14. ASSUME NEW j \in (off' + 1)..Len(f)
         PROVE  j \in 1..Len(f) /\ off + 1 < j /\ j \in (off + 1)..Len(f)
    <2>1. \A a, b, n \in Nat : \A i \in (b + 1)..n :
              a + 1 <= b => i \in 1..n /\ a + 1 < i /\ i \in (a + 1)..n
      OBVIOUS
    <2> QED
      BY <1>2, <1>5, <2>1
  <1>6. \/ mapped' = mapped /\ fpc' = fpc
        \/ mapped' = Append(mapped, r) /\ fpc' = "post" /\ f[off + 1].part # "tail"
    <2> DEFINE line == SubSeq(Unread, 1, LineLength)
    <2>1. line[1] = f[off + 1]
      <3>1. Unread \in Seq(Piece)
        BY <1>2, <1>3 DEF Unread
      <3> QED
        BY <1>2, <1>3, <3>1
    <2>2. CASE Parses(line) /\ line[1].rec \notin Lifecycle
      <3>1. mapped' = Append(mapped, line[1].rec) /\ fpc' = "post"
        BY <2>2 DEF ReadLine
      <3>2. line[1].part # "tail"
        BY <2>2 DEF Parses
      <3> QED
        BY <2>1, <3>1, <3>2
    <2>3. CASE ~(Parses(line) /\ line[1].rec \notin Lifecycle)
      BY <2>3 DEF ReadLine
    <2> QED
      BY <2>2, <2>3
  <1>7. \A x \in 1..Len(mapped) :
            /\ mapped[x] \in Nat /\ mapped[x] <= written
            /\ \A j \in (off + 1)..Len(f) : f[j].part # "tail" => mapped[x] < f[j].rec
    <2> TAKE x \in 1..Len(mapped)
    <2>1. mapped[x] \in Nat
      BY <1>2, ElementOfSeq
    <2>2. /\ mapped[x] <= written
          /\ \A j \in (off + 1)..Len(f) : f[j].part # "tail" => mapped[x] < f[j].rec
      BY <1>1 DEF IInv, PostedIsBehind
    <2> QED
      BY <2>1, <2>2
  <1>8. /\ r <= written
        /\ \A j \in (off' + 1)..Len(f) : f[j].part # "tail" => r < f[j].rec
    <2>1. /\ \A b \in 1..Len(f) : f[b].rec <= written
          /\ \A a, b \in 1..Len(f) : a < b /\ f[b].part # "tail" => f[a].rec < f[b].rec
      BY <1>1 DEF IInv, FilesInOrder
    <2> HIDE DEF f
    <2> QED
      BY <1>3, <1>14, <2>1
  <1>9. TypeInv'
    <2>1. mapped' \in Seq(Nat)
      <3>1. r \in Nat /\ mapped \in Seq(Nat)
        BY <1>2, <1>4
      <3>2. mapped' = mapped \/ mapped' = Append(mapped, r)
        BY <1>6
      <3> HIDE DEF r
      <3> QED
        BY <3>1, <3>2, AppendProperties
    <2>2. fpc' \in {"open", "read", "post", "sleep"}
      BY <1>1, <1>6 DEF TypeInv
    <2> QED
      BY <1>1, <1>5, <2>1, <2>2 DEF TypeInv, writer
  <1>10. FilesInOrder'
    BY <1>1 DEF IInv, FilesInOrder, writer
  <1> HIDE DEF f, r
  <1>12. CASE mapped' = mapped
    <2>1. PostedIsBehind'
      BY <1>1, <1>7, <1>14, <1>12 DEF PostedIsBehind, writer, f
    <2> QED
      BY <1>9, <1>10, <1>12, <2>1 DEF IInv, PostedOnceInOrder
  <1>13. CASE mapped' = Append(mapped, r) /\ f[off + 1].part # "tail"
    <2>1. /\ Len(mapped) \in Nat /\ Len(mapped') = Len(mapped) + 1
          /\ DOMAIN mapped' = 1..(Len(mapped) + 1)
          /\ mapped'[Len(mapped) + 1] = r
          /\ \A x \in 1..Len(mapped) : mapped'[x] = mapped[x]
      BY <1>2, <1>4, <1>13
    <2>2. ASSUME NEW x \in 1..Len(mapped')
          PROVE  /\ mapped'[x] <= written
                 /\ \A j \in (off' + 1)..Len(f) :
                        f[j].part # "tail" => mapped'[x] < f[j].rec
      <3>1. CASE x \in 1..Len(mapped)
        BY <1>7, <1>14, <2>1, <3>1
      <3>2. CASE x = Len(mapped) + 1
        BY <1>8, <2>1, <3>2
      <3> QED
        BY <2>1, <3>1, <3>2
    <2>3. PostedIsBehind'
      BY <1>1, <2>2 DEF PostedIsBehind, writer, f
    <2>4. \A x \in 1..Len(mapped) : mapped[x] < r
      <3>1. off + 1 \in (off + 1)..Len(f)
        BY <1>2, <1>3
      <3> QED
        BY <1>7, <1>13, <3>1 DEF r
    <2>5. PostedOnceInOrder'
      <3> SUFFICES ASSUME NEW i \in 1..(Len(mapped) + 1), NEW j \in 1..(Len(mapped) + 1),
                          i < j
                   PROVE  mapped'[i] < mapped'[j]
        BY <2>1 DEF PostedOnceInOrder
      <3>1. i \in 1..Len(mapped)
        BY <2>1
      <3>2. CASE j \in 1..Len(mapped)
        <4>1. mapped[i] < mapped[j]
          BY <1>2, <3>1, <3>2 DEF IInv, PostedOnceInOrder
        <4> QED
          BY <2>1, <3>1, <3>2, <4>1
      <3>3. CASE j = Len(mapped) + 1
        BY <2>1, <2>4, <3>1, <3>3
      <3> QED
        BY <2>1, <3>2, <3>3
    <2> QED
      BY <1>9, <1>10, <2>3, <2>5 DEF IInv
  <1> QED
    BY <1>6, <1>12, <1>13

(* What neither writes nor reads: the forwarder opens a file at its end,   *)
(* closes it, or stays where it is.                                        *)
LEMMA QuietStep ==
  ASSUME IInv, UNCHANGED <<content, written, mapped>>, TypeInv',
         \/ UNCHANGED <<fh, off>>
         \/ fh' = 0
         \/ fh' # 0 /\ off' = Len(content[fh'])
  PROVE  IInv'
  <1>1. FilesInOrder' /\ PostedOnceInOrder'
    BY DEF IInv, FilesInOrder, PostedOnceInOrder
  <1>2. PostedIsBehind'
    <2>1. CASE UNCHANGED <<fh, off>> \/ fh' = 0
      BY <2>1 DEF IInv, PostedIsBehind
    <2>2. CASE fh' # 0 /\ off' = Len(content[fh'])
      <3>1. fh' \in 1..MaxInodes /\ content \in [1..MaxInodes -> Seq(Piece)]
        BY <2>2, TailAssumption DEF TypeInv, IInv
      <3>2. Len(content[fh']) \in Nat
        BY <3>1
      <3>3. (off' + 1)..Len(content'[fh']) = {}
        BY <2>2, <3>2
      <3> QED
        BY <3>3 DEF IInv, PostedIsBehind
    <2> QED
      BY <2>1, <2>2
  <1> QED
    BY <1>1, <1>2 DEF IInv

(* Every step keeps the invariant.                                         *)
LEMMA NextIInv == IInv /\ [Next]_vars => IInv'
  <1> SUFFICES ASSUME IInv, [Next]_vars PROVE IInv'
    OBVIOUS
  <1>1. TypeInv
    BY DEF IInv
  <1>2. /\ MaxInodes \in Nat /\ inodes \in 0..MaxInodes /\ path \in 0..inodes
        /\ whandle \in 0..inodes /\ written \in Nat /\ midway \in 0..written
        /\ fh \in 0..inodes
    BY <1>1, TailAssumption DEF TypeInv
  <1>3. CASE WriteRecord
    <2> DEFINE p == Whole(written + 1)
    <2>1. p \in Piece /\ p.rec = written + 1
      BY <1>2 DEF Whole, Piece
    <2>2. /\ whandle # 0 /\ content' = [content EXCEPT ![whandle] = Append(@, p)]
          /\ written' = written + 1
          /\ UNCHANGED <<inodes, path, whandle, midway, reader>>
      BY <1>3 DEF WriteRecord
    <2> HIDE DEF p
    <2>3. /\ written' \in Nat /\ written <= written' /\ p.rec <= written'
          /\ p.part # "tail" => written < p.rec
          /\ midway' \in 0..written'
      BY <1>2, <2>1, <2>2
    <2> QED
      BY <2>1, <2>2, <2>3, WriteStep
  <1>4. CASE WriteHead
    <2> DEFINE p == HeadOf(written + 1)
    <2>1. p \in Piece /\ p.rec = written + 1
      BY <1>2 DEF HeadOf, Piece
    <2>2. /\ whandle # 0 /\ content' = [content EXCEPT ![whandle] = Append(@, p)]
          /\ written' = written + 1 /\ midway' = written + 1
          /\ UNCHANGED <<inodes, path, whandle, reader>>
      BY <1>4 DEF WriteHead
    <2> HIDE DEF p
    <2>3. /\ written' \in Nat /\ written <= written' /\ p.rec <= written'
          /\ p.part # "tail" => written < p.rec
          /\ midway' \in 0..written'
      BY <1>2, <2>1, <2>2
    <2> QED
      BY <2>1, <2>2, <2>3, WriteStep
  <1>5. CASE WriteTail
    <2> DEFINE p == TailOf(midway)
    <2>1. p \in Piece /\ p.rec = midway /\ p.part = "tail"
      BY <1>2 DEF TailOf, Piece
    <2>2. /\ whandle # 0 /\ content' = [content EXCEPT ![whandle] = Append(@, p)]
          /\ midway' = 0
          /\ UNCHANGED <<inodes, path, whandle, written, reader>>
      BY <1>5 DEF WriteTail
    <2> HIDE DEF p
    <2>3. /\ written' \in Nat /\ written <= written' /\ p.rec <= written'
          /\ p.part # "tail" => written < p.rec
          /\ midway' \in 0..written'
      BY <1>2, <2>1, <2>2
    <2> QED
      BY <2>1, <2>2, <2>3, WriteStep
  <1>6. CASE ReadLine
    BY <1>6, ReadStep
  <1>7. CASE ConpotStarts
    <2>1. inodes' \in 0..MaxInodes /\ path' \in 0..inodes' /\ whandle' \in 0..inodes'
          /\ fh \in 0..inodes'
      BY <1>2, <1>7 DEF ConpotStarts
    <2>2. UNCHANGED <<content, midway, written, fpc, fh, off, mapped>>
      BY <1>7 DEF ConpotStarts, reader
    <2>3. TypeInv'
      BY <1>1, <2>1, <2>2 DEF TypeInv
    <2> QED
      BY <2>2, <2>3, QuietStep
  <1>8. CASE Rotate
    <2>1. inodes' \in 0..MaxInodes /\ path' \in 0..inodes' /\ whandle \in 0..inodes'
          /\ fh \in 0..inodes'
      BY <1>2, <1>8 DEF Rotate
    <2>2. UNCHANGED <<content, whandle, midway, written, fpc, fh, off, mapped>>
      BY <1>8 DEF Rotate, reader, writer
    <2>3. TypeInv'
      BY <1>1, <2>1, <2>2 DEF TypeInv
    <2> QED
      BY <2>2, <2>3, QuietStep
  <1>9. CASE ConpotDies
    <2>1. whandle' = 0 /\ midway' = 0
          /\ UNCHANGED <<content, inodes, path, written, fpc, fh, off, mapped>>
      BY <1>9 DEF ConpotDies, reader
    <2>2. TypeInv'
      BY <1>1, <1>2, <2>1 DEF TypeInv
    <2> QED
      BY <2>1, <2>2, QuietStep
  <1>10. CASE OpenLog
    <2>1. path \in 1..MaxInodes /\ fh' = path /\ off' = Len(content[path]) /\ fpc' = "read"
          /\ UNCHANGED <<content, inodes, path, whandle, written, midway, mapped>>
      BY <1>2, <1>10 DEF OpenLog, StartOffset, writer
    <2>2. Len(content[path]) \in Nat
      BY <1>1, <2>1 DEF TypeInv
    <2>3. TypeInv'
      BY <1>1, <1>2, <2>1, <2>2 DEF TypeInv
    <2> QED
      BY <2>1, <2>3, QuietStep
  <1>11. CASE PostDone \/ ReadNothing
    <2>1. fpc' \in {"read", "sleep"} /\ fpc # "open"
          /\ UNCHANGED <<content, inodes, path, whandle, written, midway, fh, off, mapped>>
      BY <1>11 DEF PostDone, ReadNothing, writer
    <2>2. TypeInv'
      BY <1>1, <2>1 DEF TypeInv
    <2> QED
      BY <2>1, <2>2, QuietStep
  <1>12. CASE Woken
    <2>1. fpc = "sleep" /\ fpc' \in {"open", "read"}
          /\ UNCHANGED <<content, inodes, path, whandle, written, midway, mapped>>
      BY <1>12 DEF Woken, writer
    <2>2. \/ fpc' = "open" /\ fh' = 0 /\ off' = 0
          \/ fpc' = "read" /\ fh' = fh /\ off' = off
      BY <1>12, <2>1 DEF Woken
    <2>3. TypeInv'
      BY <1>1, <1>2, <2>1, <2>2 DEF TypeInv
    <2> QED
      BY <2>1, <2>2, <2>3, QuietStep
  <1>13. CASE ForwarderRestart
    <2>1. fpc' = "open" /\ fh' = 0 /\ off' = 0
          /\ UNCHANGED <<content, inodes, path, whandle, written, midway, mapped>>
      BY <1>13 DEF ForwarderRestart, writer
    <2>2. TypeInv'
      BY <1>1, <1>2, <2>1 DEF TypeInv
    <2> QED
      BY <2>1, <2>2, QuietStep
  <1>14. CASE UNCHANGED vars
    <2>1. TypeInv'
      BY <1>1, <1>14 DEF TypeInv, vars, writer, reader
    <2> QED
      BY <1>14, <2>1, QuietStep DEF vars, writer, reader
  <1> QED
    BY <1>3, <1>4, <1>5, <1>6, <1>7, <1>8, <1>9, <1>10, <1>11, <1>12, <1>13, <1>14
       DEF Next, Conpot, Forwarder, NoLogYet

(* So it holds in every state that is reached.                             *)
LEMMA SpecIInv == Spec => []IInv
  <1>1. Init => IInv
    <2> SUFFICES ASSUME Init PROVE IInv
      OBVIOUS
    <2>1. TypeInv
      BY TailAssumption DEF Init, TypeInv
    <2>2. FilesInOrder /\ PostedIsBehind /\ PostedOnceInOrder
      BY DEF Init, FilesInOrder, PostedIsBehind, PostedOnceInOrder
    <2> QED
      BY <2>1, <2>2 DEF IInv
  <1> QED
    BY <1>1, NextIInv, PTL DEF Spec

(* The forwarder posts records in the order conpot wrote them and none     *)
(* twice, however long they are, whatever is torn by a death of conpot, and*)
(* wherever rotations and restarts fall: a file is opened at its end only. *)
THEOREM InOrderOnce == Spec => []PostedOnceInOrder
  <1>1. IInv => PostedOnceInOrder
    BY DEF IInv
  <1> QED
    BY <1>1, SpecIInv, PTL

=============================================================================
