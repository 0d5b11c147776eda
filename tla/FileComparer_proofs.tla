------------------------ MODULE FileComparer_proofs ------------------------
(***************************************************************************)
(* What holds of FileComparer for files of any length, any block sizes and *)
(* every interleaving of the two threads.                                  *)
(***************************************************************************)
EXTENDS FileComparer, SequenceTheorems, WellFoundedInduction, TLAPS

-----------------------------------------------------------------------------
(***************************************************************************)
(* Numbers.  A set of numbers stands for the predicate of an induction, so *)
(* that the lemmas take no operator.                                       *)
(***************************************************************************)
Less == {q \in Nat \X Nat : q[1] < q[2]}

LEMMA Least ==
  ASSUME NEW T \in SUBSET Nat, T # {}
  PROVE  \E x \in T : \A y \in T : x <= y
<1>1. IsWellFoundedOn(Less, Nat)
  BY NatLessThanWellFounded DEF OpToRel, Less
<1>2. PICK x \in T : \A y \in T : <<y, x>> \notin Less
  BY <1>1, WFMin
<1>3. ASSUME NEW y \in T PROVE x <= y
  <2>1. <<y, x>> \notin Less /\ x \in Nat /\ y \in Nat
    BY <1>2
  <2> QED
    BY <2>1 DEF Less
<1> QED
  BY <1>3

LEMMA Induction ==
  ASSUME NEW T \in SUBSET Nat, 0 \in T, \A n \in T : n + 1 \in T
  PROVE  T = Nat
<1> SUFFICES ASSUME Nat \ T # {} PROVE FALSE
  OBVIOUS
<1>1. PICK n \in Nat \ T : \A m \in Nat \ T : n <= m
  <2>1. Nat \ T \in SUBSET Nat
    OBVIOUS
  <2> QED
    BY <2>1, Least
<1>2. n - 1 \in T
  BY <1>1
<1>3. n - 1 + 1 = n /\ n - 1 + 1 \in T
  BY <1>2
<1> QED
  BY <1>3

\* A sum of multiples is one, and multiples are a multiple apart.
LEMMA Multiples ==
  ASSUME NEW c \in Nat \ {0}, NEW a \in Nat, NEW b \in Nat, a % c = 0, b % c = 0
  PROVE  /\ (a + b) % c = 0
         /\ a <= b /\ b < a + c => a = b
<1> DEFINE p == a \div c
           q == b \div c
<1>1. a = c * p /\ p \in Nat
  OBVIOUS
<1>2. b = c * q /\ q \in Nat
  OBVIOUS
<1> HIDE DEF p, q
<1>3. a + b = c * (p + q)
  BY <1>1, <1>2
<1>4. (c * (p + q)) % c = 0
  BY <1>1, <1>2
<1>5. ASSUME a <= b, b < a + c PROVE a = b
  <2>1. c * (q - p) = b - a
    BY <1>1, <1>2
  <2>2. q - p \in Int /\ 0 <= c * (q - p) /\ c * (q - p) < c
    BY <1>1, <1>2, <1>5, <2>1
  <2>3. q = p
    BY <1>1, <1>2, <2>2
  <2> QED
    BY <1>1, <1>2, <2>3
<1> QED
  BY <1>3, <1>4, <1>5

LEMMA NextMultiple ==
  ASSUME NEW c \in Nat, NEW n \in Nat
  PROVE  n * c \in Nat /\ (n + 1) * c = n * c + c
  OBVIOUS

-----------------------------------------------------------------------------
(***************************************************************************)
(* FlattenSeq is defined by a recursive function: it has one, and its      *)
(* values depend on what comes before.                                     *)
(***************************************************************************)
Flattens(f, s) ==
  f = [i \in 1..Len(s) |-> IF i = 1 THEN s[i] ELSE f[i - 1] \o s[i]]

\* f flattens what the first n elements of s are.
FlattensUpto(f, s, n) ==
  \A i \in 1..n : f[i] = IF i = 1 THEN s[i] ELSE f[i - 1] \o s[i]

LEMMA FlattensStep ==
  ASSUME NEW s, NEW f, Flattens(f, s), NEW i \in 1..Len(s)
  PROVE  f[i] = IF i = 1 THEN s[i] ELSE f[i - 1] \o s[i]
<1> DEFINE F(j) == IF j = 1 THEN s[j] ELSE f[j - 1] \o s[j]
<1>1. f = [j \in 1..Len(s) |-> F(j)]
  BY DEF Flattens
<1> HIDE DEF F
<1>2. f[i] = F(i)
  BY <1>1
<1> QED
  BY <1>2 DEF F

LEMMA FlattensExists ==
  ASSUME NEW S, NEW s \in Seq(Seq(S))
  PROVE  \E f \in [1..Len(s) -> Seq(S)] : Flattens(f, s)
<1> DEFINE T == {n \in Nat : n <= Len(s) =>
                   \E f \in [1..n -> Seq(S)] : FlattensUpto(f, s, n)}
<1>1. 0 \in T
  <2>1. [i \in 1..0 |-> <<>>] \in [1..0 -> Seq(S)]
    OBVIOUS
  <2>2. FlattensUpto([i \in 1..0 |-> <<>>], s, 0)
    BY DEF FlattensUpto
  <2> QED
    BY <2>1, <2>2
<1>2. ASSUME NEW n \in T PROVE n + 1 \in T
  <2> SUFFICES ASSUME n \in Nat, n + 1 <= Len(s)
               PROVE  \E f \in [1..(n + 1) -> Seq(S)] : FlattensUpto(f, s, n + 1)
    OBVIOUS
  <2>1. PICK g \in [1..n -> Seq(S)] : FlattensUpto(g, s, n)
    BY <1>2
  <2> DEFINE added == IF n = 0 THEN s[1] ELSE g[n] \o s[n + 1]
             f     == [i \in 1..(n + 1) |-> IF i = n + 1 THEN added ELSE g[i]]
  <2>2. added \in Seq(S)
    <3>1. s[n + 1] \in Seq(S) /\ (n # 0 => g[n] \in Seq(S))
      OBVIOUS
    <3> QED
      BY <3>1
  <2> HIDE DEF added
  <2>3. f \in [1..(n + 1) -> Seq(S)]
    BY <2>2
  <2>4. ASSUME NEW i \in 1..(n + 1)
        PROVE  f[i] = IF i = 1 THEN s[i] ELSE f[i - 1] \o s[i]
    <3>1. CASE i = n + 1
      BY <3>1 DEF added
    <3>2. CASE i # n + 1
      <4>1. i \in 1..n /\ g[i] = IF i = 1 THEN s[i] ELSE g[i - 1] \o s[i]
        <5>1. i \in 1..n
          BY <3>2
        <5> QED
          BY <2>1, <5>1 DEF FlattensUpto
      <4>2. f[i] = g[i] /\ (i # 1 => f[i - 1] = g[i - 1])
        BY <3>2
      <4> QED
        BY <4>1, <4>2
    <3> QED
      BY <3>1, <3>2
  <2> HIDE DEF f
  <2>5. FlattensUpto(f, s, n + 1)
    BY <2>4 DEF FlattensUpto
  <2> QED
    BY <2>3, <2>5
<1>3. Len(s) \in T
  <2> HIDE DEF T
  <2>1. T \in SUBSET Nat
    BY DEF T
  <2>2. T = Nat
    BY <1>1, <1>2, <2>1, Induction
  <2> QED
    BY <2>2
<1>4. PICK f \in [1..Len(s) -> Seq(S)] : FlattensUpto(f, s, Len(s))
  BY <1>3
<1>5. f = [i \in 1..Len(s) |-> f[i]]
  OBVIOUS
<1>6. Flattens(f, s)
  BY <1>4, <1>5 DEF Flattens, FlattensUpto
<1> QED
  BY <1>6

\* What a flattening is up to n depends on the first n elements.
LEMMA FlattensAgree ==
  ASSUME NEW S, NEW s \in Seq(Seq(S)), NEW t \in Seq(Seq(S)), NEW f, NEW g,
         Flattens(f, s), Flattens(g, t),
         NEW n \in Nat, n <= Len(s), n <= Len(t), \A i \in 1..n : s[i] = t[i]
  PROVE  \A i \in 1..n : f[i] = g[i] /\ f[i] \in Seq(S)
<1> DEFINE T == {k \in Nat : k \in 1..n => f[k] = g[k] /\ f[k] \in Seq(S)}
<1>1. 0 \in T
  OBVIOUS
<1>2. ASSUME NEW k \in T PROVE k + 1 \in T
  <2> SUFFICES ASSUME k \in Nat, k + 1 \in 1..n
               PROVE  f[k + 1] = g[k + 1] /\ f[k + 1] \in Seq(S)
    OBVIOUS
  <2>1. k + 1 \in 1..Len(s) /\ k + 1 \in 1..Len(t)
    OBVIOUS
  <2>2. f[k + 1] = IF k + 1 = 1 THEN s[k + 1] ELSE f[k + 1 - 1] \o s[k + 1]
    BY <2>1, FlattensStep
  <2>3. g[k + 1] = IF k + 1 = 1 THEN t[k + 1] ELSE g[k + 1 - 1] \o t[k + 1]
    BY <2>1, FlattensStep
  <2>4. s[k + 1] = t[k + 1] /\ s[k + 1] \in Seq(S)
    BY <2>1
  <2>5. k + 1 = 1 \/ (k \in 1..n /\ k + 1 - 1 = k)
    OBVIOUS
  <2>6. k \in 1..n => f[k] = g[k] /\ f[k] \in Seq(S)
    BY <1>2
  <2> QED
    BY <2>2, <2>3, <2>4, <2>5, <2>6
<1>3. ASSUME NEW i \in 1..n PROVE f[i] = g[i] /\ f[i] \in Seq(S)
  <2> HIDE DEF T
  <2>1. T \in SUBSET Nat
    BY DEF T
  <2>2. T = Nat
    BY <1>1, <1>2, <2>1, Induction
  <2>3. i \in T
    BY <2>2
  <2> QED
    BY <2>3 DEF T
<1> QED
  BY <1>3

LEMMA FlattenIs ==
  ASSUME NEW S, NEW s \in Seq(Seq(S)), s # <<>>
  PROVE  \E f : /\ Flattens(f, s) /\ FlattenSeq(s) = f[Len(s)]
                /\ f[Len(s)] = IF Len(s) = 1 THEN s[1]
                               ELSE f[Len(s) - 1] \o s[Len(s)]
<1> DEFINE flatten == CHOOSE f : Flattens(f, s)
<1>1. Flattens(flatten, s)
  BY FlattensExists
<1>2. FlattenSeq(s) = flatten[Len(s)]
  BY DEF FlattenSeq, Flattens
<1>3. Len(s) \in 1..Len(s)
  OBVIOUS
<1> HIDE DEF flatten
<1>4. flatten[Len(s)] = IF Len(s) = 1 THEN s[Len(s)]
                        ELSE flatten[Len(s) - 1] \o s[Len(s)]
  BY <1>1, <1>3 DEF Flattens
<1> QED
  BY <1>1, <1>2, <1>4

\* A flattened sequence is what its front is and its last element.
LEMMA FlattenFront ==
  ASSUME NEW S, NEW s \in Seq(Seq(S)), NEW t \in Seq(Seq(S)),
         s # <<>>, Len(t) = Len(s) + 1, \A i \in 1..Len(s) : t[i] = s[i]
  PROVE  FlattenSeq(s) \in Seq(S) /\ FlattenSeq(t) = FlattenSeq(s) \o t[Len(t)]
<1>1. PICK f : Flattens(f, s) /\ FlattenSeq(s) = f[Len(s)]
  BY FlattenIs
<1>2. t # <<>>
  OBVIOUS
<1>3. PICK g : /\ Flattens(g, t) /\ FlattenSeq(t) = g[Len(t)]
               /\ g[Len(t)] = IF Len(t) = 1 THEN t[1]
                              ELSE g[Len(t) - 1] \o t[Len(t)]
  BY <1>2, FlattenIs
<1>4. /\ Len(s) \in Nat /\ Len(s) \in 1..Len(s)
      /\ Len(s) <= Len(s) /\ Len(s) <= Len(t)
  OBVIOUS
<1>5. f[Len(s)] = g[Len(s)] /\ f[Len(s)] \in Seq(S)
  <2>1. \A i \in 1..Len(s) : s[i] = t[i]
    OBVIOUS
  <2> HIDE DEF Flattens
  <2>2. \A i \in 1..Len(s) : f[i] = g[i] /\ f[i] \in Seq(S)
    BY <1>1, <1>3, <1>4, <2>1, FlattensAgree, Zenon
  <2> QED
    BY <1>4, <2>2
<1>6. Len(t) # 1 /\ Len(t) - 1 = Len(s)
  BY <1>4
<1> QED
  BY <1>1, <1>3, <1>5, <1>6, Zenon

LEMMA FlattenNone == FlattenSeq(<<>>) = <<>>
BY DEF FlattenSeq

LEMMA FlattenOne ==
  ASSUME NEW S, NEW s \in Seq(Seq(S)), Len(s) = 1
  PROVE  FlattenSeq(s) = s[1]
<1>1. s # <<>>
  OBVIOUS
<1> QED
  BY <1>1, FlattenIs

LEMMA FrontIs ==
  ASSUME NEW S, NEW s \in Seq(S), Len(s) - 1 \in Nat
  PROVE  /\ Front(s) \in Seq(S) /\ Len(Front(s)) = Len(s) - 1
         /\ \A i \in 1..(Len(s) - 1) : Front(s)[i] = s[i]
<1> DEFINE n == Len(s) - 1
<1>1. n \in Nat /\ n <= Len(s) /\ \A i \in 1..n : s[i] \in S
  OBVIOUS
<1>2. Front(s) = SubSeq(s, 1, n)
  BY DEF Front
<1> HIDE DEF n
<1>3. /\ SubSeq(s, 1, n) \in Seq(S) /\ Len(SubSeq(s, 1, n)) = n
      /\ \A i \in 1..n : SubSeq(s, 1, n)[i] = s[i]
  BY <1>1
<1> QED
  BY <1>2, <1>3 DEF n

\* t is s, with x behind its last element.
LastGrows(s, t, x) ==
  /\ s # <<>> /\ Len(t) = Len(s)
  /\ \A i \in 1..(Len(s) - 1) : t[i] = s[i]
  /\ t[Len(s)] = s[Len(s)] \o x

\* What the last element gains, the whole gains.
LEMMA FlattenGrows ==
  ASSUME NEW S, NEW s \in Seq(Seq(S)), NEW t \in Seq(Seq(S)), NEW x \in Seq(S),
         LastGrows(s, t, x)
  PROVE  FlattenSeq(t) = FlattenSeq(s) \o x
<1>1. CASE Len(s) = 1
  BY <1>1, FlattenOne DEF LastGrows
<1>2. CASE Len(s) # 1
  <2> DEFINE r == SubSeq(s, 1, Len(s) - 1)
             a == FlattenSeq(r)
             b == s[Len(s)]
  <2>1. /\ r \in Seq(Seq(S)) /\ Len(r) = Len(s) - 1 /\ r # <<>>
        /\ \A i \in 1..Len(r) : r[i] = s[i] /\ r[i] = t[i]
    <3>1. Len(s) - 1 \in Nat /\ Len(s) - 1 # 0
      BY <1>2 DEF LastGrows
    <3>2. /\ r \in Seq(Seq(S)) /\ Len(r) = Len(s) - 1
          /\ \A i \in 1..(Len(s) - 1) : r[i] = s[i]
      BY <3>1, FrontIs DEF Front
    <3> QED
      BY <3>1, <3>2 DEF LastGrows
  <2> HIDE DEF r
  <2>2. FlattenSeq(r) \in Seq(S) /\ FlattenSeq(s) = FlattenSeq(r) \o s[Len(s)]
    <3>1. Len(s) = Len(r) + 1 /\ \A i \in 1..Len(r) : s[i] = r[i]
      BY <2>1
    <3> QED
      BY <2>1, <3>1, FlattenFront
  <2>3. FlattenSeq(t) = FlattenSeq(r) \o t[Len(t)]
    <3>1. Len(t) = Len(r) + 1 /\ \A i \in 1..Len(r) : t[i] = r[i]
      BY <2>1 DEF LastGrows
    <3> QED
      BY <2>1, <3>1, FlattenFront
  <2>4. s[Len(s)] \in Seq(S) /\ t[Len(t)] = s[Len(s)] \o x
    BY DEF LastGrows
  <2>5. a \in Seq(S) /\ b \in Seq(S) /\ FlattenSeq(s) = a \o b
        /\ FlattenSeq(t) = a \o (b \o x)
    BY <2>2, <2>3, <2>4
  <2> HIDE DEF a, b
  <2>6. \A u \in Seq(S), v \in Seq(S) : (u \o v) \o x = u \o (v \o x)
    BY ConcatAssociative
  <2>7. (a \o b) \o x = a \o (b \o x)
    BY <2>5, <2>6, Zenon
  <2> QED
    BY <2>5, <2>7, Zenon
<1> QED
  BY <1>1, <1>2

-----------------------------------------------------------------------------
(* Pieces of a file.                                                       *)

LEMMA PieceType ==
  ASSUME NEW s \in Seq(Bytes), NEW from \in Nat, NEW n \in Nat
  PROVE  /\ Piece(s, from, n) \in Seq(Bytes)
         /\ from <= Len(s) => Len(Piece(s, from, n)) = SmallerOf(n, Len(s) - from)
         /\ from >= Len(s) => Piece(s, from, n) = <<>>
         /\ \A i \in 1..Len(Piece(s, from, n)) : Piece(s, from, n)[i] = s[from + i]
  BY DEF Piece, SmallerOf

\* A piece the file is long enough for.
LEMMA PieceFits ==
  ASSUME NEW s \in Seq(Bytes), NEW from \in Nat, NEW n \in Nat, from + n <= Len(s)
  PROVE  /\ Piece(s, from, n) \in Seq(Bytes) /\ Len(Piece(s, from, n)) = n
         /\ \A i \in 1..n : Piece(s, from, n)[i] = s[from + i]
  BY DEF Piece, SmallerOf

LEMMA PieceOfOne ==
  ASSUME NEW s \in Seq(Bytes), NEW from \in Nat, from + 1 <= Len(s)
  PROVE  Piece(s, from, 1) = <<s[from + 1]>>
<1>1. s[from + 1] \in Bytes
  OBVIOUS
<1>2. Piece(s, from, 1) = SubSeq(s, from + 1, from + 1)
  BY DEF Piece, SmallerOf
<1> QED
  BY <1>1, <1>2

\* Two pieces one after the other are one.
LEMMA PiecesJoin ==
  ASSUME NEW s \in Seq(Bytes), NEW from \in Nat, NEW n \in Nat, NEW m \in Nat,
         from + n <= Len(s)
  PROVE  Piece(s, from, n) \o Piece(s, from + n, m) = Piece(s, from, n + m)
<1> DEFINE e == SmallerOf(from + n + m, Len(s))
<1>1. /\ from + 1 \in 1..(Len(s) + 1)
      /\ from + n \in (from + 1 - 1)..Len(s)
      /\ e \in (from + n)..Len(s)
  BY DEF SmallerOf
<1> HIDE DEF e
<1>2. SubSeq(s, from + 1, from + n) \o SubSeq(s, from + n + 1, e) = SubSeq(s, from + 1, e)
  BY <1>1, ConcatAdjacentSubSeq
<1>3. /\ Piece(s, from, n) = SubSeq(s, from + 1, from + n)
      /\ Piece(s, from + n, m) = SubSeq(s, from + n + 1, e)
      /\ Piece(s, from, n + m) = SubSeq(s, from + 1, e)
  BY DEF Piece, SmallerOf, e
<1> QED
  BY <1>2, <1>3

LEMMA PiecesJoinFirst ==
  ASSUME NEW s \in Seq(Bytes), NEW n \in Nat, NEW m \in Nat, n <= Len(s)
  PROVE  Piece(s, 0, n) \o Piece(s, n, m) = Piece(s, 0, n + m)
<1>1. 0 \in Nat /\ 0 + n = n /\ 0 + n <= Len(s)
  OBVIOUS
<1>2. Piece(s, 0, n) \o Piece(s, 0 + n, m) = Piece(s, 0, n + m)
  BY <1>1, PiecesJoin
<1> QED
  BY <1>1, <1>2

\* A piece longer than the rest of the file is the rest.
LEMMA PieceToEnd ==
  ASSUME NEW s \in Seq(Bytes), NEW from \in Nat, NEW n \in Nat, NEW m \in Nat,
         from + n >= Len(s), from + m >= Len(s)
  PROVE  Piece(s, from, n) = Piece(s, from, m)
  BY DEF Piece, SmallerOf

LEMMA PieceWhole ==
  ASSUME NEW s \in Seq(Bytes), NEW n \in Nat, n >= Len(s)
  PROVE  Piece(s, 0, n) = s
  BY DEF Piece, SmallerOf

\* What a piece begins with, and what it leaves.
LEMMA PieceOfPiece ==
  ASSUME NEW s \in Seq(Bytes), NEW from \in Nat, NEW n \in Nat, NEW k \in Nat,
         k <= n, from + n <= Len(s)
  PROVE  /\ Piece(Piece(s, from, n), 0, k) = Piece(s, from, k)
         /\ SubSeq(Piece(s, from, n), k + 1, n) = Piece(s, from + k, n - k)
<1> DEFINE t == Piece(s, from, n)
<1>1. /\ t \in Seq(Bytes) /\ Len(t) = n
      /\ \A i \in 1..n : t[i] = s[from + i]
  BY PieceFits
<1> HIDE DEF t
<1>2. /\ Piece(t, 0, k) \in Seq(Bytes) /\ Len(Piece(t, 0, k)) = k
      /\ \A i \in 1..k : Piece(t, 0, k)[i] = t[i]
  BY <1>1 DEF Piece, SmallerOf
<1>3. /\ Piece(s, from, k) \in Seq(Bytes) /\ Len(Piece(s, from, k)) = k
      /\ \A i \in 1..k : Piece(s, from, k)[i] = s[from + i]
  BY PieceFits
<1>4. Piece(t, 0, k) = Piece(s, from, k)
  <2>1. \A i \in 1..k : Piece(t, 0, k)[i] = Piece(s, from, k)[i]
    BY <1>1, <1>2, <1>3
  <2> QED
    BY <1>2, <1>3, <2>1, SeqEqual
<1>5. /\ Piece(s, from + k, n - k) \in Seq(Bytes) /\ Len(Piece(s, from + k, n - k)) = n - k
      /\ \A i \in 1..(n - k) : Piece(s, from + k, n - k)[i] = s[from + k + i]
  <2>1. from + k \in Nat /\ n - k \in Nat /\ (from + k) + (n - k) <= Len(s)
    OBVIOUS
  <2> QED
    BY <2>1, PieceFits
<1>6. /\ SubSeq(t, k + 1, n) \in Seq(Bytes) /\ Len(SubSeq(t, k + 1, n)) = n - k
      /\ \A i \in 1..(n - k) : SubSeq(t, k + 1, n)[i] = t[k + i]
  BY <1>1
<1>7. SubSeq(t, k + 1, n) = Piece(s, from + k, n - k)
  <2>1. ASSUME NEW i \in 1..(n - k)
        PROVE  SubSeq(t, k + 1, n)[i] = Piece(s, from + k, n - k)[i]
    <3>1. t[k + i] = s[from + (k + i)]
      BY <1>1
    <3>2. from + (k + i) = from + k + i
      OBVIOUS
    <3> QED
      BY <1>5, <1>6, <3>1, <3>2
  <2> QED
    BY <1>5, <1>6, <2>1, SeqEqual
<1> QED
  BY <1>4, <1>7 DEF t

-----------------------------------------------------------------------------
(***************************************************************************)
(* The inductive invariant.                                                *)
(***************************************************************************)
Buffer == [stop : BOOLEAN, data : Block]

Shape ==
  /\ TypeOK
  /\ queue \in Seq(Buffer) /\ taken \in Buffer /\ digested \in Block

\* The window is the block of the new file that was not described yet.
WindowIsNext ==
  /\ result # <<>> /\ newOffset < Len(new)
  /\ buffer = Piece(new, newOffset, BlockSize)
  /\ position = newOffset + Len(buffer)

WindowInv ==
  /\ state = "Initial" => position = 0 /\ newOffset = 0 /\ result = <<>>
  /\ state = "Matching" =>
       /\ WindowIsNext
       /\ Last(result).copy_from_old /\ LastTarget(result) \in Occurrences(buffer)
  /\ state = "NonMatching" =>
       /\ WindowIsNext
       /\ ~Last(result).copy_from_old /\ LastTarget(result) = newOffset
       /\ Occurrences(buffer) = {}
  /\ state = "Final" => position = Len(new)

\* So far the commands stand for what is in front of the window.
Rebuilt ==
  FlattenSeq(Commands) = IF state = "Final" THEN new ELSE Piece(new, 0, newOffset)

\* How many buffers of data are queued, and how much the thread has in hand.
StopQueued == queue # <<>> /\ queue[Len(queue)].stop
Queued     == Len(queue) - (IF StopQueued THEN 1 ELSE 0)
Hashing    == worker = "hash" /\ ~taken.stop
StopTaken  == worker = "ended" \/ (worker = "hash" /\ taken.stop)

\* The thread has hashed the new file up to a, and goes on from `from`.
HashedUpto(a) ==
  /\ a % capacity = 0
  /\ digested = Piece(new, 0, a)
  /\ table = {[file_offset |-> o, hash |-> Piece(new, o, capacity)] :
                o \in {k \in 0..Len(new) : k % capacity = 0 /\ k < a}}
  /\ Hashing => a <= Len(new) /\ taken = Data(Piece(new, a, capacity))

QueuedFrom(from) ==
  \A i \in 1..Queued :
    LET o == from + (i - 1) * capacity
    IN  o <= Len(new) /\ queue[i] = Data(Piece(new, o, capacity))

\* What is in new_buffer and behind it was read and not queued.
FilledFrom(at) ==
  IF main \in {"start", "run"}
  THEN /\ newBuffer = Piece(new, at, Len(newBuffer))
       /\ unstored = Piece(new, at + Len(newBuffer), Len(unstored))
       /\ position = at + Len(newBuffer) + Len(unstored)
  ELSE unstored = <<>> /\ at > Len(new)

From(a) == a + (IF Hashing THEN capacity ELSE 0)

HandedOver(a) ==
  /\ HashedUpto(a) /\ QueuedFrom(From(a)) /\ FilledFrom(From(a) + Queued * capacity)

QueueInv == \E a \in Nat : HandedOver(a)

StopInv ==
  /\ StopQueued \/ StopTaken => main \in {"join", "done"}
  /\ StopTaken => queue = <<>>
  /\ worker = "take" => queue # <<>>
  /\ main = "start" => worker = "none"
  /\ main \notin {"start", "run"} => state = "Final"

-----------------------------------------------------------------------------
(***************************************************************************)
(* The search.                                                             *)
(***************************************************************************)
LEMMA OffsetsType ==
  ASSUME old \in Block, NEW o \in OldOffsets
  PROVE  o \in Nat /\ o < Len(old) /\ o % BlockSize = 0
  BY DEF OldOffsets, Block

LEMMA FoundOccurs ==
  ASSUME NEW b, NEW o, NEW wanted, IsFound(b, o, wanted)
  PROVE  /\ o \in OldOffsets /\ o \in Occurrences(b) /\ Piece(old, o, BlockSize) = b
         /\ o # wanted => wanted \notin Occurrences(b)
  BY DEF IsFound, Occurrences

\* There is a first occurrence unless there is none.
LEMMA NotFoundOccursNot ==
  ASSUME old \in Block, NEW b, NEW wanted,
         \A o \in OldOffsets : ~IsFound(b, o, wanted)
  PROVE  Occurrences(b) = {}
<1> SUFFICES ASSUME Occurrences(b) # {} PROVE FALSE
  OBVIOUS
<1>1. Occurrences(b) \in SUBSET Nat /\ Occurrences(b) \subseteq OldOffsets
  BY OffsetsType DEF Occurrences
<1>2. PICK o \in Occurrences(b) : \A p \in Occurrences(b) : o <= p
  BY <1>1, Least
<1>3. CASE wanted \in Occurrences(b)
  BY <1>1, <1>3 DEF IsFound
<1>4. CASE wanted \notin Occurrences(b)
  BY <1>1, <1>2, <1>4 DEF IsFound
<1> QED
  BY <1>3, <1>4

-----------------------------------------------------------------------------
(***************************************************************************)
(* Commands.                                                               *)
(***************************************************************************)
\* The properties of the commands, of any list of them.
MeaningsOf(cmds) == [i \in DOMAIN cmds |-> Meaning(cmds[i])]

Whole(c) ==
  c.copy_from_old => c.file_offset % BlockSize = 0 /\ c.length % BlockSize = 0

IsNew(c) ==
  ~c.copy_from_old =>
    \A k \in c.file_offset..(c.file_offset + c.length - 1) :
      Occurrences(Piece(new, k, BlockSize)) = {}

Apart(c, d) ==
  c.copy_from_old /\ d.copy_from_old =>
    Piece(old, c.file_offset + c.length, BlockSize)
      # Piece(old, d.file_offset, BlockSize)

Good(cmds) ==
  /\ cmds \in Seq(Command)
  /\ \A i \in 1..Len(cmds) : Whole(cmds[i]) /\ IsNew(cmds[i])
  /\ \A i \in 1..Len(cmds) : i # 1 => Apart(cmds[i - 1], cmds[i])

LEMMA GoodIs ==
  ASSUME result \in Seq(Command)
  PROVE  Good(result) => NoMatchMissed /\ RunsAreMerged
<1>1. DOMAIN result = 1..Len(result)
  OBVIOUS
<1> QED
  BY <1>1 DEF Good, IsNew, Apart, NoMatchMissed, RunsAreMerged

LEMMA MeaningType ==
  ASSUME old \in Block, new \in Block, NEW c \in Command
  PROVE  Meaning(c) \in Seq(Bytes)
<1>1. /\ c.file_offset \in Nat /\ c.length \in Nat
      /\ (IF c.copy_from_old THEN old ELSE new) \in Seq(Bytes)
  BY DEF Command, Block
<1> QED
  BY <1>1, PieceType DEF Meaning

LEMMA MeaningsType ==
  ASSUME old \in Block, new \in Block, NEW cmds \in Seq(Command)
  PROVE  /\ MeaningsOf(cmds) \in Seq(Seq(Bytes)) /\ Len(MeaningsOf(cmds)) = Len(cmds)
         /\ \A i \in 1..Len(cmds) : MeaningsOf(cmds)[i] = Meaning(cmds[i])
<1>1. DOMAIN cmds = 1..Len(cmds) /\ Len(cmds) \in Nat
  OBVIOUS
<1>2. \A i \in 1..Len(cmds) : Meaning(cmds[i]) \in Seq(Bytes)
  <2>1. \A i \in 1..Len(cmds) : cmds[i] \in Command
    OBVIOUS
  <2> QED
    BY <2>1, MeaningType
<1>3. MeaningsOf(cmds) = [i \in 1..Len(cmds) |-> Meaning(cmds[i])]
  BY <1>1 DEF MeaningsOf
<1> QED
  BY <1>1, <1>2, <1>3

LEMMA LongerIs ==
  ASSUME result \in Seq(Command), result # <<>>, NEW n \in Nat
  PROVE  LET cmds == Longer(n) last == Len(result)
         IN  /\ cmds \in Seq(Command) /\ Len(cmds) = last /\ last \in 1..last
             /\ \A i \in 1..(last - 1) : cmds[i] = result[i]
             /\ cmds[last] = [result[last] EXCEPT !.length = @ + n]
             /\ cmds[last].file_offset = result[last].file_offset
             /\ cmds[last].copy_from_old = result[last].copy_from_old
             /\ cmds[last].length = result[last].length + n
             /\ LastTarget(cmds) = LastTarget(result) + n
<1> DEFINE last == Len(result)
           longer == [result[last] EXCEPT !.length = @ + n]
<1>1. last \in 1..Len(result) /\ last \in Nat /\ result[last] \in Command
  OBVIOUS
<1>2. /\ longer \in Command
      /\ longer.file_offset = result[last].file_offset
      /\ longer.copy_from_old = result[last].copy_from_old
      /\ longer.length = result[last].length + n
      /\ longer.file_offset \in Nat /\ result[last].length \in Nat
  BY <1>1 DEF Command
<1>3. Longer(n) = [result EXCEPT ![last] = longer]
  BY DEF Longer
<1> HIDE DEF longer
<1>4. /\ Longer(n) \in Seq(Command) /\ Len(Longer(n)) = last
      /\ \A i \in 1..(last - 1) : Longer(n)[i] = result[i]
      /\ Longer(n)[last] = longer
  BY <1>1, <1>2, <1>3
<1>5. LastTarget(Longer(n)) = LastTarget(result) + n
  BY <1>1, <1>2, <1>4 DEF LastTarget
<1> QED
  BY <1>1, <1>2, <1>4, <1>5 DEF longer

\* A command that begins.
Begun(from, copy) == [file_offset |-> from, length |-> 0, copy_from_old |-> copy]

LEMMA NewCommandIs ==
  ASSUME NEW cmds, NEW from \in Nat
  PROVE  /\ NewCommand(cmds, from, TRUE) = Append(cmds, Begun(from, TRUE))
         /\ NewCommand(cmds, from, FALSE) = Append(cmds, Begun(from, FALSE))
         /\ Begun(from, TRUE) \in Command /\ Begun(from, FALSE) \in Command
         /\ Begun(from, TRUE).length = 0 /\ Begun(from, FALSE).length = 0
         /\ Begun(from, TRUE).file_offset = from
         /\ Begun(from, FALSE).file_offset = from
         /\ Begun(from, TRUE).copy_from_old /\ ~Begun(from, FALSE).copy_from_old
  BY DEF NewCommand, Begun, Command

\* A run of blocks that goes on is a good command still, ...
LEMMA GoodMatch ==
  ASSUME Good(result), result # <<>>, result[Len(result)].copy_from_old
  PROVE  Good(Longer(BlockSize))
<1> DEFINE cmds == Longer(BlockSize)
           last == Len(result)
<1>1. BlockSize \in Nat \ {0} /\ result \in Seq(Command)
  BY FileComparerAssumption DEF Good
<1>2. /\ cmds \in Seq(Command) /\ Len(cmds) = last /\ last \in 1..last
      /\ \A i \in 1..(last - 1) : cmds[i] = result[i]
      /\ cmds[last].file_offset = result[last].file_offset
      /\ cmds[last].copy_from_old = result[last].copy_from_old
      /\ cmds[last].length = result[last].length + BlockSize
  BY <1>1, LongerIs
<1> HIDE DEF cmds, last
<1>3. result[last] \in Command /\ result[last].length \in Nat
  <2>1. \A i \in 1..Len(result) : result[i] \in Command
    BY <1>1
  <2>2. result[last] \in Command
    BY <1>2, <2>1 DEF last
  <2> QED
    BY <2>2 DEF Command
<1>4. Whole(cmds[last]) /\ IsNew(cmds[last])
  <2>1. Whole(result[last]) /\ result[last].copy_from_old
    BY <1>2 DEF Good, last
  <2>2. (result[last].length + BlockSize) % BlockSize = 0
    BY <1>1, <1>3, <2>1, Multiples DEF Whole
  <2> QED
    BY <1>2, <2>1, <2>2 DEF Whole, IsNew
<1>5. ASSUME NEW i \in 1..last
      PROVE  /\ Whole(cmds[i]) /\ IsNew(cmds[i])
             /\ i # 1 => Apart(cmds[i - 1], cmds[i])
  <2>1. /\ Whole(result[i]) /\ IsNew(result[i])
        /\ i # 1 => Apart(result[i - 1], result[i])
    BY DEF Good, last
  <2>2. i # 1 => i - 1 \in 1..(last - 1) /\ cmds[i - 1] = result[i - 1]
    BY <1>2
  <2>3. CASE i = last
    BY <1>2, <1>4, <2>1, <2>2, <2>3 DEF Apart
  <2>4. CASE i # last
    <3>1. i \in 1..(last - 1)
      BY <1>2, <2>4
    <3> QED
      BY <1>2, <2>1, <2>2, <3>1
  <2> QED
    BY <2>3, <2>4
<1> QED
  BY <1>2, <1>5 DEF Good, cmds

\* ... and so is a run of new bytes, when the old file has no such block.
LEMMA GoodByte ==
  ASSUME Good(result), result # <<>>, ~result[Len(result)].copy_from_old,
         Occurrences(Piece(new, LastTarget(result), BlockSize)) = {}
  PROVE  Good(Longer(1))
<1> DEFINE cmds == Longer(1)
           last == Len(result)
<1>1. 1 \in Nat /\ result \in Seq(Command)
  BY DEF Good
<1>2. /\ cmds \in Seq(Command) /\ Len(cmds) = last /\ last \in 1..last
      /\ \A i \in 1..(last - 1) : cmds[i] = result[i]
      /\ cmds[last].file_offset = result[last].file_offset
      /\ cmds[last].copy_from_old = result[last].copy_from_old
      /\ cmds[last].length = result[last].length + 1
  BY <1>1, LongerIs
<1> HIDE DEF cmds
<1>3. result[last] \in Command
  BY <1>1, <1>2
<1>4. Whole(cmds[last]) /\ IsNew(cmds[last])
  <2> DEFINE from == result[last].file_offset
             n    == result[last].length
  <2>1. IsNew(result[last]) /\ from \in Nat /\ n \in Nat
    BY <1>2, <1>3 DEF Good, Command
  <2>2. LastTarget(result) = from + n
    BY DEF LastTarget
  <2>3. \A k \in from..(from + (n + 1) - 1) : k \in from..(from + n - 1) \/ k = from + n
    BY <2>1
  <2>4. \A k \in from..(from + n - 1) : Occurrences(Piece(new, k, BlockSize)) = {}
    BY <2>1 DEF IsNew
  <2> HIDE DEF from, n
  <2>5. \A k \in from..(from + (n + 1) - 1) : Occurrences(Piece(new, k, BlockSize)) = {}
    BY <2>2, <2>3, <2>4
  <2> QED
    BY <1>2, <2>5 DEF Whole, IsNew, from, n
<1> HIDE DEF last
<1>5. ASSUME NEW i \in 1..last
      PROVE  /\ Whole(cmds[i]) /\ IsNew(cmds[i])
             /\ i # 1 => Apart(cmds[i - 1], cmds[i])
  <2>1. /\ Whole(result[i]) /\ IsNew(result[i])
        /\ i # 1 => Apart(result[i - 1], result[i])
    BY DEF Good, last
  <2>2. i # 1 => i - 1 \in 1..(last - 1) /\ cmds[i - 1] = result[i - 1]
    BY <1>2
  <2>3. CASE i = last
    BY <1>2, <1>4, <2>1, <2>2, <2>3 DEF Apart
  <2>4. CASE i # last
    <3>1. i \in 1..(last - 1)
      BY <1>2, <2>4
    <3> QED
      BY <1>2, <2>1, <2>2, <3>1
  <2> QED
    BY <2>3, <2>4
<1> QED
  BY <1>2, <1>5 DEF Good, cmds

\* A command that begins promises nothing yet, but to be apart.
LEMMA GoodNew ==
  ASSUME NEW cmds, Good(cmds), NEW c \in Command, c.length = 0,
         c.copy_from_old => c.file_offset % BlockSize = 0,
         c.copy_from_old /\ cmds # <<>> =>
           (cmds[Len(cmds)].copy_from_old =>
              Piece(old, LastTarget(cmds), BlockSize)
                # Piece(old, c.file_offset, BlockSize))
  PROVE  Good(Append(cmds, c))
<1> DEFINE more == Append(cmds, c)
           last == Len(cmds) + 1
<1>1. BlockSize \in Nat \ {0} /\ cmds \in Seq(Command) /\ last - 1 = Len(cmds)
  BY FileComparerAssumption DEF Good
<1>2. /\ more \in Seq(Command) /\ Len(more) = last
      /\ \A i \in 1..Len(cmds) : more[i] = cmds[i]
      /\ more[last] = c
  BY <1>1
<1> HIDE DEF more
<1>3. Whole(more[last]) /\ IsNew(more[last])
  <2>1. c.file_offset \in Nat
    BY DEF Command
  <2> QED
    BY <1>1, <1>2, <2>1 DEF Whole, IsNew
<1>4. last # 1 => Apart(more[last - 1], more[last])
  <2> SUFFICES ASSUME last # 1, cmds[Len(cmds)].copy_from_old, c.copy_from_old
               PROVE  Piece(old, cmds[Len(cmds)].file_offset + cmds[Len(cmds)].length,
                            BlockSize) # Piece(old, c.file_offset, BlockSize)
    <3>1. last # 1 => more[last - 1] = cmds[Len(cmds)]
      BY <1>1, <1>2
    <3> QED
      BY <1>2, <3>1 DEF Apart
  <2>1. cmds # <<>>
    BY <1>1
  <2> QED
    BY <2>1 DEF LastTarget
<1>5. ASSUME NEW i \in 1..last
      PROVE  /\ Whole(more[i]) /\ IsNew(more[i])
             /\ i # 1 => Apart(more[i - 1], more[i])
  <2>1. CASE i = last
    BY <1>3, <1>4, <2>1
  <2>2. CASE i # last
    <3>1. i \in 1..Len(cmds) /\ (i # 1 => i - 1 \in 1..Len(cmds))
      BY <1>1, <2>2
    <3>2. /\ Whole(cmds[i]) /\ IsNew(cmds[i])
          /\ i # 1 => Apart(cmds[i - 1], cmds[i])
      BY <3>1 DEF Good
    <3> QED
      BY <1>2, <3>1, <3>2
  <2> QED
    BY <2>1, <2>2
<1> QED
  BY <1>2, <1>5 DEF Good, more

-----------------------------------------------------------------------------
(***************************************************************************)
(* What the commands stand for.                                            *)
(***************************************************************************)
FileOf(c) == IF c.copy_from_old THEN old ELSE new

\* A command that grows stands for more of its file.
LEMMA MeaningGrows ==
  ASSUME old \in Block, new \in Block, NEW c \in Command, NEW n \in Nat,
         c.file_offset + c.length <= Len(FileOf(c))
  PROVE  Meaning([c EXCEPT !.length = @ + n]) =
           Meaning(c) \o Piece(FileOf(c), c.file_offset + c.length, n)
<1> DEFINE d == [c EXCEPT !.length = @ + n]
<1>1. /\ c.file_offset \in Nat /\ c.length \in Nat
      /\ d.file_offset = c.file_offset /\ d.length = c.length + n
      /\ d.copy_from_old = c.copy_from_old
  BY DEF Command
<1> HIDE DEF d
<1>2. FileOf(c) \in Seq(Bytes)
  BY DEF FileOf, Block
<1>3. Piece(FileOf(c), c.file_offset, c.length)
        \o Piece(FileOf(c), c.file_offset + c.length, n)
      = Piece(FileOf(c), c.file_offset, c.length + n)
  BY <1>1, <1>2, PiecesJoin
<1> QED
  BY <1>1, <1>3 DEF d, Meaning, FileOf

LEMMA RebuiltLonger ==
  ASSUME old \in Block, new \in Block, result \in Seq(Command), result # <<>>,
         NEW n \in Nat,
         LastTarget(result) <= Len(FileOf(result[Len(result)]))
  PROVE  FlattenSeq(MeaningsOf(Longer(n))) =
           FlattenSeq(MeaningsOf(result))
             \o Piece(FileOf(result[Len(result)]), LastTarget(result), n)
<1> DEFINE last == Len(result)
           c    == result[last]
           x    == Piece(FileOf(c), LastTarget(result), n)
           s    == MeaningsOf(result)
           t    == MeaningsOf(Longer(n))
<1>1. /\ Longer(n) \in Seq(Command) /\ Len(Longer(n)) = last /\ last \in 1..last
      /\ \A i \in 1..(last - 1) : Longer(n)[i] = result[i]
      /\ Longer(n)[last] = [c EXCEPT !.length = @ + n]
  BY LongerIs
<1>2. c \in Command /\ c.file_offset \in Nat /\ c.length \in Nat
      /\ LastTarget(result) = c.file_offset + c.length
  <2>1. c \in Command
    BY <1>1
  <2> QED
    BY <2>1 DEF Command, LastTarget
<1>3. Meaning(Longer(n)[last]) = Meaning(c) \o x
  BY <1>1, <1>2, MeaningGrows
<1>4. x \in Seq(Bytes)
  <2>1. FileOf(c) \in Seq(Bytes)
    BY DEF FileOf, Block
  <2> QED
    BY <1>2, <2>1, PieceType
<1>5. /\ s \in Seq(Seq(Bytes)) /\ Len(s) = last
      /\ \A i \in 1..last : s[i] = Meaning(result[i])
  BY MeaningsType
<1>6. /\ t \in Seq(Seq(Bytes)) /\ Len(t) = last
      /\ \A i \in 1..last : t[i] = Meaning(Longer(n)[i])
  BY <1>1, MeaningsType
<1> HIDE DEF s, t, x
<1>7. LastGrows(s, t, x)
  <2>1. \A i \in 1..(last - 1) : i \in 1..last
    BY <1>1
  <2> QED
    <3>1. s # <<>> /\ Len(t) = Len(s)
      BY <1>1, <1>5, <1>6
    <3>2. \A i \in 1..(last - 1) : t[i] = s[i]
      BY <1>1, <1>5, <1>6, <2>1
    <3>3. t[last] = s[last] \o x
      BY <1>1, <1>3, <1>5, <1>6
    <3> QED
      BY <1>5, <3>1, <3>2, <3>3 DEF LastGrows
<1>8. FlattenSeq(t) = FlattenSeq(s) \o x
  BY <1>4, <1>5, <1>6, <1>7, FlattenGrows
<1> QED
  BY <1>8 DEF s, t, x

\* A command that begins stands for nothing.
LEMMA RebuiltNew ==
  ASSUME old \in Block, new \in Block, NEW cmds \in Seq(Command),
         NEW c \in Command, c.length = 0
  PROVE  FlattenSeq(MeaningsOf(Append(cmds, c))) = FlattenSeq(MeaningsOf(cmds))
<1> DEFINE more == Append(cmds, c)
           last == Len(cmds) + 1
           s    == MeaningsOf(cmds)
           t    == MeaningsOf(more)
<1>0. last \in 1..last /\ Len(cmds) \in Nat /\ \A i \in 1..Len(cmds) : i \in 1..last
  OBVIOUS
<1>1. /\ more \in Seq(Command) /\ Len(more) = last
      /\ \A i \in 1..Len(cmds) : more[i] = cmds[i]
      /\ more[last] = c
  OBVIOUS
<1> HIDE DEF more
<1>2. Meaning(more[last]) = <<>>
  <2>1. FileOf(c) \in Seq(Bytes) /\ c.file_offset \in Nat
    BY DEF FileOf, Block, Command
  <2>2. Piece(FileOf(c), c.file_offset, 0) = <<>>
    BY <2>1 DEF Piece, SmallerOf
  <2> QED
    BY <1>1, <2>2 DEF Meaning, FileOf
<1>3. /\ s \in Seq(Seq(Bytes)) /\ Len(s) = Len(cmds)
      /\ \A i \in 1..Len(cmds) : s[i] = Meaning(cmds[i])
  BY MeaningsType
<1>4. /\ t \in Seq(Seq(Bytes)) /\ Len(t) = last
      /\ \A i \in 1..last : t[i] = Meaning(more[i])
  BY <1>1, MeaningsType
<1>5. \A i \in 1..Len(s) : t[i] = s[i]
  BY <1>0, <1>1, <1>3, <1>4
<1>6. t[Len(t)] = <<>>
  BY <1>0, <1>2, <1>4
<1> HIDE DEF s, t
<1>7. CASE s = <<>>
  <2>1. Len(t) = 1 /\ FlattenSeq(t) = t[1]
    BY <1>3, <1>4, <1>7, FlattenOne
  <2>2. FlattenSeq(s) = <<>>
    BY <1>7 DEF FlattenSeq
  <2> QED
    BY <1>6, <2>1, <2>2 DEF s, t, more
<1>8. CASE s # <<>>
  <2>1. FlattenSeq(s) \in Seq(Bytes) /\ FlattenSeq(t) = FlattenSeq(s) \o t[Len(t)]
    <3>1. s \in Seq(Seq(Bytes)) /\ t \in Seq(Seq(Bytes)) /\ Len(t) = Len(s) + 1
      BY <1>3, <1>4
    <3> QED
      BY <1>5, <1>8, <3>1, FlattenFront, Zenon
  <2>2. FlattenSeq(t) = FlattenSeq(s)
    BY <1>6, <2>1, ConcatEmptySeq
  <2> QED
    BY <2>2 DEF s, t, more
<1> QED
  BY <1>7, <1>8

-----------------------------------------------------------------------------
(***************************************************************************)
(* Matching.                                                               *)
(***************************************************************************)
Matched == WindowInv /\ Good(result) /\ Rebuilt

IInv == Shape /\ Matched /\ StopInv /\ QueueInv

\* What every reading step leads to: cmds describe what is in front of the new
\* window.
Ahead(cmds) ==
  /\ newOffset' \in Nat /\ newOffset' < Len(new)
  /\ buffer' = Piece(new, newOffset', BlockSize)
  /\ position' = newOffset' + Len(buffer')
  /\ Good(cmds) /\ FlattenSeq(MeaningsOf(cmds)) = Piece(new, 0, newOffset')

LEMMA SameFiles ==
  ASSUME UNCHANGED files
  PROVE  /\ Good(result)' <=> Good(result')
         /\ Commands' = MeaningsOf(result')
         /\ Occurrences(buffer)' = Occurrences(buffer')
<1>1. old' = old /\ new' = new /\ capacity' = capacity
  BY DEF files
<1>2. Occurrences(buffer)' = Occurrences(buffer')
  BY <1>1 DEF Occurrences, OldOffsets
<1>3. Commands' = MeaningsOf(result')
  BY <1>1 DEF Commands, MeaningsOf, Meaning
<1>4. Good(result)' <=> Good(result')
  BY <1>1 DEF Good, Whole, IsNew, Apart, Occurrences, OldOffsets
<1> QED
  BY <1>2, <1>3, <1>4

LEMMA AheadNotEmpty ==
  ASSUME new \in Block, NEW cmds, Ahead(cmds)
  PROVE  buffer' # <<>> /\ buffer' \in Seq(Bytes)
<1>1. BlockSize \in Nat \ {0} /\ new \in Seq(Bytes)
  BY FileComparerAssumption DEF Block
<1>2. /\ buffer' \in Seq(Bytes)
      /\ Len(buffer') = SmallerOf(BlockSize, Len(new) - newOffset')
  BY <1>1, PieceType DEF Ahead
<1> QED
  BY <1>1, <1>2 DEF Ahead, SmallerOf

\* The step goes on with the command it is at.
LEMMA GoesOn ==
  ASSUME old \in Block, new \in Block, UNCHANGED files,
         NEW cmds, Ahead(cmds), cmds # <<>>, result' = cmds,
         \/ /\ state' = "Matching" /\ cmds[Len(cmds)].copy_from_old
            /\ LastTarget(cmds) \in Occurrences(buffer')
         \/ /\ state' = "NonMatching" /\ ~cmds[Len(cmds)].copy_from_old
            /\ LastTarget(cmds) = newOffset' /\ Occurrences(buffer') = {}
  PROVE  Matched'
<1>1. old' = old /\ new' = new
  BY DEF files
<1>2. Good(result)' /\ Rebuilt'
  BY <1>1, SameFiles DEF Ahead, Rebuilt
<1>3. WindowIsNext'
  BY <1>1 DEF Ahead, WindowIsNext
<1>4. WindowInv'
  BY <1>3, SameFiles DEF WindowInv, Last, LastTarget
<1> QED
  BY <1>2, <1>4 DEF Matched

LEMMA EntersNonMatching ==
  ASSUME old \in Block, new \in Block, UNCHANGED files,
         NEW cmds, Ahead(cmds), Occurrences(buffer') = {},
         state' = "NonMatching", result' = NewCommand(cmds, newOffset', FALSE)
  PROVE  Matched'
<1> DEFINE c    == Begun(newOffset', FALSE)
           more == Append(cmds, c)
<1>1. result' = more /\ c \in Command /\ c.length = 0
      /\ c.file_offset = newOffset' /\ ~c.copy_from_old
      /\ cmds \in Seq(Command)
  BY NewCommandIs DEF Ahead, Good
<1> HIDE DEF c
<1>2. Good(more)
  BY <1>1, GoodNew DEF Ahead
<1>3. FlattenSeq(MeaningsOf(more)) = Piece(new, 0, newOffset')
  BY <1>1, RebuiltNew DEF Ahead
<1>4. /\ more # <<>> /\ more[Len(more)] = c
  BY <1>1
<1>5. LastTarget(more) = newOffset'
  BY <1>1, <1>4 DEF LastTarget, Ahead
<1>6. Ahead(more)
  BY <1>2, <1>3 DEF Ahead
<1> HIDE DEF more
<1> QED
  BY <1>1, <1>4, <1>5, <1>6, GoesOn

\* A run of blocks does not go on with block b.
RunEnds(cmds, b) ==
  cmds # <<>> /\ cmds[Len(cmds)].copy_from_old => LastTarget(cmds) \notin Occurrences(b)

LEMMA EntersMatching ==
  ASSUME old \in Block, new \in Block, UNCHANGED files,
         NEW cmds, Ahead(cmds), NEW o \in Occurrences(buffer'),
         RunEnds(cmds, buffer'),
         state' = "Matching", result' = NewCommand(cmds, o, TRUE)
  PROVE  Matched'
<1> DEFINE c    == Begun(o, TRUE)
           more == Append(cmds, c)
<1>1. /\ o \in OldOffsets /\ o \in Nat /\ o % BlockSize = 0
      /\ Piece(old, o, BlockSize) = buffer'
  BY OffsetsType DEF Occurrences
<1>2. result' = more /\ c \in Command /\ c.length = 0
      /\ c.file_offset = o /\ c.copy_from_old
      /\ cmds \in Seq(Command)
  BY <1>1, NewCommandIs DEF Ahead, Good
<1> HIDE DEF c
<1>3. ASSUME cmds # <<>>, cmds[Len(cmds)].copy_from_old
      PROVE  Piece(old, LastTarget(cmds), BlockSize) # Piece(old, o, BlockSize)
  <2> DEFINE d      == cmds[Len(cmds)]
             target == LastTarget(cmds)
  <2>1. d \in Command /\ Whole(d)
    BY <1>2, <1>3 DEF Ahead, Good
  <2>2. d.file_offset \in Nat /\ d.length \in Nat /\ BlockSize \in Nat \ {0}
        /\ d.file_offset % BlockSize = 0 /\ d.length % BlockSize = 0
    BY <1>3, <2>1, FileComparerAssumption DEF Whole, Command
  <2>3. target \in Nat /\ target % BlockSize = 0
    <3>1. (d.file_offset + d.length) % BlockSize = 0
      BY <2>2, Multiples
    <3>2. target = d.file_offset + d.length
      BY DEF LastTarget
    <3> QED
      BY <2>2, <3>1, <3>2
  <2>4. target \notin Occurrences(buffer')
    BY <1>3 DEF RunEnds
  <2> HIDE DEF target
  <2>5. CASE target < Len(old)
    <3>1. target \in OldOffsets
      BY <2>3, <2>5 DEF OldOffsets, Block
    <3> QED
      BY <1>1, <2>4, <3>1 DEF Occurrences, target
  <2>6. CASE ~(target < Len(old))
    <3>1. old \in Seq(Bytes) /\ target >= Len(old)
      BY <2>3, <2>6 DEF Block
    <3>2. Piece(old, target, BlockSize) = <<>>
      BY <2>2, <2>3, <3>1, PieceType
    <3> QED
      BY <1>1, <3>2, AheadNotEmpty DEF target
  <2> QED
    BY <2>5, <2>6
<1>4. Good(more)
  BY <1>1, <1>2, <1>3, GoodNew DEF Ahead
<1>5. FlattenSeq(MeaningsOf(more)) = Piece(new, 0, newOffset')
  BY <1>2, RebuiltNew DEF Ahead
<1>6. more # <<>> /\ more[Len(more)] = c
  BY <1>2
<1>7. LastTarget(more) = o
  BY <1>1, <1>2, <1>6 DEF LastTarget
<1>8. Ahead(more)
  BY <1>4, <1>5 DEF Ahead
<1> HIDE DEF more
<1> QED
  BY <1>2, <1>6, <1>7, <1>8, GoesOn

LEMMA Finishes ==
  ASSUME UNCHANGED files, NEW cmds, Good(cmds), FlattenSeq(MeaningsOf(cmds)) = new,
         AtEnd, Finished, result' = cmds
  PROVE  Matched'
<1>1. new' = new /\ position' = position
  BY DEF files, Finished
<1>2. Good(result)' /\ Rebuilt'
  BY <1>1, SameFiles DEF Rebuilt, Finished
<1>3. WindowInv'
  BY <1>1 DEF WindowInv, AtEnd, Finished
<1> QED
  BY <1>2, <1>3 DEF Matched

LEMMA ReadIs ==
  ASSUME Shape, ReadBlock
  PROVE  /\ position \in Nat /\ position < Len(new) /\ Len(new) \in Nat
         /\ buffer' = Piece(new, position, BlockSize) /\ buffer' \in Block
         /\ Len(buffer') = SmallerOf(BlockSize, Len(new) - position)
         /\ position' = position + Len(buffer') /\ position' \in 0..Len(new)
         /\ unstored' = buffer'
<1>1. /\ new \in Seq(Bytes) /\ Len(new) \in Nat /\ position \in 0..Len(new)
      /\ BlockSize \in Nat \ {0} /\ position # Len(new)
  BY FileComparerAssumption DEF Shape, TypeOK, Block, ReadBlock, AtEnd
<1>2. /\ buffer' = Piece(new, position, BlockSize) /\ unstored' = buffer'
      /\ position' = position + Len(buffer')
  BY DEF ReadBlock
<1>3. /\ Piece(new, position, BlockSize) \in Seq(Bytes)
      /\ Len(Piece(new, position, BlockSize)) = SmallerOf(BlockSize, Len(new) - position)
  BY <1>1, PieceType
<1> QED
  BY <1>1, <1>2, <1>3 DEF Block, SmallerOf

\* The facts of a step of the state machine that say what it works on.
LEMMA ComparingIs ==
  ASSUME Shape, NEW s, Comparing(s)
  PROVE  /\ UNCHANGED files /\ new' = new /\ old' = old
         /\ old \in Block /\ new \in Block /\ new \in Seq(Bytes) /\ Len(new) \in Nat
         /\ position \in 0..Len(new) /\ newOffset \in Nat
         /\ BlockSize \in Nat \ {0} /\ state = s
  BY FileComparerAssumption DEF Shape, TypeOK, Comparing, files, Block

\* Where the window is, and what it has when there is more to read.
LEMMA WindowIs ==
  ASSUME new \in Seq(Bytes), newOffset \in Nat, BlockSize \in Nat \ {0}, WindowIsNext
  PROVE  /\ buffer \in Seq(Bytes) /\ Len(buffer) = SmallerOf(BlockSize, Len(new) - newOffset)
         /\ Len(buffer) \in Nat \ {0} /\ Len(buffer) <= BlockSize
         /\ position # Len(new) => /\ Len(buffer) = BlockSize
                                   /\ position = newOffset + BlockSize
                                   /\ position < Len(new)
         /\ position = newOffset + Len(buffer)
<1>1. /\ Piece(new, newOffset, BlockSize) \in Seq(Bytes)
      /\ Len(Piece(new, newOffset, BlockSize)) = SmallerOf(BlockSize, Len(new) - newOffset)
  BY PieceType DEF WindowIsNext
<1> QED
  BY <1>1 DEF WindowIsNext, SmallerOf

LEMMA InitialMatches ==
  ASSUME Shape, Matched, StateInitial
  PROVE  Matched'
<1>1. /\ UNCHANGED files /\ new' = new /\ old' = old
      /\ old \in Block /\ new \in Block /\ new \in Seq(Bytes) /\ Len(new) \in Nat
      /\ BlockSize \in Nat \ {0} /\ state = "Initial"
  BY ComparingIs DEF StateInitial
<1>2. position = 0 /\ newOffset' = 0 /\ result = <<>> /\ Good(result)
  BY <1>1 DEF Matched, WindowInv, StateInitial
<1>3. FlattenSeq(MeaningsOf(result)) = <<>>
  <2>1. MeaningsOf(result) = <<>>
    BY <1>2 DEF MeaningsOf
  <2> QED
    BY <2>1 DEF FlattenSeq
<1>4. Piece(new, 0, 0) = <<>>
  BY <1>1 DEF Piece, SmallerOf
<1>5. CASE AtEnd /\ Finished /\ UNCHANGED <<buffer, result>>
  <2>1. new = <<>>
    BY <1>1, <1>2, <1>5 DEF AtEnd
  <2> QED
    BY <1>1, <1>2, <1>3, <1>5, <2>1, Finishes
<1>6. CASE /\ ReadBlock
           /\ \/ \E o \in OldOffsets :
                    Found(o, NoTarget) /\ Enter("Matching", result, o, TRUE)
              \/ NotFound(NoTarget) /\ Enter("NonMatching", result, 0, FALSE)
  <2>1. Ahead(result)
    BY <1>1, <1>2, <1>3, <1>4, <1>6, ReadIs DEF Ahead
  <2>2. CASE \E o \in OldOffsets :
               Found(o, NoTarget) /\ Enter("Matching", result, o, TRUE)
    <3>1. PICK o \in OldOffsets :
                 Found(o, NoTarget) /\ Enter("Matching", result, o, TRUE)
      BY <2>2
    <3>2. o \in Occurrences(buffer')
      BY <3>1, FoundOccurs DEF Found
    <3>3. RunEnds(result, buffer')
      BY <1>2 DEF RunEnds
    <3> QED
      BY <1>1, <2>1, <3>1, <3>2, <3>3, EntersMatching DEF Enter
  <2>3. CASE NotFound(NoTarget) /\ Enter("NonMatching", result, 0, FALSE)
    <3>1. Occurrences(buffer') = {}
      BY <1>1, <2>3, NotFoundOccursNot DEF NotFound, Found
    <3> QED
      BY <1>1, <1>2, <2>1, <2>3, <3>1, EntersNonMatching DEF Enter
  <2> QED
    BY <1>6, <2>2, <2>3
<1> QED
  BY <1>5, <1>6 DEF StateInitial

LEMMA MatchingMatches ==
  ASSUME Shape, Matched, StateMatching
  PROVE  Matched'
<1> DEFINE cmds   == Longer(BlockSize)
           target == LastTarget(cmds)
<1>1. /\ UNCHANGED files /\ new' = new /\ old' = old
      /\ old \in Block /\ new \in Block /\ new \in Seq(Bytes) /\ Len(new) \in Nat
      /\ position \in 0..Len(new) /\ newOffset \in Nat
      /\ BlockSize \in Nat \ {0} /\ state = "Matching"
  BY ComparingIs DEF StateMatching
<1>2. /\ WindowIsNext /\ result # <<>> /\ newOffset < Len(new)
      /\ buffer = Piece(new, newOffset, BlockSize)
      /\ result[Len(result)].copy_from_old
      /\ LastTarget(result) \in Occurrences(buffer)
      /\ Good(result) /\ result \in Seq(Command)
      /\ FlattenSeq(MeaningsOf(result)) = Piece(new, 0, newOffset)
  BY <1>1 DEF Matched, WindowInv, WindowIsNext, Last, Good, Rebuilt, Commands, MeaningsOf
<1>3. /\ LastTarget(result) \in Nat /\ LastTarget(result) < Len(old)
      /\ Piece(old, LastTarget(result), BlockSize) = buffer
  BY <1>1, <1>2, OffsetsType DEF Occurrences
<1>4. Good(cmds)
  BY <1>2, GoodMatch
<1>5. FlattenSeq(MeaningsOf(cmds)) = Piece(new, 0, newOffset + BlockSize)
  <2>1. FileOf(result[Len(result)]) = old
    BY <1>2 DEF FileOf
  <2>2. LastTarget(result) <= Len(old)
    BY <1>1, <1>3 DEF Block
  <2>3. FlattenSeq(MeaningsOf(cmds)) = Piece(new, 0, newOffset) \o buffer
    BY <1>1, <1>2, <1>3, <2>1, <2>2, RebuiltLonger
  <2>4. Piece(new, 0, newOffset) \o Piece(new, newOffset, BlockSize)
          = Piece(new, 0, newOffset + BlockSize)
    <3>1. newOffset <= Len(new) /\ BlockSize \in Nat
      BY <1>1, <1>2
    <3> QED
      BY <1>1, <3>1, PiecesJoinFirst
  <2> QED
    BY <1>1, <1>2, <2>3, <2>4
<1>6. /\ cmds # <<>> /\ cmds[Len(cmds)].copy_from_old
  <2>1. /\ Len(cmds) = Len(result) /\ Len(result) \in 1..Len(result)
        /\ cmds[Len(result)].copy_from_old = result[Len(result)].copy_from_old
    <3>1. BlockSize \in Nat
      BY <1>1
    <3> QED
      BY <1>2, <3>1, LongerIs
  <2> QED
    BY <1>2, <2>1
<1>7. /\ newOffset' = newOffset + BlockSize
      /\ \/ AtEnd /\ Finished /\ result' = cmds /\ UNCHANGED buffer
         \/ /\ ReadBlock
            /\ \/ Found(target, target) /\ result' = cmds /\ UNCHANGED state
               \/ \E o \in OldOffsets \ {target} :
                    Found(o, target) /\ Enter("Matching", cmds, o, TRUE)
               \/ NotFound(target) /\ Enter("NonMatching", cmds, newOffset', FALSE)
  BY DEF StateMatching
<1>8. CASE AtEnd /\ Finished /\ result' = cmds /\ UNCHANGED buffer
  <2>1. newOffset + BlockSize >= Len(new)
    BY <1>1, <1>2, <1>8, WindowIs DEF AtEnd
  <2>2. FlattenSeq(MeaningsOf(cmds)) = new
    BY <1>1, <1>5, <2>1, PieceWhole
  <2> HIDE DEF cmds
  <2> QED
    BY <1>1, <1>4, <1>8, <2>2, Finishes
<1>9. CASE /\ ReadBlock
           /\ \/ Found(target, target) /\ result' = cmds /\ UNCHANGED state
              \/ \E o \in OldOffsets \ {target} :
                   Found(o, target) /\ Enter("Matching", cmds, o, TRUE)
              \/ NotFound(target) /\ Enter("NonMatching", cmds, newOffset', FALSE)
  <2>1. newOffset' = position
    BY <1>1, <1>2, <1>7, <1>9, WindowIs DEF ReadBlock, AtEnd
  <2> HIDE DEF cmds
  <2>2. Ahead(cmds)
    BY <1>1, <1>4, <1>5, <1>7, <1>9, <2>1, ReadIs DEF Ahead
  <2> HIDE DEF target
  <2>3. CASE Found(target, target) /\ result' = cmds /\ UNCHANGED state
    <3>1. target \in Occurrences(buffer')
      BY <2>3, FoundOccurs DEF Found
    <3> QED
      BY <1>1, <1>6, <2>2, <2>3, <3>1, GoesOn DEF target
  <2>4. CASE \E o \in OldOffsets \ {target} :
               Found(o, target) /\ Enter("Matching", cmds, o, TRUE)
    <3>1. PICK o \in OldOffsets \ {target} :
                 Found(o, target) /\ Enter("Matching", cmds, o, TRUE)
      BY <2>4
    <3>2. o \in Occurrences(buffer') /\ target \notin Occurrences(buffer')
      BY <3>1, FoundOccurs DEF Found
    <3>3. RunEnds(cmds, buffer')
      BY <3>2 DEF RunEnds, target
    <3> QED
      BY <1>1, <2>2, <3>1, <3>2, <3>3, EntersMatching DEF Enter
  <2>5. CASE NotFound(target) /\ Enter("NonMatching", cmds, newOffset', FALSE)
    <3>1. Occurrences(buffer') = {}
      BY <1>1, <2>5, NotFoundOccursNot DEF NotFound, Found
    <3> QED
      BY <1>1, <2>2, <2>5, <3>1, EntersNonMatching DEF Enter
  <2> QED
    BY <1>9, <2>3, <2>4, <2>5
<1> QED
  BY <1>7, <1>8, <1>9

\* The window is the next block also after it has moved by a byte.
LEMMA MoveWindowIs ==
  ASSUME new \in Seq(Bytes), newOffset \in Nat, BlockSize \in Nat \ {0},
         WindowIsNext, MoveWindow
  PROVE  /\ newOffset + 1 < Len(new)
         /\ buffer' = Piece(new, newOffset + 1, BlockSize) /\ buffer' \in Seq(Bytes)
         /\ position' = newOffset + 1 + Len(buffer')
<1>1. /\ buffer \in Seq(Bytes) /\ Len(buffer) = SmallerOf(BlockSize, Len(new) - newOffset)
      /\ Len(buffer) \in Nat \ {0} /\ Len(buffer) <= BlockSize
      /\ position # Len(new) => /\ Len(buffer) = BlockSize
                                /\ position = newOffset + BlockSize
                                /\ position < Len(new)
      /\ position = newOffset + Len(buffer)
  BY WindowIs
<1>2. \A i \in 1..Len(buffer) : buffer[i] = new[newOffset + i]
  <2>1. \A i \in 1..Len(Piece(new, newOffset, BlockSize)) :
          Piece(new, newOffset, BlockSize)[i] = new[newOffset + i]
    BY PieceType
  <2> QED
    BY <2>1 DEF WindowIsNext
<1>3. newOffset + 1 \in Nat /\ newOffset < Len(new)
  BY DEF WindowIsNext
<1> DEFINE next == Piece(new, newOffset + 1, BlockSize)
<1>4. /\ next \in Seq(Bytes)
      /\ newOffset + 1 <= Len(new) => Len(next) = SmallerOf(BlockSize, Len(new) - (newOffset + 1))
      /\ \A i \in 1..Len(next) : next[i] = new[newOffset + 1 + i]
  BY <1>3, PieceType
<1> HIDE DEF next
<1>5. /\ Tail(buffer) \in Seq(Bytes) /\ Len(Tail(buffer)) = Len(buffer) - 1
      /\ \A i \in 1..(Len(buffer) - 1) : Tail(buffer)[i] = new[newOffset + 1 + i]
  <2>1. buffer # <<>>
    BY <1>1
  <2>2. /\ Tail(buffer) \in Seq(Bytes) /\ Len(Tail(buffer)) = Len(buffer) - 1
        /\ \A i \in 1..(Len(buffer) - 1) : Tail(buffer)[i] = buffer[i + 1]
    BY <1>1, <2>1, HeadTailProperties
  <2>3. \A i \in 1..(Len(buffer) - 1) : buffer[i + 1] = new[newOffset + (i + 1)]
    BY <1>1, <1>2
  <2>4. \A i \in 1..(Len(buffer) - 1) : newOffset + (i + 1) = newOffset + 1 + i
    BY <1>1
  <2> QED
    BY <2>2, <2>3, <2>4
<1>6. CASE /\ ~AtEnd
           /\ buffer' = Append(Tail(buffer), new[position + 1])
           /\ position' = position + 1
  <2>1. Len(buffer) = BlockSize /\ position = newOffset + BlockSize /\ position < Len(new)
    BY <1>1, <1>6 DEF AtEnd
  <2>2. new[position + 1] \in Bytes
    BY <1>1, <2>1
  <2>3. /\ buffer' \in Seq(Bytes) /\ Len(buffer') = BlockSize
        /\ \A i \in 1..(BlockSize - 1) : buffer'[i] = Tail(buffer)[i]
        /\ buffer'[BlockSize] = new[position + 1]
    BY <1>5, <1>6, <2>1, <2>2
  <2>4. newOffset + 1 < Len(new) /\ Len(next) = BlockSize
    BY <1>3, <1>4, <2>1 DEF SmallerOf
  <2>5. ASSUME NEW i \in 1..BlockSize PROVE buffer'[i] = next[i]
    <3>1. next[i] = new[newOffset + 1 + i]
      BY <1>4, <2>4
    <3>2. CASE i = BlockSize
      <4>1. newOffset + 1 + i = position + 1
        BY <2>1, <3>2
      <4> QED
        BY <2>3, <3>1, <3>2, <4>1
    <3>3. CASE i # BlockSize
      <4>1. i \in 1..(BlockSize - 1) /\ i \in 1..(Len(buffer) - 1)
        BY <2>1, <3>3
      <4> QED
        BY <1>5, <2>3, <3>1, <4>1
    <3> QED
      BY <3>2, <3>3
  <2>6. buffer' = next
    BY <1>4, <2>3, <2>4, <2>5, SeqEqual
  <2>7. position' = newOffset + 1 + Len(buffer')
    <3>1. position' = position + 1 /\ Len(buffer') = BlockSize
      BY <1>6, <2>3
    <3> QED
      BY <2>1, <3>1
  <2> QED
    BY <2>3, <2>4, <2>6, <2>7 DEF next
<1>7. CASE /\ AtEnd
           /\ buffer' = Tail(buffer) /\ buffer' # <<>>
           /\ UNCHANGED position
  <2>1. Len(buffer) = Len(new) - newOffset /\ Len(buffer) - 1 # 0
    <3>1. Tail(buffer) # <<>>
      BY <1>7
    <3>2. Len(Tail(buffer)) # 0
      BY <1>5, <3>1, EmptySeq, Zenon
    <3>3. Len(buffer) - 1 # 0
      BY <1>5, <3>2
    <3>4. position = Len(new) /\ position = newOffset + Len(buffer)
          /\ Len(buffer) \in Nat
      BY <1>1, <1>7 DEF AtEnd
    <3> QED
      BY <3>3, <3>4
  <2>2. newOffset + 1 < Len(new) /\ Len(next) = Len(buffer) - 1
    BY <1>1, <1>3, <1>4, <2>1 DEF SmallerOf
  <2>3. \A i \in 1..Len(next) : Tail(buffer)[i] = next[i]
    BY <1>4, <1>5, <2>2
  <2>4. Tail(buffer) = next
    BY <1>4, <1>5, <2>2, <2>3, SeqEqual
  <2>5. position' = newOffset + 1 + Len(buffer')
    <3>1. position' = position /\ Len(buffer') = Len(buffer) - 1
      BY <1>5, <1>7
    <3>2. position = newOffset + Len(buffer) /\ Len(buffer) \in Nat
      BY <1>1
    <3> QED
      BY <3>1, <3>2
  <2> QED
    BY <1>5, <1>7, <2>2, <2>4, <2>5 DEF next
<1> QED
  BY <1>6, <1>7 DEF MoveWindow

LEMMA NonMatchingMatches ==
  ASSUME Shape, Matched, StateNonMatching
  PROVE  Matched'
<1> DEFINE cmds == Longer(1)
<1>1. /\ UNCHANGED files /\ new' = new /\ old' = old
      /\ old \in Block /\ new \in Block /\ new \in Seq(Bytes) /\ Len(new) \in Nat
      /\ position \in 0..Len(new) /\ newOffset \in Nat
      /\ BlockSize \in Nat \ {0} /\ state = "NonMatching"
  BY ComparingIs DEF StateNonMatching
<1>2. /\ WindowIsNext /\ result # <<>> /\ newOffset < Len(new)
      /\ buffer = Piece(new, newOffset, BlockSize)
      /\ ~result[Len(result)].copy_from_old
      /\ LastTarget(result) = newOffset /\ Occurrences(buffer) = {}
      /\ Good(result) /\ result \in Seq(Command)
      /\ FlattenSeq(MeaningsOf(result)) = Piece(new, 0, newOffset)
  BY <1>1 DEF Matched, WindowInv, WindowIsNext, Last, Good, Rebuilt, Commands, MeaningsOf
<1>3. Good(cmds)
  BY <1>2, GoodByte
<1>4. FlattenSeq(MeaningsOf(cmds)) = Piece(new, 0, newOffset + 1)
  <2>1. FileOf(result[Len(result)]) = new
    BY <1>2 DEF FileOf
  <2>2. newOffset <= Len(new) /\ 1 \in Nat
    BY <1>1, <1>2
  <2>3. FlattenSeq(MeaningsOf(cmds)) = Piece(new, 0, newOffset) \o Piece(new, newOffset, 1)
    BY <1>1, <1>2, <2>1, <2>2, RebuiltLonger
  <2>4. Piece(new, 0, newOffset) \o Piece(new, newOffset, 1) = Piece(new, 0, newOffset + 1)
    BY <1>1, <2>2, PiecesJoinFirst
  <2> QED
    BY <2>3, <2>4
<1>5. /\ cmds # <<>> /\ ~cmds[Len(cmds)].copy_from_old
      /\ LastTarget(cmds) = newOffset + 1
  <2>1. /\ Len(cmds) = Len(result) /\ Len(result) \in 1..Len(result)
        /\ cmds[Len(result)].copy_from_old = result[Len(result)].copy_from_old
        /\ LastTarget(cmds) = LastTarget(result) + 1
    BY <1>2, LongerIs
  <2> QED
    BY <1>2, <2>1
<1>6. /\ newOffset' = newOffset + 1
      /\ \/ AtEnd /\ Len(buffer) = 1 /\ Finished /\ result' = cmds /\ buffer' = <<>>
         \/ /\ MoveWindow
            /\ \/ \E o \in OldOffsets :
                    Found(o, NoTarget) /\ Enter("Matching", cmds, o, TRUE)
               \/ NotFound(NoTarget) /\ result' = cmds /\ UNCHANGED state
  BY DEF StateNonMatching
<1> HIDE DEF cmds
<1>7. CASE AtEnd /\ Len(buffer) = 1 /\ Finished /\ result' = cmds /\ buffer' = <<>>
  <2>1. newOffset + 1 >= Len(new)
    BY <1>1, <1>2, <1>7, WindowIs DEF AtEnd
  <2>2. FlattenSeq(MeaningsOf(cmds)) = new
    BY <1>1, <1>4, <2>1, PieceWhole
  <2> QED
    BY <1>1, <1>3, <1>7, <2>2, Finishes
<1>8. CASE /\ MoveWindow
           /\ \/ \E o \in OldOffsets :
                   Found(o, NoTarget) /\ Enter("Matching", cmds, o, TRUE)
              \/ NotFound(NoTarget) /\ result' = cmds /\ UNCHANGED state
  <2>1. Ahead(cmds)
    BY <1>1, <1>2, <1>3, <1>4, <1>6, <1>8, MoveWindowIs DEF Ahead
  <2>2. CASE \E o \in OldOffsets :
               Found(o, NoTarget) /\ Enter("Matching", cmds, o, TRUE)
    <3>1. PICK o \in OldOffsets :
                 Found(o, NoTarget) /\ Enter("Matching", cmds, o, TRUE)
      BY <2>2
    <3>2. o \in Occurrences(buffer')
      BY <3>1, FoundOccurs DEF Found
    <3>3. RunEnds(cmds, buffer')
      BY <1>5 DEF RunEnds
    <3> QED
      BY <1>1, <2>1, <3>1, <3>2, <3>3, EntersMatching DEF Enter
  <2>3. CASE NotFound(NoTarget) /\ result' = cmds /\ UNCHANGED state
    <3>1. Occurrences(buffer') = {}
      BY <1>1, <2>3, NotFoundOccursNot DEF NotFound, Found
    <3> QED
      BY <1>1, <1>5, <1>6, <2>1, <2>3, <3>1, GoesOn
  <2> QED
    BY <1>8, <2>2, <2>3
<1> QED
  BY <1>6, <1>7, <1>8

\* Every step of the state machine reads a piece of the new file, if only an
\* empty one.
Reads ==
  \E n \in Nat : unstored' = Piece(new, position, n) /\ position' = position + Len(unstored')

LEMMA FinishedReads ==
  ASSUME Shape, UNCHANGED <<position, unstored>>, unstored = <<>>
  PROVE  Reads
<1>1. new \in Seq(Bytes) /\ position \in Nat
  BY DEF Shape, TypeOK, Block
<1>2. Piece(new, position, 0) = <<>> /\ Len(<<>>) = 0 /\ 0 \in Nat
  BY <1>1 DEF Piece, SmallerOf
<1> QED
  BY <1>1, <1>2 DEF Reads

LEMMA InitialReads ==
  ASSUME Shape, StateInitial
  PROVE  /\ Reads /\ newOffset' \in Nat /\ buffer' \in Block
         /\ state' \in {"Matching", "NonMatching", "Final"}
<1>1. unstored = <<>> /\ newOffset' = 0 /\ buffer \in Block /\ BlockSize \in Nat
  BY FileComparerAssumption DEF StateInitial, Comparing, Shape, TypeOK
<1>2. CASE AtEnd /\ Finished /\ UNCHANGED <<buffer, result>>
  BY <1>1, <1>2, FinishedReads DEF Finished
<1>3. CASE ReadBlock /\ state' \in {"Matching", "NonMatching"}
  BY <1>1, <1>3, ReadIs DEF Reads
<1> QED
  BY <1>2, <1>3 DEF StateInitial, Enter

LEMMA MatchingReads ==
  ASSUME Shape, StateMatching
  PROVE  /\ Reads /\ newOffset' \in Nat /\ buffer' \in Block
         /\ state' \in {"Matching", "NonMatching", "Final"}
<1>1. /\ unstored = <<>> /\ newOffset' = newOffset + BlockSize
      /\ newOffset \in Nat /\ BlockSize \in Nat /\ buffer \in Block /\ state = "Matching"
  BY FileComparerAssumption DEF StateMatching, Comparing, Shape, TypeOK
<1>2. CASE AtEnd /\ Finished /\ UNCHANGED buffer
  BY <1>1, <1>2, FinishedReads DEF Finished
<1>3. CASE ReadBlock /\ state' \in {state, "Matching", "NonMatching"}
  BY <1>1, <1>3, ReadIs DEF Reads
<1> QED
  BY <1>2, <1>3 DEF StateMatching, Enter

LEMMA NonMatchingReads ==
  ASSUME Shape, Matched, StateNonMatching
  PROVE  /\ Reads /\ newOffset' \in Nat /\ buffer' \in Block
         /\ state' \in {"Matching", "NonMatching", "Final"}
<1>1. /\ unstored = <<>> /\ newOffset' = newOffset + 1 /\ state = "NonMatching"
      /\ newOffset \in Nat /\ BlockSize \in Nat \ {0} /\ new \in Seq(Bytes)
      /\ position \in 0..Len(new) /\ Len(new) \in Nat
  BY FileComparerAssumption DEF StateNonMatching, Comparing, Shape, TypeOK, Block
<1>2. CASE AtEnd /\ Finished /\ buffer' = <<>>
  <2>1. <<>> \in Block
    BY DEF Block
  <2> QED
    BY <1>1, <1>2, <2>1, FinishedReads DEF Finished
<1>3. CASE MoveWindow /\ state' \in {state, "Matching"}
  <2>1. buffer' \in Block
    BY <1>1, <1>3, MoveWindowIs DEF Matched, WindowInv, Block
  <2>2. CASE ~AtEnd /\ position' = position + 1 /\ unstored' = <<new[position + 1]>>
    <3>1. /\ position \in Nat /\ position + 1 <= Len(new) /\ 1 \in Nat
          /\ new[position + 1] \in Bytes
      BY <1>1, <2>2 DEF AtEnd
    <3>2. Piece(new, position, 1) = <<new[position + 1]>>
      BY <1>1, <3>1, PieceOfOne
    <3>3. Reads
      BY <2>2, <3>1, <3>2 DEF Reads
    <3> QED
      BY <1>1, <1>3, <2>1, <3>3
  <2>3. CASE UNCHANGED <<position, unstored>>
    BY <1>1, <1>3, <2>1, <2>3, FinishedReads
  <2> QED
    BY <1>3, <2>2, <2>3 DEF MoveWindow
<1> QED
  BY <1>2, <1>3 DEF StateNonMatching, Enter

-----------------------------------------------------------------------------
(***************************************************************************)
(* Handing over.                                                           *)
(***************************************************************************)
LEMMA Capacity ==
  ASSUME Shape
  PROVE  capacity \in Nat \ {0} /\ new \in Seq(Bytes) /\ Len(new) \in Nat
  BY FileComparerAssumption DEF Shape, TypeOK, Block

LEMMA QueuedType ==
  ASSUME Shape
  PROVE  /\ Queued \in Nat /\ Queued <= Len(queue) /\ Len(queue) \in Nat
         /\ ~StopQueued => Queued = Len(queue)
         /\ StopQueued => Queued = Len(queue) - 1
         /\ \A a \in Nat : From(a) \in Nat /\ From(a) + Queued * capacity \in Nat
<1>1. queue \in Seq(Buffer)
  BY DEF Shape
<1>2. Queued \in Nat /\ Queued <= Len(queue) /\ Len(queue) \in Nat
  BY <1>1 DEF Queued, StopQueued
<1>3. capacity \in Nat
  BY Capacity
<1>4. ASSUME NEW a \in Nat
      PROVE  From(a) \in Nat /\ From(a) + Queued * capacity \in Nat
  <2>1. From(a) \in Nat
    BY <1>3 DEF From
  <2>2. Queued * capacity \in Nat
    BY <1>2, <1>3
  <2> QED
    BY <2>1, <2>2
<1> QED
  BY <1>1, <1>2, <1>4 DEF Queued

\* Where the thread is matters only while it is hashing.
LEMMA SameQueue ==
  ASSUME UNCHANGED <<files, queue, taken, table, digested>>, Hashing' = Hashing, NEW a
  PROVE  /\ HashedUpto(a) => HashedUpto(a)'
         /\ QueuedFrom(a) => QueuedFrom(a)'
         /\ From(a)' = From(a) /\ Queued' = Queued /\ (StopQueued' <=> StopQueued)
<1>1. new' = new /\ capacity' = capacity
  BY DEF files
<1>2. Queued' = Queued /\ (StopQueued' <=> StopQueued)
  BY DEF Queued, StopQueued
<1>3. From(a)' = From(a)
  BY <1>1 DEF From
<1>4. HashedUpto(a) => HashedUpto(a)'
  BY <1>1 DEF HashedUpto
<1>5. QueuedFrom(a) => QueuedFrom(a)'
  BY <1>1, <1>2 DEF QueuedFrom
<1> QED
  BY <1>2, <1>3, <1>4, <1>5

\* A step that changes nothing of that keeps what was handed over, if it keeps
\* what is not handed over yet.
LEMMA SameHandedOver ==
  ASSUME UNCHANGED <<files, queue, taken, table, digested>>, Hashing' = Hashing,
         \A at \in Nat : FilledFrom(at) => FilledFrom(at)',
         Shape, QueueInv
  PROVE  QueueInv'
<1>1. PICK a \in Nat : HandedOver(a)
  BY DEF QueueInv
<1>2. From(a) \in Nat /\ From(a) + Queued * capacity \in Nat
  BY QueuedType
<1>3. /\ HashedUpto(a)' /\ QueuedFrom(From(a))' /\ From(a)' = From(a) /\ Queued' = Queued
      /\ capacity' = capacity
  BY <1>1, SameQueue DEF HandedOver, files
<1>4. FilledFrom(From(a) + Queued * capacity)'
  BY <1>1, <1>2, <1>3 DEF HandedOver, FilledFrom
<1>5. HandedOver(a)'
  BY <1>3, <1>4 DEF HandedOver, QueuedFrom
<1> QED
  BY <1>5 DEF QueueInv

LEMMA MatchedSame ==
  ASSUME Matched, UNCHANGED <<files, matching>>
  PROVE  Matched'
<1>1. /\ old' = old /\ new' = new /\ state' = state /\ position' = position
      /\ buffer' = buffer /\ newOffset' = newOffset /\ result' = result
  BY DEF files, matching
<1>2. UNCHANGED files
  OBVIOUS
<1>3. WindowInv'
  BY <1>1, <1>2, SameFiles DEF Matched, WindowInv, WindowIsNext, Last, LastTarget
<1>4. Good(result)'
  BY <1>1, <1>2, SameFiles DEF Matched
<1>5. Rebuilt'
  BY <1>1 DEF Matched, Rebuilt, Commands, Meaning
<1> QED
  BY <1>3, <1>4, <1>5 DEF Matched

\* What was read and is not stored yet is still the next piece.
LEMMA ReadsFill ==
  ASSUME Shape, Reads, UNCHANGED <<files, main, newBuffer>>, main = "run", unstored = <<>>,
         NEW at \in Nat, FilledFrom(at)
  PROVE  /\ FilledFrom(at)'
         /\ unstored' \in Block /\ position' \in 0..Len(new)
<1>1. /\ new \in Seq(Bytes) /\ Len(new) \in Nat /\ position \in 0..Len(new)
      /\ newBuffer \in Seq(Bytes) /\ Len(newBuffer) \in Nat
  BY DEF Shape, TypeOK, Block
<1>2. PICK n \in Nat : unstored' = Piece(new, position, n) /\ position' = position + Len(unstored')
  BY DEF Reads
<1>3. /\ unstored' \in Seq(Bytes) /\ Len(unstored') = SmallerOf(n, Len(new) - position)
      /\ Len(unstored') \in Nat
  BY <1>1, <1>2, PieceType
<1>4. position' \in 0..Len(new)
  BY <1>1, <1>2, <1>3 DEF SmallerOf
<1>5. unstored' = Piece(new, position, Len(unstored'))
  <2>1. CASE n <= Len(new) - position
    BY <1>1, <1>2, <1>3, <2>1 DEF SmallerOf
  <2>2. CASE ~(n <= Len(new) - position)
    <3>1. position \in Nat /\ position + n >= Len(new) /\ position + Len(unstored') >= Len(new)
      BY <1>1, <1>3, <2>2 DEF SmallerOf
    <3> QED
      BY <1>1, <1>2, <1>3, <3>1, PieceToEnd
  <2> QED
    BY <2>1, <2>2
<1>6. position = at + Len(newBuffer) /\ newBuffer = Piece(new, at, Len(newBuffer))
  BY <1>1 DEF FilledFrom
<1>7. new' = new /\ main' = main /\ newBuffer' = newBuffer
  BY DEF files
<1>8. position' = at + Len(newBuffer) + Len(unstored')
  BY <1>2, <1>6
<1>9. unstored' = Piece(new, at + Len(newBuffer), Len(unstored'))
  BY <1>5, <1>6
<1>10. FilledFrom(at)'
  BY <1>6, <1>7, <1>8, <1>9 DEF FilledFrom
<1> QED
  BY <1>3, <1>4, <1>10 DEF Block

LEMMA ComparingKeeps ==
  ASSUME IInv, NEW s, Comparing(s), Matched', Reads, newOffset' \in Nat, buffer' \in Block,
         state' \in {"Matching", "NonMatching", "Final"}
  PROVE  IInv'
<1>1. /\ main = "run" /\ unstored = <<>> /\ UNCHANGED <<files, main, newBuffer, queue, hashing>>
      /\ UNCHANGED <<signalDue, event>>
  BY DEF Comparing
<1>2. Hashing' = Hashing /\ StopTaken' = StopTaken /\ StopQueued' = StopQueued
  BY <1>1 DEF hashing, Hashing, StopTaken, StopQueued
<1>3. \A at \in Nat : FilledFrom(at) =>
        FilledFrom(at)' /\ unstored' \in Block /\ position' \in 0..Len(new)
  BY <1>1, ReadsFill DEF IInv
<1>4. QueueInv'
  BY <1>1, <1>2, <1>3, SameHandedOver DEF IInv, hashing
<1>5. unstored' \in Block /\ position' \in 0..Len(new)
  <2>1. PICK a \in Nat : HandedOver(a)
    BY DEF IInv, QueueInv
  <2>2. From(a) + Queued * capacity \in Nat
    BY QueuedType DEF IInv
  <2> QED
    BY <1>3, <2>1, <2>2 DEF HandedOver
<1>6. result' \in Seq(Command)
  BY DEF Matched, Good
<1>7. Shape'
  BY <1>1, <1>5, <1>6 DEF IInv, Shape, TypeOK, files, hashing
<1>8. StopInv'
  BY <1>1, <1>2 DEF IInv, StopInv, hashing
<1> QED
  BY <1>4, <1>7, <1>8 DEF IInv

LEMMA InitialKeeps == IInv /\ StateInitial => IInv'
<1> SUFFICES ASSUME IInv, StateInitial PROVE IInv'
  OBVIOUS
<1>1. Comparing("Initial") /\ Matched'
  BY InitialMatches DEF IInv, StateInitial
<1> QED
  BY <1>1, InitialReads, ComparingKeeps DEF IInv

LEMMA MatchingKeeps == IInv /\ StateMatching => IInv'
<1> SUFFICES ASSUME IInv, StateMatching PROVE IInv'
  OBVIOUS
<1>1. Comparing("Matching") /\ Matched'
  BY MatchingMatches DEF IInv, StateMatching
<1> QED
  BY <1>1, MatchingReads, ComparingKeeps DEF IInv

LEMMA NonMatchingKeeps == IInv /\ StateNonMatching => IInv'
<1> SUFFICES ASSUME IInv, StateNonMatching PROVE IInv'
  OBVIOUS
<1>1. Comparing("NonMatching") /\ Matched'
  BY NonMatchingMatches DEF IInv, StateNonMatching
<1> QED
  BY <1>1, NonMatchingReads, ComparingKeeps DEF IInv

\* The steps that neither queue nor take a buffer.
LEMMA QuietKeeps ==
  ASSUME IInv,
         UNCHANGED <<files, matching, unstored, newBuffer, queue, taken, table, digested>>,
         main' \in {"start", "run", "stop", "join", "done"},
         main' \in {"start", "run"} <=> main \in {"start", "run"},
         worker' \in {"none", "look", "take", "wait", "hash", "ended"},
         signalDue' \in BOOLEAN, event' \in BOOLEAN,
         Hashing' = Hashing, StopInv'
  PROVE  IInv'
<1>1. Matched'
  BY MatchedSame DEF IInv
<1>2. Shape'
  BY DEF IInv, Shape, TypeOK, files, matching
<1>3. \A at \in Nat : FilledFrom(at) => FilledFrom(at)'
  BY DEF FilledFrom, files, matching
<1>4. QueueInv'
  BY <1>3, SameHandedOver DEF IInv
<1> QED
  BY <1>1, <1>2, <1>4 DEF IInv

LEMMA CreateWorkerKeeps == IInv /\ CreateWorker => IInv'
<1> SUFFICES ASSUME IInv, CreateWorker PROVE IInv'
  OBVIOUS
<1>1. worker = "none" /\ ~StopQueued /\ UNCHANGED queue
  BY DEF IInv, StopInv, CreateWorker
<1>2. Hashing' = Hashing /\ ~StopTaken' /\ ~StopQueued'
  BY <1>1 DEF CreateWorker, Hashing, StopTaken, StopQueued
<1>3. StopInv'
  BY <1>2 DEF CreateWorker, StopInv
<1> QED
  BY <1>2, <1>3, QuietKeeps DEF CreateWorker, filling, IInv, Shape, TypeOK

LEMMA SetEventKeeps == IInv /\ SetEvent => IInv'
<1> SUFFICES ASSUME IInv, SetEvent PROVE IInv'
  OBVIOUS
<1>1. Hashing' = Hashing /\ StopTaken' = StopTaken /\ StopQueued' = StopQueued
  BY DEF SetEvent, hashing, Hashing, StopTaken, StopQueued
<1>2. StopInv'
  BY <1>1 DEF IInv, SetEvent, StopInv, matching, hashing
<1> QED
  BY <1>1, <1>2, QuietKeeps DEF SetEvent, hashing, IInv, Shape, TypeOK

LEMMA JoinKeeps == IInv /\ Join => IInv'
<1> SUFFICES ASSUME IInv, Join PROVE IInv'
  OBVIOUS
<1>1. Hashing' = Hashing /\ StopTaken' = StopTaken /\ StopQueued' = StopQueued
  BY DEF Join, hashing, Hashing, StopTaken, StopQueued
<1>2. StopInv'
  BY <1>1 DEF IInv, Join, StopInv, matching, hashing
<1> QED
  BY <1>1, <1>2, QuietKeeps DEF Join, filling, hashing, IInv, Shape, TypeOK

LEMMA LookKeeps == IInv /\ LookAtQueue => IInv'
<1> SUFFICES ASSUME IInv, LookAtQueue PROVE IInv'
  OBVIOUS
<1>1. /\ worker = "look" /\ worker' \in {"take", "wait"} /\ (worker' = "take" => queue' # <<>>)
      /\ UNCHANGED <<main, queue, matching, filling, event, taken>>
  BY DEF LookAtQueue
<1>2. Hashing' = Hashing /\ StopTaken' = StopTaken /\ StopQueued' = StopQueued
  BY <1>1 DEF Hashing, StopTaken, StopQueued
<1>3. StopInv'
  BY <1>1, <1>2 DEF IInv, StopInv, matching
<1> QED
  BY <1>1, <1>2, <1>3, QuietKeeps DEF LookAtQueue, filling, IInv, Shape, TypeOK

LEMMA WaitKeeps == IInv /\ WaitForEvent => IInv'
<1> SUFFICES ASSUME IInv, WaitForEvent PROVE IInv'
  OBVIOUS
<1>1. /\ worker = "wait" /\ worker' = "look" /\ event' = FALSE
      /\ UNCHANGED <<main, queue, matching, filling, taken>>
  BY DEF WaitForEvent
<1>2. Hashing' = Hashing /\ StopTaken' = StopTaken /\ StopQueued' = StopQueued
  BY <1>1 DEF Hashing, StopTaken, StopQueued
<1>3. StopInv'
  BY <1>1, <1>2 DEF IInv, StopInv, matching
<1> QED
  BY <1>1, <1>2, <1>3, QuietKeeps DEF WaitForEvent, filling, IInv, Shape, TypeOK

-----------------------------------------------------------------------------
\* A queued buffer is the next block of the new file.
LEMMA EnqueueQueues ==
  ASSUME Shape, ~StopQueued, NEW b \in Block, queue' = Append(queue, Data(b)),
         UNCHANGED <<files, hashing>>,
         NEW a \in Nat, HashedUpto(a), QueuedFrom(From(a)),
         From(a) + Queued * capacity <= Len(new),
         b = Piece(new, From(a) + Queued * capacity, capacity)
  PROVE  /\ HashedUpto(a)' /\ QueuedFrom(From(a))' /\ From(a)' = From(a)
         /\ ~StopQueued' /\ queue' \in Seq(Buffer)
         /\ (From(a) + Queued * capacity)' = From(a) + Queued * capacity + capacity
<1>1. /\ new' = new /\ capacity' = capacity /\ Hashing' = Hashing
      /\ UNCHANGED <<worker, taken, table, digested>>
  BY DEF files, hashing, Hashing
<1>2. Data(b) \in Buffer /\ ~Data(b).stop /\ queue \in Seq(Buffer)
  BY DEF Data, Buffer, Shape
<1>3. /\ queue' \in Seq(Buffer) /\ Len(queue') = Len(queue) + 1 /\ queue' # <<>>
      /\ \A i \in 1..Len(queue) : queue'[i] = queue[i]
      /\ queue'[Len(queue')] = Data(b)
  BY <1>2
<1>4. ~StopQueued'
  BY <1>2, <1>3 DEF StopQueued
<1>5. Queued = Len(queue) /\ Queued' = Queued + 1 /\ Queued \in Nat
  BY <1>2, <1>3, <1>4 DEF Queued
<1>6. From(a)' = From(a) /\ From(a) \in Nat /\ capacity \in Nat
  BY <1>1, Capacity, QueuedType DEF From
<1>7. HashedUpto(a)'
  BY <1>1 DEF HashedUpto
<1>8. (From(a) + Queued * capacity)' = From(a) + Queued * capacity + capacity
  <2>1. (Queued + 1) * capacity = Queued * capacity + capacity /\ Queued * capacity \in Nat
    BY <1>5, <1>6, NextMultiple
  <2> QED
    BY <1>1, <1>5, <1>6, <2>1
<1> DEFINE from == From(a)
<1>9. ASSUME NEW i \in 1..(Queued + 1)
      PROVE  /\ from + (i - 1) * capacity <= Len(new)
             /\ queue'[i] = Data(Piece(new, from + (i - 1) * capacity, capacity))
  <2>1. CASE i = Queued + 1
    <3>1. i - 1 = Queued /\ queue'[i] = Data(b)
      BY <1>3, <1>5, <2>1
    <3> QED
      BY <3>1
  <2>2. CASE i # Queued + 1
    <3>1. i \in 1..Queued
      BY <1>5, <2>2
    <3>2. queue'[i] = queue[i]
      BY <1>3, <1>5, <3>1
    <3> QED
      BY <3>1, <3>2 DEF QueuedFrom
  <2> QED
    BY <2>1, <2>2
<1> HIDE DEF from
<1>10. QueuedFrom(from)'
  BY <1>1, <1>5, <1>6, <1>9 DEF QueuedFrom, from
<1> QED
  BY <1>3, <1>4, <1>6, <1>7, <1>8, <1>10 DEF from

\* add_byte and add_block: bytes move from what was read into new_buffer.
Moves(file, at, nb, lu, n) ==
  /\ Piece(file, at, nb) \o Piece(Piece(file, at + nb, lu), 0, n) = Piece(file, at, nb + n)
  /\ Piece(file, at, nb + n) \in Seq(Bytes) /\ Len(Piece(file, at, nb + n)) = nb + n
  /\ SubSeq(Piece(file, at + nb, lu), n + 1, lu) = Piece(file, at + nb + n, lu - n)
  /\ Piece(file, at + nb + n, lu - n) \in Seq(Bytes)
  /\ Len(Piece(file, at + nb + n, lu - n)) = lu - n

LEMMA StoreIs ==
  ASSUME NEW file \in Seq(Bytes), NEW at \in Nat, NEW nb \in Nat, NEW lu \in Nat,
         NEW n \in Nat, n <= lu, at + nb + lu <= Len(file)
  PROVE  Moves(file, at, nb, lu, n)
<1>1. at + nb <= Len(file)
  OBVIOUS
<1>2. Piece(file, at, nb) \o Piece(file, at + nb, n) = Piece(file, at, nb + n)
  BY <1>1, PiecesJoin, Zenon
<1>3. at + nb \in Nat /\ (at + nb) + lu <= Len(file)
  OBVIOUS
<1>4. /\ Piece(Piece(file, at + nb, lu), 0, n) = Piece(file, at + nb, n)
      /\ SubSeq(Piece(file, at + nb, lu), n + 1, lu) = Piece(file, at + nb + n, lu - n)
  <2> SUFFICES ASSUME NEW from \in Nat, from = at + nb, from + lu <= Len(file)
      PROVE  /\ Piece(Piece(file, from, lu), 0, n) = Piece(file, from, n)
             /\ SubSeq(Piece(file, from, lu), n + 1, lu) = Piece(file, from + n, lu - n)
    BY <1>3, Zenon
  <2> QED
    BY PieceOfPiece
<1>5. nb + n \in Nat /\ at + (nb + n) <= Len(file)
  OBVIOUS
<1>6. Piece(file, at, nb + n) \in Seq(Bytes) /\ Len(Piece(file, at, nb + n)) = nb + n
  BY <1>5, PieceFits, Zenon
<1>7. at + nb + n \in Nat /\ lu - n \in Nat /\ (at + nb + n) + (lu - n) <= Len(file)
  OBVIOUS
<1>8. /\ Piece(file, at + nb + n, lu - n) \in Seq(Bytes)
      /\ Len(Piece(file, at + nb + n, lu - n)) = lu - n
  BY <1>7, PieceFits, Zenon
<1> QED
  BY <1>2, <1>4, <1>6, <1>8, Zenon DEF Moves

LEMMA SmallerIs ==
  ASSUME NEW a \in Nat, NEW b \in Nat
  PROVE  SmallerOf(a, b) \in Nat /\ SmallerOf(a, b) <= a /\ SmallerOf(a, b) <= b
  BY DEF SmallerOf

LEMMA StoreBytesKeeps == IInv /\ StoreBytes => IInv'
<1> SUFFICES ASSUME IInv, StoreBytes PROVE IInv'
  OBVIOUS
<1> DEFINE nb == Len(newBuffer)
           lu == Len(unstored)
           n  == SmallerOf(capacity - nb, lu)
           b  == newBuffer \o Piece(unstored, 0, n)
<1>1. /\ unstored # <<>> /\ UNCHANGED <<files, main, matching, event, hashing>>
      /\ unstored' = SubSeq(unstored, n + 1, lu)
      /\ IF Len(b) = capacity
           THEN MutexFree /\ queue' = Append(queue, Data(b)) /\ newBuffer' = <<>> /\ signalDue' = TRUE
           ELSE newBuffer' = b /\ UNCHANGED <<signalDue, queue>>
  BY DEF StoreBytes, Enqueue
<1>2. /\ capacity \in Nat \ {0} /\ new \in Seq(Bytes) /\ Len(new) \in Nat
      /\ nb \in Nat /\ lu \in Nat /\ nb < capacity /\ position \in 0..Len(new)
  BY Capacity DEF IInv, Shape, TypeOK, Block
<1>3. PICK a \in Nat : HandedOver(a)
  BY DEF IInv, QueueInv
<1> DEFINE at == From(a) + Queued * capacity
<1>4. at \in Nat
  BY QueuedType DEF IInv
<1>5. /\ HashedUpto(a) /\ QueuedFrom(From(a)) /\ FilledFrom(at)
  BY <1>3 DEF HandedOver
<1>6. /\ main \in {"start", "run"}
      /\ newBuffer = Piece(new, at, nb) /\ unstored = Piece(new, at + nb, lu)
      /\ position = at + nb + lu
  BY <1>1, <1>5 DEF FilledFrom
<1> HIDE DEF at, nb, lu
<1>7. n \in Nat /\ n <= lu /\ nb + n <= capacity
  <2>1. capacity - nb \in Nat
    BY <1>2
  <2> HIDE DEF n
  <2>2. n \in Nat /\ n <= capacity - nb /\ n <= lu
    BY <1>2, <2>1, SmallerIs DEF n
  <2> QED
    BY <1>2, <2>2
<1> HIDE DEF n
<1>8. at + nb + lu <= Len(new)
  BY <1>2, <1>6
<1>9. /\ b = Piece(new, at, nb + n) /\ b \in Seq(Bytes) /\ Len(b) = nb + n
      /\ unstored' = Piece(new, at + nb + n, lu - n)
      /\ unstored' \in Seq(Bytes) /\ Len(unstored') = lu - n
  <2>0. /\ new \in Seq(Bytes) /\ at \in Nat /\ nb \in Nat /\ lu \in Nat /\ n \in Nat
        /\ n <= lu /\ at + nb + lu <= Len(new)
    BY <1>2, <1>4, <1>7, <1>8
  <2>1. Moves(new, at, nb, lu, n)
    BY <2>0, StoreIs
  <2>2. b = Piece(new, at, nb + n) /\ unstored' = Piece(new, at + nb + n, lu - n)
    BY <1>1, <1>6, <2>1, Zenon DEF Moves, b
  <2> QED
    BY <2>1, <2>2, Zenon DEF Moves
<1> HIDE DEF b
<1>10. Matched'
  BY <1>1, MatchedSame DEF IInv
<1>11. /\ new' = new /\ capacity' = capacity /\ main' = main /\ position' = position
       /\ UNCHANGED <<worker, taken, table, digested>> /\ Hashing' = Hashing
       /\ StopTaken' = StopTaken
  BY <1>1 DEF files, matching, hashing, Hashing, StopTaken
<1>12. ~StopQueued /\ ~StopTaken
  BY <1>6 DEF IInv, StopInv
<1>13. CASE Len(b) = capacity
  <2>1. /\ queue' = Append(queue, Data(b)) /\ newBuffer' = <<>> /\ signalDue' = TRUE
    BY <1>1, <1>13
  <2>2. nb + n = capacity /\ at <= Len(new)
    BY <1>2, <1>4, <1>8, <1>9, <1>13
  <2>3. b \in Block /\ b = Piece(new, at, capacity)
    BY <1>9, <2>2 DEF Block
  <2>4. /\ HashedUpto(a)' /\ QueuedFrom(From(a))' /\ From(a)' = From(a)
        /\ ~StopQueued' /\ queue' \in Seq(Buffer)
        /\ (From(a) + Queued * capacity)' = at + capacity
    BY <1>1, <1>5, <1>12, <2>1, <2>2, <2>3, EnqueueQueues DEF IInv, at
  <2>5. /\ newBuffer' = Piece(new, at + capacity, Len(newBuffer'))
        /\ unstored' = Piece(new, at + capacity + Len(newBuffer'), Len(unstored'))
        /\ position = at + capacity + Len(newBuffer') + Len(unstored')
    <3>1. at + nb + n = at + capacity /\ at + capacity \in Nat
          /\ position = at + capacity + (lu - n) /\ at + capacity + 0 = at + capacity
      BY <1>2, <1>4, <1>6, <1>7, <2>2
    <3>2. Piece(new, at + capacity, 0) = <<>>
      BY <1>2, <3>1 DEF Piece, SmallerOf
    <3>3. Len(newBuffer') = 0
      BY <2>1
    <3> QED
      BY <1>9, <2>1, <3>1, <3>2, <3>3, Zenon
  <2>6. FilledFrom(From(a) + Queued * capacity)'
    BY <1>6, <1>11, <2>4, <2>5 DEF FilledFrom
  <2>7. QueueInv'
    BY <2>4, <2>6 DEF QueueInv, HandedOver
  <2>8. StopInv'
    BY <1>6, <1>11, <1>12, <2>1, <2>4 DEF IInv, StopInv, Shape
  <2>9. Shape'
    BY <1>1, <1>2, <1>9, <2>1, <2>4 DEF IInv, Shape, TypeOK, Block, files, matching, hashing
  <2> QED
    BY <1>10, <2>7, <2>8, <2>9 DEF IInv
<1>14. CASE Len(b) # capacity
  <2>1. newBuffer' = b /\ UNCHANGED <<signalDue, queue>>
    BY <1>1, <1>14
  <2>2. UNCHANGED <<files, queue, taken, table, digested>>
    BY <1>1, <1>11, <2>1
  <2>3. /\ HashedUpto(a)' /\ From(a)' = From(a) /\ Queued' = Queued
        /\ (StopQueued' <=> StopQueued)
    BY <1>5, <1>11, <2>2, SameQueue
  <2>4. QueuedFrom(From(a))'
    BY <1>5, <1>11, <2>2, <2>3 DEF QueuedFrom
  <2>5. (From(a) + Queued * capacity)' = at
    BY <1>11, <2>3 DEF at
  <2>6. /\ newBuffer' = Piece(new, at, Len(newBuffer'))
        /\ unstored' = Piece(new, at + Len(newBuffer'), Len(unstored'))
        /\ position = at + Len(newBuffer') + Len(unstored')
    <3>1. at + nb + n = at + (nb + n) /\ position = at + (nb + n) + (lu - n)
      BY <1>2, <1>4, <1>6, <1>7
    <3> QED
      BY <1>9, <2>1, <3>1, Zenon
  <2>7. FilledFrom(From(a) + Queued * capacity)'
    BY <1>6, <1>11, <2>5, <2>6 DEF FilledFrom
  <2>8. QueueInv'
    BY <2>3, <2>4, <2>7 DEF QueueInv, HandedOver
  <2>9. StopInv'
    BY <1>6, <1>11, <1>12, <2>1, <2>3 DEF IInv, StopInv
  <2>10. Shape'
    <3>1. Len(newBuffer') < capacity /\ newBuffer' \in Seq(Bytes)
      BY <1>2, <1>7, <1>9, <1>14, <2>1
    <3> QED
      BY <1>1, <1>2, <1>9, <2>1, <3>1
         DEF IInv, Shape, TypeOK, Block, files, matching, hashing
  <2> QED
    BY <1>10, <2>8, <2>9, <2>10 DEF IInv
<1> QED
  BY <1>13, <1>14

LEMMA ForceBufferKeeps == IInv /\ ForceBuffer => IInv'
<1> SUFFICES ASSUME IInv, ForceBuffer PROVE IInv'
  OBVIOUS
<1> DEFINE nb == Len(newBuffer)
<1>1. /\ main = "run" /\ main' = "stop" /\ state = "Final" /\ unstored = <<>>
      /\ queue' = Append(queue, Data(newBuffer)) /\ newBuffer' = <<>> /\ signalDue' = TRUE
      /\ UNCHANGED <<files, matching, unstored, event, hashing>>
  BY DEF ForceBuffer, Enqueue
<1>2. /\ capacity \in Nat \ {0} /\ new \in Seq(Bytes) /\ Len(new) \in Nat
      /\ newBuffer \in Block /\ nb \in Nat /\ nb < capacity
  BY Capacity DEF IInv, Shape, TypeOK, Block
<1>3. PICK a \in Nat : HandedOver(a)
  BY DEF IInv, QueueInv
<1> DEFINE at == From(a) + Queued * capacity
<1>4. at \in Nat
  BY QueuedType DEF IInv
<1>5. /\ HashedUpto(a) /\ QueuedFrom(From(a)) /\ FilledFrom(at)
  BY <1>3 DEF HandedOver
<1>6. newBuffer = Piece(new, at, nb) /\ position = at + nb + Len(unstored)
      /\ position = Len(new)
  BY <1>1, <1>5 DEF FilledFrom, IInv, Matched, WindowInv
<1> HIDE DEF at, nb
<1>7. at + nb = Len(new)
  <2>1. Len(unstored) = 0
    BY <1>1
  <2> QED
    BY <1>2, <1>4, <1>6, <2>1
<1>8. at <= Len(new) /\ at + nb >= Len(new) /\ at + capacity >= Len(new) /\ at + capacity > Len(new)
  BY <1>2, <1>4, <1>7
<1>9. newBuffer = Piece(new, at, capacity)
  <2>1. Piece(new, at, nb) = Piece(new, at, capacity)
    BY <1>2, <1>4, <1>8, PieceToEnd
  <2> QED
    BY <1>6, <2>1
<1>10. ~StopQueued /\ ~StopTaken
  BY <1>1 DEF IInv, StopInv
<1>11. /\ HashedUpto(a)' /\ QueuedFrom(From(a))' /\ From(a)' = From(a)
       /\ ~StopQueued' /\ queue' \in Seq(Buffer)
       /\ (From(a) + Queued * capacity)' = at + capacity
  BY <1>1, <1>2, <1>5, <1>8, <1>9, <1>10, EnqueueQueues DEF IInv, at
<1>12. FilledFrom(From(a) + Queued * capacity)'
  BY <1>1, <1>8, <1>11 DEF FilledFrom, files
<1>13. QueueInv'
  BY <1>11, <1>12 DEF QueueInv, HandedOver
<1>14. Matched'
  BY <1>1, MatchedSame DEF IInv
<1>15. StopInv'
  <2>1. ~StopTaken' /\ queue' # <<>> /\ state' = "Final"
    BY <1>1, <1>10 DEF StopTaken, hashing, matching, IInv, Shape
  <2> QED
    BY <1>1, <1>11, <2>1 DEF StopInv
<1>16. Shape'
  <2>1. <<>> \in Seq(Bytes) /\ Len(<<>>) < capacity
    BY <1>2
  <2> QED
    BY <1>1, <1>2, <1>11, <2>1 DEF IInv, Shape, TypeOK, Block, files, matching, hashing
<1> QED
  BY <1>13, <1>14, <1>15, <1>16 DEF IInv

LEMMA PushStopKeeps == IInv /\ PushStop => IInv'
<1> SUFFICES ASSUME IInv, PushStop PROVE IInv'
  OBVIOUS
<1>1. /\ main = "stop" /\ main' = "join" /\ UNCHANGED <<files, matching, filling, event, hashing>>
      /\ queue' = Append(queue, Stop) \/ UNCHANGED queue
  BY DEF PushStop
<1>2. ~StopQueued /\ ~StopTaken
  BY <1>1 DEF IInv, StopInv
<1>3. queue \in Seq(Buffer) /\ Stop \in Buffer /\ Stop.stop
  BY DEF IInv, Shape, Stop, Buffer, Block
<1>4. /\ queue' \in Seq(Buffer) /\ (queue # <<>> => queue' # <<>>)
      /\ Queued' = Queued /\ \A i \in 1..Queued : queue'[i] = queue[i]
  <2>1. CASE queue' = Append(queue, Stop)
    <3>1. /\ queue' \in Seq(Buffer) /\ Len(queue') = Len(queue) + 1 /\ queue' # <<>>
          /\ \A i \in 1..Len(queue) : queue'[i] = queue[i]
          /\ queue'[Len(queue')] = Stop
      BY <1>3, <2>1
    <3>2. StopQueued'
      BY <1>3, <3>1 DEF StopQueued
    <3> QED
      BY <1>2, <1>3, <3>1, <3>2 DEF Queued
  <2>2. CASE UNCHANGED queue
    BY <1>3, <2>2 DEF Queued, StopQueued
  <2> QED
    BY <1>1, <2>1, <2>2
<1>5. /\ new' = new /\ capacity' = capacity /\ UNCHANGED <<worker, taken, table, digested>>
      /\ Hashing' = Hashing /\ StopTaken' = StopTaken
  BY <1>1 DEF files, hashing, Hashing, StopTaken
<1>6. PICK a \in Nat : HandedOver(a)
  BY DEF IInv, QueueInv
<1>7. HashedUpto(a)' /\ From(a)' = From(a)
  BY <1>5, <1>6 DEF HandedOver, HashedUpto, From
<1>8. QueuedFrom(From(a))'
  BY <1>4, <1>5, <1>6, <1>7 DEF HandedOver, QueuedFrom
<1>9. FilledFrom(From(a) + Queued * capacity)'
  BY <1>1, <1>4, <1>5, <1>6, <1>7 DEF HandedOver, FilledFrom, filling
<1>10. QueueInv'
  BY <1>7, <1>8, <1>9 DEF QueueInv, HandedOver
<1>11. Matched'
  BY <1>1, MatchedSame DEF IInv
<1>12. StopInv'
  BY <1>1, <1>2, <1>4, <1>5 DEF IInv, StopInv, matching
<1>13. Shape'
  BY <1>1, <1>4, <1>5 DEF IInv, Shape, TypeOK, files, matching, filling
<1> QED
  BY <1>10, <1>11, <1>12, <1>13 DEF IInv

-----------------------------------------------------------------------------
LEMMA HashBufferKeeps == IInv /\ HashBuffer => IInv'
<1> SUFFICES ASSUME IInv, HashBuffer PROVE IInv'
  OBVIOUS
<1>1. /\ worker = "hash" /\ UNCHANGED <<files, main, matching, filling, queue, event, taken>>
      /\ IF taken.stop
           THEN worker' = "ended" /\ UNCHANGED <<table, digested>>
           ELSE /\ worker' = "look"
                /\ table' = table \cup {[file_offset |-> Len(digested), hash |-> taken.data]}
                /\ digested' = digested \o taken.data
  BY DEF HashBuffer
<1>2. CASE taken.stop
  <2>1. worker' = "ended" /\ UNCHANGED <<table, digested>>
    BY <1>1, <1>2
  <2>2. ~Hashing /\ ~Hashing' /\ StopTaken /\ StopTaken' /\ StopQueued' = StopQueued
    BY <1>1, <1>2, <2>1 DEF Hashing, StopTaken, StopQueued
  <2>3. StopInv'
    BY <1>1, <2>1, <2>2 DEF IInv, StopInv, matching
  <2>4. UNCHANGED <<files, matching, unstored, newBuffer, queue, taken, table, digested>>
    BY <1>1, <2>1 DEF filling
  <2>5. /\ main' = main /\ main \in {"start", "run", "stop", "join", "done"}
        /\ signalDue' \in BOOLEAN /\ event' \in BOOLEAN
    BY <1>1 DEF filling, IInv, Shape, TypeOK
  <2>6. Hashing' = Hashing
    BY <1>1, <1>2 DEF Hashing
  <2> QED
    BY <2>1, <2>3, <2>4, <2>5, <2>6, QuietKeeps
<1>3. CASE ~taken.stop
  <2>1. /\ worker' = "look" /\ Hashing /\ ~Hashing' /\ ~StopTaken /\ ~StopTaken'
        /\ table' = table \cup {[file_offset |-> Len(digested), hash |-> taken.data]}
        /\ digested' = digested \o taken.data
    BY <1>1, <1>3 DEF Hashing, StopTaken
  <2>2. new' = new /\ capacity' = capacity /\ Queued' = Queued /\ (StopQueued' <=> StopQueued)
    BY <1>1 DEF files, Queued, StopQueued
  <2>3. capacity \in Nat \ {0} /\ new \in Seq(Bytes) /\ Len(new) \in Nat
    BY Capacity DEF IInv
  <2>4. PICK a \in Nat : HandedOver(a)
    BY DEF IInv, QueueInv
  <2>5. /\ a % capacity = 0 /\ digested = Piece(new, 0, a)
        /\ table = {[file_offset |-> o, hash |-> Piece(new, o, capacity)] :
                      o \in {k \in 0..Len(new) : k % capacity = 0 /\ k < a}}
        /\ a <= Len(new) /\ taken = Data(Piece(new, a, capacity))
    BY <2>1, <2>4 DEF HandedOver, HashedUpto
  <2>0. PICK b \in Nat : b = a + capacity
    BY <2>3
  <2>6. b % capacity = 0
    <3>1. capacity % capacity = 0
      BY <2>3
    <3> QED
      BY <2>0, <2>3, <2>5, <3>1, Multiples
  <2>7. taken.data = Piece(new, a, capacity)
    BY <2>5 DEF Data
  <2>8. Len(digested) = a /\ digested' = Piece(new, 0, b)
    <3>1. Len(Piece(new, 0, a)) = a
      BY <2>3, <2>5 DEF Piece, SmallerOf
    <3>2. Piece(new, 0, a) \o Piece(new, a, capacity) = Piece(new, 0, b)
      BY <2>0, <2>3, <2>5, PiecesJoinFirst
    <3> QED
      BY <2>1, <2>5, <2>7, <3>1, <3>2
  <2>9. {k \in 0..Len(new) : k % capacity = 0 /\ k < b} =
          {k \in 0..Len(new) : k % capacity = 0 /\ k < a} \cup {a}
    <3>1. ASSUME NEW k \in 0..Len(new), k % capacity = 0, k < b, ~(k < a)
          PROVE  k = a
      BY <2>0, <2>3, <2>5, <3>1, Multiples
    <3> QED
      BY <2>0, <2>3, <2>5, <3>1
  <2>10. table' = {[file_offset |-> o, hash |-> Piece(new, o, capacity)] :
                     o \in {k \in 0..Len(new) : k % capacity = 0 /\ k < b}}
    BY <2>1, <2>5, <2>7, <2>8, <2>9
  <2>11. HashedUpto(b)'
    BY <2>1, <2>2, <2>6, <2>8, <2>10 DEF HashedUpto
  <2>12. From(b)' = From(a)
    BY <2>0, <2>1, <2>2, <2>3 DEF From
  <2>13. QueuedFrom(From(b))'
    BY <1>1, <2>2, <2>4, <2>12 DEF HandedOver, QueuedFrom
  <2>14. FilledFrom(From(b) + Queued * capacity)'
    BY <1>1, <2>2, <2>4, <2>12 DEF HandedOver, FilledFrom, filling, matching
  <2>20. HandedOver(b)'
    BY <2>11, <2>13, <2>14 DEF HandedOver
  <2>15. QueueInv'
    BY <2>20 DEF QueueInv
  <2>16. Matched'
    BY <1>1, MatchedSame DEF IInv
  <2>17. StopInv'
    BY <1>1, <2>1, <2>2 DEF IInv, StopInv, matching
  <2>18. digested' \in Block
    BY <2>3, <2>6, <2>8, PieceType DEF Block
  <2>19. Shape'
    BY <1>1, <2>1, <2>18 DEF IInv, Shape, TypeOK, files, matching, filling
  <2> QED
    BY <2>15, <2>16, <2>17, <2>19 DEF IInv
<1> QED
  BY <1>2, <1>3

LEMMA TakeBufferKeeps == IInv /\ TakeBuffer => IInv'
<1> SUFFICES ASSUME IInv, TakeBuffer PROVE IInv'
  OBVIOUS
<1>1. /\ worker = "take" /\ worker' = "hash"
      /\ taken' = Head(queue) /\ queue' = Tail(queue)
      /\ UNCHANGED <<files, main, matching, filling, event, table, digested>>
  BY DEF TakeBuffer
<1>2. /\ capacity \in Nat \ {0} /\ new \in Seq(Bytes) /\ Len(new) \in Nat
      /\ queue \in Seq(Buffer) /\ queue # <<>>
  BY <1>1, Capacity DEF IInv, Shape, StopInv
<1>3. /\ Head(queue) = queue[1] /\ Head(queue) \in Buffer
      /\ Tail(queue) \in Seq(Buffer) /\ Len(Tail(queue)) = Len(queue) - 1
      /\ \A i \in 1..(Len(queue) - 1) : Tail(queue)[i] = queue[i + 1]
      /\ Len(queue) \in Nat \ {0}
  BY <1>2
<1>4. PICK a \in Nat : HandedOver(a)
  BY DEF IInv, QueueInv
<1>5. ~Hashing /\ ~StopTaken /\ From(a) = a
  BY <1>1, <1>4 DEF Hashing, StopTaken, From
<1>6. HashedUpto(a) /\ QueuedFrom(a) /\ FilledFrom(a + Queued * capacity)
  BY <1>4, <1>5 DEF HandedOver
<1>7. new' = new /\ capacity' = capacity /\ UNCHANGED <<table, digested>>
  BY <1>1 DEF files
<1>8. Matched'
  BY <1>1, MatchedSame DEF IInv
<1>9. Shape'
  BY <1>1, <1>3 DEF IInv, Shape, TypeOK, files, matching, filling
<1>10. CASE Head(queue).stop
  <2>1. Queued = 0 /\ Len(queue) = 1 /\ StopQueued
    <3>1. 1 \notin 1..Queued
      <4>1. SUFFICES ASSUME 1 \in 1..Queued PROVE FALSE
        OBVIOUS
      <4>2. \E b : queue[1] = Data(b)
        BY <4>1, <1>6 DEF QueuedFrom
      <4> QED
        BY <4>2, <1>3, <1>10 DEF Data
    <3>2. Queued \in Nat
      BY QueuedType DEF IInv
    <3>3. Queued = 0
      BY <3>1, <3>2
    <3> QED
      BY <1>3, <3>3 DEF Queued
  <2>2. queue' = <<>> /\ ~StopQueued' /\ Queued' = 0
    <3>1. queue' = <<>>
      BY <1>1, <1>3, <2>1
    <3> QED
      BY <3>1 DEF Queued, StopQueued
  <2>3. ~Hashing' /\ StopTaken' /\ From(a)' = a
    BY <1>1, <1>3, <1>10 DEF Hashing, StopTaken, From
  <2>4. HashedUpto(a)'
    BY <1>6, <1>7, <2>3 DEF HashedUpto
  <2>5. QueuedFrom(From(a))'
    BY <2>2 DEF QueuedFrom
  <2>6. FilledFrom(From(a) + Queued * capacity)'
    BY <1>1, <1>6, <1>7, <2>1, <2>2, <2>3 DEF FilledFrom, filling, matching
  <2>7. HandedOver(a)'
    BY <2>4, <2>5, <2>6 DEF HandedOver
  <2>8. QueueInv'
    BY <2>7 DEF QueueInv
  <2>9. StopInv'
    BY <1>1, <2>1, <2>2, <2>3 DEF IInv, StopInv, matching
  <2> QED
    BY <1>8, <1>9, <2>8, <2>9 DEF IInv
<1>11. CASE ~Head(queue).stop
  <2>1. Hashing' /\ ~StopTaken' /\ From(a)' = a + capacity
    BY <1>1, <1>2, <1>7, <1>11 DEF Hashing, StopTaken, From
  <2>2. /\ Queued \in Nat \ {0} /\ (StopQueued' <=> StopQueued)
        /\ Queued' = Queued - 1
    <3>1. CASE Len(queue) = 1
      <4>1. ~StopQueued /\ ~StopQueued'
        BY <1>1, <1>2, <1>3, <1>11, <3>1 DEF StopQueued
      <4>2. Len(queue') = 0
        BY <1>1, <1>3, <3>1
      <4> QED
        BY <3>1, <4>1, <4>2 DEF Queued
    <3>2. CASE Len(queue) # 1
      <4>1. Len(queue) - 1 \in 1..(Len(queue) - 1) /\ Len(queue) - 1 + 1 = Len(queue)
        BY <1>3, <3>2
      <4>2. Len(queue') = Len(queue) - 1 /\ queue'[Len(queue')] = queue[Len(queue)]
        BY <1>1, <1>3, <4>1
      <4>3. queue' # <<>>
        BY <1>3, <4>1, <4>2
      <4>4. StopQueued' <=> StopQueued
        BY <1>2, <4>2, <4>3 DEF StopQueued
      <4> QED
        BY <1>3, <4>2, <4>1, <4>4 DEF Queued
    <3> QED
      BY <3>1, <3>2
  <2>3. a <= Len(new) /\ queue[1] = Data(Piece(new, a, capacity))
    <3>1. PICK i \in 1..Queued : i = 1
      BY <2>2
    <3>2. /\ a + (i - 1) * capacity <= Len(new)
          /\ queue[i] = Data(Piece(new, a + (i - 1) * capacity, capacity))
      BY <1>6 DEF QueuedFrom
    <3>3. a + (i - 1) * capacity = a
      BY <1>2, <3>1
    <3> QED
      BY <3>1, <3>2, <3>3
  <2>4. HashedUpto(a)'
    BY <1>1, <1>3, <1>6, <1>7, <2>3 DEF HashedUpto
  <2>5. ASSUME NEW i \in 1..(Queued - 1)
        PROVE  /\ (a + capacity) + (i - 1) * capacity <= Len(new)
               /\ queue'[i] = Data(Piece(new, (a + capacity) + (i - 1) * capacity, capacity))
    <3>0. Queued <= Len(queue)
      BY QueuedType DEF IInv
    <3>1. i + 1 \in 1..Queued /\ i - 1 \in Nat /\ i \in 1..(Len(queue) - 1)
      BY <1>3, <2>2, <3>0
    <3>2. (a + capacity) + (i - 1) * capacity = a + ((i + 1) - 1) * capacity
      <4>1. ((i - 1) + 1) * capacity = (i - 1) * capacity + capacity
            /\ (i - 1) * capacity \in Nat
        BY <1>2, <3>1, NextMultiple
      <4> QED
        BY <1>2, <3>1, <4>1
    <3>3. queue'[i] = queue[i + 1]
      BY <1>1, <1>3, <3>1
    <3> QED
      BY <1>6, <3>1, <3>2, <3>3 DEF QueuedFrom
  <2>6. QueuedFrom(From(a))'
    BY <1>7, <2>1, <2>2, <2>5 DEF QueuedFrom
  <2>7. (From(a) + Queued * capacity)' = a + Queued * capacity
    <3>1. Queued - 1 \in Nat
      BY <2>2
    <3>2. ((Queued - 1) + 1) * capacity = (Queued - 1) * capacity + capacity
          /\ (Queued - 1) * capacity \in Nat
      BY <1>2, <3>1, NextMultiple
    <3>3. (Queued - 1) + 1 = Queued
      BY <2>2
    <3>4. Queued * capacity = (Queued - 1) * capacity + capacity
      BY <3>2, <3>3
    <3>5. (From(a) + Queued * capacity)' = a + capacity + (Queued - 1) * capacity
      BY <1>7, <2>1, <2>2
    <3> QED
      BY <1>2, <3>2, <3>4, <3>5
  <2>8. FilledFrom(From(a) + Queued * capacity)'
    BY <1>1, <1>6, <1>7, <2>7 DEF FilledFrom, filling, matching
  <2>9. HandedOver(a)'
    BY <2>4, <2>6, <2>8 DEF HandedOver
  <2>10. QueueInv'
    BY <2>9 DEF QueueInv
  <2>11. StopInv'
    BY <1>1, <2>1, <2>2 DEF IInv, StopInv, matching
  <2> QED
    BY <1>8, <1>9, <2>10, <2>11 DEF IInv
<1> QED
  BY <1>10, <1>11
LEMMA StutterKeeps == IInv /\ UNCHANGED vars => IInv'
<1> SUFFICES ASSUME IInv, UNCHANGED vars PROVE IInv'
  OBVIOUS
<1>1. /\ UNCHANGED <<files, main, matching, unstored, newBuffer, signalDue, queue, event>>
      /\ UNCHANGED <<worker, taken, table, digested>>
  BY DEF vars, filling, hashing
<1>2. Hashing' = Hashing /\ StopTaken' = StopTaken /\ StopQueued' = StopQueued
  BY <1>1 DEF Hashing, StopTaken, StopQueued
<1>3. StopInv'
  BY <1>1, <1>2 DEF IInv, StopInv, matching
<1>4. /\ main' \in {"start", "run", "stop", "join", "done"}
      /\ worker' \in {"none", "look", "take", "wait", "hash", "ended"}
      /\ signalDue' \in BOOLEAN /\ event' \in BOOLEAN
  BY <1>1 DEF IInv, Shape, TypeOK
<1> QED
  BY <1>1, <1>2, <1>3, <1>4, QuietKeeps

LEMMA NextKeeps == IInv /\ [Next]_vars => IInv'
BY CreateWorkerKeeps, InitialKeeps, MatchingKeeps, NonMatchingKeeps, StoreBytesKeeps,
   SetEventKeeps, ForceBufferKeeps, PushStopKeeps, JoinKeeps, LookKeeps, TakeBufferKeeps,
   WaitKeeps, HashBufferKeeps, StutterKeeps
   DEF Next, Process, Thread

-----------------------------------------------------------------------------
LEMMA InitKeeps == Init => IInv
<1> SUFFICES ASSUME Init PROVE IInv
  OBVIOUS
<1>1. /\ capacity \in Nat \ {0} /\ capacity \in NewBlockSizes
      /\ main = "start" /\ state = "Initial"
      /\ position = 0 /\ buffer = <<>> /\ newOffset = 0 /\ result = <<>>
      /\ unstored = <<>> /\ newBuffer = <<>> /\ signalDue = FALSE
      /\ queue = <<>> /\ event = FALSE
      /\ worker = "none" /\ taken = Stop /\ table = {} /\ digested = <<>>
  BY FileComparerAssumption DEF Init
<1>2. old \in Block /\ new \in Block /\ Len(new) \in Nat
  <2>1. \A n \in Nat : BoundedSeq(Bytes, n) \subseteq Seq(Bytes)
    BY DEF BoundedSeq, SeqOf
  <2> QED
    BY <2>1, FileComparerAssumption DEF Init, Block
<1>3. <<>> \in Seq(Bytes) /\ <<>> \in Seq(Command) /\ <<>> \in Seq(Buffer) /\ Len(<<>>) = 0
  OBVIOUS
<1>4. Shape
  <2>1. taken \in Buffer
    BY <1>1, <1>3 DEF Block, Buffer, Stop
  <2>2. /\ digested \in Block /\ buffer \in Block /\ unstored \in Block
        /\ newBuffer \in Block /\ Len(newBuffer) < capacity
        /\ queue \in Seq(Buffer) /\ result \in Seq(Command)
    BY <1>1, <1>3 DEF Block
  <2>3. position \in 0..Len(new) /\ newOffset \in Nat
    BY <1>1, <1>2
  <2> QED
    BY <1>1, <1>2, <2>1, <2>2, <2>3 DEF Shape, TypeOK
<1>5. WindowInv
  BY <1>1 DEF WindowInv
<1>6. Good(result)
  BY <1>1, <1>3 DEF Good
<1>7. \A n \in Nat : n <= Len(new) => Piece(new, n, 0) = <<>>
  BY <1>2 DEF Piece, SmallerOf, Block
<1>8. Rebuilt
  <2>1. Commands = <<>>
    BY <1>1 DEF Commands
  <2> QED
    BY <1>1, <1>2, <1>7, <2>1, FlattenNone DEF Rebuilt
<1>9. StopInv
  BY <1>1 DEF StopInv, StopQueued, StopTaken
<1>10. ~Hashing /\ Queued = 0 /\ 0 \in Nat
  BY <1>1, <1>3 DEF Hashing, Queued, StopQueued
<1>11. HashedUpto(0)
  <2>1. {k \in 0..Len(new) : k % capacity = 0 /\ k < 0} = {}
    BY <1>2
  <2>2. 0 % capacity = 0
    BY <1>1
  <2> QED
    BY <1>1, <1>2, <1>7, <1>10, <2>1, <2>2 DEF HashedUpto
<1>12. From(0) = 0 /\ From(0) + Queued * capacity = 0
  BY <1>1, <1>10 DEF From
<1>13. QueuedFrom(0)
  BY <1>10 DEF QueuedFrom
<1>14. FilledFrom(0)
  BY <1>1, <1>2, <1>3, <1>7 DEF FilledFrom
<1>15. QueueInv
  BY <1>10, <1>11, <1>12, <1>13, <1>14 DEF QueueInv, HandedOver
<1> QED
  BY <1>4, <1>5, <1>6, <1>8, <1>9, <1>15 DEF IInv, Matched

LEMMA Invariant == Spec => []IInv
<1>1. Init => IInv
  BY InitKeeps
<1>2. IInv /\ [Next]_vars => IInv'
  BY NextKeeps
<1> QED
  BY <1>1, <1>2, PTL DEF Spec

-----------------------------------------------------------------------------
(***************************************************************************)
(* What follows.                                                           *)
(***************************************************************************)
\* The state machine and the hand-over of buffers stay within their types:
\* never more is read than the file has, and new_buffer never stays full
\* (FileComparer::add_block, read_more_data).
THEOREM TypeCorrect == Spec => []TypeOK
<1>1. IInv => TypeOK
  BY DEF IInv, Shape
<1> QED
  BY <1>1, Invariant, PTL

\* When the state machine has finished, the commands put the new file together
\* from blocks of the old one and bytes of the new one, whatever the two files
\* are and however their lengths and block sizes divide.
THEOREM Rebuilds == Spec => []CommandsRebuild
<1>1. IInv => CommandsRebuild
  BY DEF IInv, Matched, Rebuilt, CommandsRebuild
<1> QED
  BY <1>1, Invariant, PTL

\* No byte is given as new where a whole block of the old file begins: the
\* window looks at every offset that is not described as a copy.
THEOREM NoMatchIsMissed == Spec => []NoMatchMissed
<1>1. IInv => NoMatchMissed
  BY GoodIs DEF IInv, Matched, Shape, TypeOK
<1> QED
  BY <1>1, Invariant, PTL

\* Two copies in a row never could have been one: search prefers the block
\* behind the last one.
THEOREM RunsMerged == Spec => []RunsAreMerged
<1>1. IInv => RunsAreMerged
  BY GoodIs DEF IInv, Matched, Shape, TypeOK
<1> QED
  BY <1>1, Invariant, PTL

\* However the two threads interleave, and also when the stop sign races with
\* the thread, a thread that has ended has hashed the whole file in order, and
\* its table has every block of it.
THEOREM TableIsOfNewFile == Spec => []TableDescribesNewFile
<1>1. IInv => TableDescribesNewFile
  <2> SUFFICES ASSUME IInv, worker = "ended"
               PROVE  table = BlocksOf(new, capacity) /\ digested = new
    BY DEF TableDescribesNewFile
  <2>1. /\ StopTaken /\ ~Hashing /\ queue = <<>> /\ main \in {"join", "done"}
    BY DEF StopTaken, Hashing, IInv, StopInv
  <2>2. Queued = 0
    BY <2>1 DEF Queued, StopQueued
  <2>3. PICK a \in Nat : HandedOver(a)
    BY DEF IInv, QueueInv
  <2>4. capacity \in Nat \ {0} /\ new \in Seq(Bytes) /\ Len(new) \in Nat
    BY Capacity DEF IInv
  <2>5. From(a) + Queued * capacity = a
    BY <2>1, <2>2, <2>4 DEF From
  <2>6. a > Len(new) /\ HashedUpto(a)
    BY <2>1, <2>3, <2>5 DEF HandedOver, FilledFrom
  <2>7. digested = new
    BY <2>4, <2>6, PieceWhole DEF HashedUpto
  <2>8. {k \in 0..Len(new) : k % capacity = 0 /\ k < a} = {k \in 0..Len(new) : k % capacity = 0}
    BY <2>4, <2>6
  <2> QED
    BY <2>6, <2>7, <2>8 DEF HashedUpto, BlocksOf
<1> QED
  BY <1>1, Invariant, PTL
=============================================================================
