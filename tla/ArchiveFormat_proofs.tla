------------------------ MODULE ArchiveFormat_proofs ------------------------
(***************************************************************************)
(* What ArchiveReader reads is what ArchiveWriter was given, for archives  *)
(* of any size, buffers of any size and reads of any size.                 *)
(***************************************************************************)
EXTENDS ArchiveFormat, FiniteSetTheorems, SequenceTheorems, TLAPS

-----------------------------------------------------------------------------
(***************************************************************************)
(* Slices of a sequence, from behind position i to position j.             *)
(***************************************************************************)
Slice(b, i, j) == SubSeq(b, i + 1, j)

LEMMA SliceIs ==
  ASSUME NEW S, NEW b \in Seq(S), NEW i \in Nat, NEW j \in Nat, i <= j, j <= Len(b)
  PROVE  Slice(b, i, j) \in Seq(S) /\ Len(Slice(b, i, j)) = j - i
BY DEF Slice

LEMMA SliceEmpty ==
  ASSUME NEW S, NEW b \in Seq(S), NEW i \in Nat, NEW j \in Nat, i <= j, j <= Len(b)
  PROVE  Slice(b, i, j) = <<>> <=> i = j
BY DEF Slice

LEMMA SliceWhole ==
  ASSUME NEW S, NEW b \in Seq(S)
  PROVE  Slice(b, 0, Len(b)) = b
BY DEF Slice

LEMMA SliceJoin ==
  ASSUME NEW S, NEW b \in Seq(S), NEW i \in Nat, NEW j \in Nat, NEW k \in Nat,
         i <= j, j <= k, k <= Len(b)
  PROVE  Slice(b, i, j) \o Slice(b, j, k) = Slice(b, i, k)
BY DEF Slice

LEMMA SliceSlice ==
  ASSUME NEW S, NEW b \in Seq(S), NEW i \in Nat, NEW j \in Nat, i <= j, j <= Len(b),
         NEW m \in Nat, NEW n \in Nat, m <= n, n <= j - i
  PROVE  Slice(Slice(b, i, j), m, n) = Slice(b, i + m, i + n)
BY DEF Slice

LEMMA SliceFirst ==
  ASSUME NEW S, NEW b \in Seq(S), NEW i \in Nat, NEW j \in Nat, i < j, j <= Len(b)
  PROVE  /\ Head(Slice(b, i, j)) = b[i + 1]
         /\ Tail(Slice(b, i, j)) = Slice(b, i + 1, j)
BY DEF Slice

\* What is put behind a sequence leaves its slices alone.
LEMMA SliceExtended ==
  ASSUME NEW S, NEW b \in Seq(S), NEW x \in Seq(S), NEW i \in Nat, NEW j \in Nat,
         i <= j, j <= Len(b)
  PROVE  Slice(b \o x, i, j) = Slice(b, i, j)
BY DEF Slice

LEMMA SliceAdded ==
  ASSUME NEW S, NEW b \in Seq(S), NEW x \in Seq(S)
  PROVE  Slice(b \o x, Len(b), Len(b) + Len(x)) = x
BY DEF Slice

-----------------------------------------------------------------------------
(***************************************************************************)
(* What files are made of.                                                 *)
(***************************************************************************)
Manifests ==
  [ids : Seq(Nat), sizes : Seq(Nat), entries : Seq(Nat), entriesSize : Nat]

Byte == {"file", "object", "manifest"} \X (Nat \cup Manifests) \X Nat

PackedUnit  == ({"block"} \X Seq(Byte)) \cup {End}
HashedUnit  == PackedUnit \cup ({"length"} \X Nat)
ArchiveUnit == HashedUnit \cup ({"hash"} \X Seq(HashedUnit))

IsEncoder(en) ==
  /\ DOMAIN en = {"open", "action", "input", "pending", "out"}
  /\ en.action \in {"RUN", "FINISH"} /\ en.out \in Seq(PackedUnit)
  /\ en.input \in Seq(Byte) /\ en.pending \in Seq(Byte)

LEMMA BlockIs ==
  ASSUME NEW x \in Seq(Byte)
  PROVE  Block(x) \in PackedUnit /\ Block(x) # End /\ Block(x)[1] = "block" /\ Block(x)[2] = x
BY DEF Block, PackedUnit, End

LEMMA EndIs == End \in PackedUnit /\ End[1] = "end"
BY DEF End, PackedUnit

LEMMA BytesType ==
  ASSUME NEW kind \in {"file", "object", "manifest"}, NEW n \in Nat, NEW length \in Nat
  PROVE  Bytes(kind, n, length) \in Seq(Byte) /\ Len(Bytes(kind, n, length)) = length
<1>1. \A i \in 1..length : <<kind, n, i>> \in Byte
  BY DEF Byte
<1> QED
  BY <1>1 DEF Bytes

LEMMA SerializedIs ==
  ASSUME NEW man \in Manifests
  PROVE  /\ Serialized(man) \in Seq(Byte) /\ Serialized(man) # <<>>
         /\ Deserialized(Serialized(man)) = man
<1>1. \A i \in 1..2 : <<"manifest", man, i>> \in Byte
  BY DEF Byte
<1>2. Serialized(man) \in Seq(Byte) /\ Len(Serialized(man)) = 2
  BY <1>1 DEF Serialized
<1>3. Serialized(man)[1] = <<"manifest", man, 1>>
  BY DEF Serialized
<1> QED
  BY <1>2, <1>3 DEF Deserialized

-----------------------------------------------------------------------------
(***************************************************************************)
(* Packed streams.                                                         *)
(***************************************************************************)
\* The bytes b are those of the items s, which end at the positions e.
Splits(s, b, e) ==
  /\ b \in Seq(Byte) /\ e \in [0..Len(s) -> 0..Len(b)]
  /\ e[0] = 0 /\ e[Len(s)] = Len(b)
  /\ \A k \in 1..Len(s) : e[k - 1] <= e[k] /\ s[k] = Slice(b, e[k - 1], e[k])

\* The units of u behind i, up to j, are blocks of the bytes b up to the positions c.
Packs(u, i, j, b, c) ==
  /\ c \in [i..j -> 0..Len(b)] /\ c[i] = 0
  /\ \A k \in (i + 1)..j : c[k - 1] <= c[k] /\ u[k] = Block(Slice(b, c[k - 1], c[k]))

PacksTo(u, i, j, b, c, y) == Packs(u, i, j, b, c) /\ c[j] = y

\* An encoder that was opened when u had i units was given the items s: it has
\* packed some of their bytes, holds the next ones, p, and has yet to take the
\* last ones, r.
EncodingAs(p, r, u, i, s, b, e, c, x, a) ==
  /\ Splits(s, b, e) /\ Packs(u, i, Len(u), b, c)
  /\ c[Len(u)] = x /\ x \in Nat /\ a \in x..Len(b)
  /\ p = Slice(b, x, a) /\ r = Slice(b, a, Len(b))

Encoding(p, r, u, i, s) ==
  i \in 0..Len(u) /\ \E b, e, c, x, a : EncodingAs(p, r, u, i, s, b, e, c, x, a)

\* The units of u behind i, up to j, are the stream of the items s.
Streamed(u, i, j, s) ==
  /\ i \in Nat /\ j \in (i + 1)..Len(u) /\ u[j] = End
  /\ \E b, e, c : Splits(s, b, e) /\ Packs(u, i, j - 1, b, c) /\ c[j - 1] = Len(b)

LEMMA PacksKept ==
  ASSUME NEW u, NEW t, NEW i \in Nat, NEW j \in Nat, NEW b, NEW c, Packs(u, i, j, b, c),
         \A k \in 1..j : t[k] = u[k]
  PROVE  Packs(t, i, j, b, c)
<1>1. \A k \in (i + 1)..j : k \in 1..j
  OBVIOUS
<1> QED
  BY <1>1 DEF Packs

LEMMA StreamedKept ==
  ASSUME NEW u, NEW t, NEW i, NEW j, NEW s, Streamed(u, i, j, s),
         Len(u) \in Nat, Len(t) \in Nat, Len(u) <= Len(t), \A k \in 1..Len(u) : t[k] = u[k]
  PROVE  Streamed(t, i, j, s)
<1>1. PICK b, e, c : Splits(s, b, e) /\ Packs(u, i, j - 1, b, c) /\ c[j - 1] = Len(b)
  BY DEF Streamed
<1>2. /\ i \in Nat /\ j \in (i + 1)..Len(u) /\ u[j] = End /\ j - 1 \in Nat
      /\ j \in (i + 1)..Len(t) /\ \A k \in 1..(j - 1) : k \in 1..Len(u)
  BY DEF Streamed
<1>3. Packs(t, i, j - 1, b, c)
  BY <1>1, <1>2, PacksKept
<1>4. t[j] = End
  BY <1>2
<1> QED
  BY <1>1, <1>2, <1>3, <1>4 DEF Streamed

\* The encoder takes input, packs a block, ends a stream.
LEMMA AbsorbSlices ==
  ASSUME NEW b \in Seq(Byte), NEW x \in Nat, NEW a \in Nat, NEW n \in Nat,
         x <= a, a + n <= Len(b)
  PROVE  /\ Slice(Slice(b, a, Len(b)), n, Len(b) - a) = Slice(b, a + n, Len(b))
         /\ Slice(b, x, a) \o Slice(Slice(b, a, Len(b)), 0, n) = Slice(b, x, a + n)
<1>1. Slice(Slice(b, a, Len(b)), n, Len(b) - a) = Slice(b, a + n, a + (Len(b) - a))
  BY SliceSlice
<1>2. Slice(Slice(b, a, Len(b)), 0, n) = Slice(b, a + 0, a + n)
  BY SliceSlice
<1>3. Slice(b, x, a) \o Slice(b, a, a + n) = Slice(b, x, a + n)
  BY SliceJoin
<1>4. a + (Len(b) - a) = Len(b) /\ a + 0 = a
  OBVIOUS
<1> QED
  BY <1>1, <1>2, <1>3, <1>4

LEMMA PackSlices ==
  ASSUME NEW b \in Seq(Byte), NEW x \in Nat, NEW a \in Nat, NEW m \in Nat,
         x + m <= a, a <= Len(b)
  PROVE  /\ Slice(Slice(b, x, a), 0, m) = Slice(b, x, x + m)
         /\ Slice(Slice(b, x, a), m, a - x) = Slice(b, x + m, a)
<1>1. Slice(Slice(b, x, a), 0, m) = Slice(b, x + 0, x + m)
  BY SliceSlice
<1>2. Slice(Slice(b, x, a), m, a - x) = Slice(b, x + m, x + (a - x))
  BY SliceSlice
<1>3. x + 0 = x /\ x + (a - x) = a
  OBVIOUS
<1> QED
  BY <1>1, <1>2, <1>3

LEMMA EncodingAbsorb ==
  ASSUME NEW p, NEW r, NEW u, NEW i, NEW s, Encoding(p, r, u, i, s),
         NEW n \in Nat, n <= Len(r)
  PROVE  Encoding(p \o Slice(r, 0, n), Slice(r, n, Len(r)), u, i, s)
<1>1. i \in 0..Len(u)
  BY DEF Encoding
<1>20. PICK b, e, c, x, a : EncodingAs(p, r, u, i, s, b, e, c, x, a)
  BY DEF Encoding
<1>2. b \in Seq(Byte) /\ Len(b) \in Nat /\ x \in Nat /\ a \in Nat /\ x <= a /\ a <= Len(b)
  BY <1>20 DEF EncodingAs, Splits
<1>21. p = Slice(b, x, a) /\ r = Slice(b, a, Len(b)) /\ c[Len(u)] = x
  BY <1>20 DEF EncodingAs
<1>22. Splits(s, b, e) /\ Packs(u, i, Len(u), b, c)
  BY <1>20 DEF EncodingAs
<1>3. Len(r) = Len(b) - a
  <2>1. Len(b) <= Len(b)
    BY <1>2
  <2>2. Len(Slice(b, a, Len(b))) = Len(b) - a
    BY <1>2, <2>1, SliceIs
  <2> QED
    BY <1>21, <2>2, Zenon
<1>4. a + n \in Nat /\ a + n <= Len(b) /\ x <= a + n /\ a + n \in x..Len(b)
  BY <1>2, <1>3
<1>5. /\ Slice(Slice(b, a, Len(b)), n, Len(b) - a) = Slice(b, a + n, Len(b))
      /\ Slice(b, x, a) \o Slice(Slice(b, a, Len(b)), 0, n) = Slice(b, x, a + n)
  <2>1. b \in Seq(Byte) /\ x \in Nat /\ a \in Nat /\ x <= a /\ a + n <= Len(b)
    BY <1>2, <1>4
  <2> QED
    BY <2>1, AbsorbSlices
<1>6. p \o Slice(r, 0, n) = Slice(b, x, a + n) /\ Slice(r, n, Len(r)) = Slice(b, a + n, Len(b))
  BY <1>21, <1>3, <1>5, Zenon
<1>7. EncodingAs(p \o Slice(r, 0, n), Slice(r, n, Len(r)), u, i, s, b, e, c, x, a + n)
  BY <1>2, <1>21, <1>22, <1>4, <1>6, Zenon DEF EncodingAs
<1> QED
  BY <1>1, <1>7, Zenon DEF Encoding

LEMMA PacksMore ==
  ASSUME NEW u \in Seq(PackedUnit), NEW t \in Seq(PackedUnit), NEW i \in Nat, i <= Len(u),
         NEW b \in Seq(Byte), NEW c, Packs(u, i, Len(u), b, c),
         NEW y \in 0..Len(b), c[Len(u)] <= y, t = Append(u, Block(Slice(b, c[Len(u)], y)))
  PROVE  \E d : PacksTo(t, i, Len(t), b, d, y)
<1> DEFINE l == Len(u)
           d == [k \in i..(l + 1) |-> IF k <= l THEN c[k] ELSE y]
<1>1. l \in Nat /\ Len(t) = l + 1 /\ \A k \in 1..l : t[k] = u[k]
  OBVIOUS
<1>2. t[l + 1] = Block(Slice(b, c[l], y))
  OBVIOUS
<1>3. d \in [i..(l + 1) -> 0..Len(b)] /\ d[i] = 0 /\ d[l + 1] = y /\ d[l] = c[l]
  BY <1>1 DEF Packs
<1>4. ASSUME NEW k \in (i + 1)..(l + 1)
      PROVE  d[k - 1] <= d[k] /\ t[k] = Block(Slice(b, d[k - 1], d[k]))
  <2>1. CASE k = l + 1
    BY <1>1, <1>2, <1>3, <2>1
  <2>2. CASE k # l + 1
    <3>1. k \in (i + 1)..l /\ k - 1 \in i..l /\ k \in 1..l
      BY <1>1, <2>2
    <3>2. d[k] = c[k] /\ d[k - 1] = c[k - 1]
      BY <1>1, <3>1
    <3> QED
      BY <1>1, <3>1, <3>2 DEF Packs
  <2> QED
    BY <2>1, <2>2
<1> HIDE DEF d
<1>5. PacksTo(t, i, Len(t), b, d, y)
  BY <1>1, <1>3, <1>4 DEF Packs, PacksTo
<1> QED
  BY <1>5, Zenon

LEMMA EncodingPack ==
  ASSUME NEW p, NEW r, NEW u \in Seq(PackedUnit), NEW i, NEW s, Encoding(p, r, u, i, s),
         NEW m \in Nat, m <= Len(p),
         NEW t \in Seq(PackedUnit), t = Append(u, Block(Slice(p, 0, m)))
  PROVE  Encoding(Slice(p, m, Len(p)), r, t, i, s)
<1>1. i \in 0..Len(u) /\ Len(u) \in Nat /\ Len(t) = Len(u) + 1
  BY DEF Encoding
<1>20. PICK b, e, c, x, a : EncodingAs(p, r, u, i, s, b, e, c, x, a)
  BY DEF Encoding
<1>2. b \in Seq(Byte) /\ Len(b) \in Nat /\ x \in Nat /\ a \in Nat /\ x <= a /\ a <= Len(b)
  BY <1>20 DEF EncodingAs, Splits
<1>21. p = Slice(b, x, a) /\ r = Slice(b, a, Len(b)) /\ c[Len(u)] = x
  BY <1>20 DEF EncodingAs
<1>22. Splits(s, b, e) /\ Packs(u, i, Len(u), b, c)
  BY <1>20 DEF EncodingAs
<1>3. Len(p) = a - x
  <2>1. Len(Slice(b, x, a)) = a - x
    BY <1>2, SliceIs
  <2> QED
    BY <1>21, <2>1, Zenon
<1>4. /\ x + m \in Nat /\ x + m \in 0..Len(b) /\ x <= x + m /\ x + m <= a
      /\ a \in (x + m)..Len(b)
  BY <1>2, <1>3
<1>5. /\ Slice(Slice(b, x, a), 0, m) = Slice(b, x, x + m)
      /\ Slice(Slice(b, x, a), m, a - x) = Slice(b, x + m, a)
  BY <1>2, <1>4, PackSlices
<1>6. Slice(p, 0, m) = Slice(b, x, x + m) /\ Slice(p, m, Len(p)) = Slice(b, x + m, a)
  BY <1>21, <1>3, <1>5, Zenon
<1>7. i \in Nat /\ i <= Len(u) /\ i \in 0..Len(t)
  BY <1>1
<1>8. t = Append(u, Block(Slice(b, c[Len(u)], x + m))) /\ c[Len(u)] <= x + m
  BY <1>21, <1>4, <1>6, Zenon
<1>9. PICK d : PacksTo(t, i, Len(t), b, d, x + m)
  BY <1>2, <1>22, <1>4, <1>7, <1>8, PacksMore, Zenon
<1>10. EncodingAs(Slice(p, m, Len(p)), r, t, i, s, b, e, d, x + m, a)
  BY <1>2, <1>21, <1>22, <1>4, <1>6, <1>9, Zenon DEF EncodingAs, PacksTo
<1> QED
  BY <1>7, <1>10, Zenon DEF Encoding

LEMMA EncodingEnd ==
  ASSUME NEW u \in Seq(PackedUnit), NEW i, NEW s, Encoding(<<>>, <<>>, u, i, s),
         NEW t \in Seq(PackedUnit), t = Append(u, End)
  PROVE  Streamed(t, i, Len(t), s)
<1>1. i \in 0..Len(u) /\ Len(u) \in Nat
  BY DEF Encoding
<1>20. PICK b, e, c, x, a : EncodingAs(<<>>, <<>>, u, i, s, b, e, c, x, a)
  BY DEF Encoding
<1>2. b \in Seq(Byte) /\ Len(b) \in Nat /\ x \in Nat /\ a \in Nat /\ x <= a /\ a <= Len(b)
  BY <1>20 DEF EncodingAs, Splits
<1>21. <<>> = Slice(b, x, a) /\ <<>> = Slice(b, a, Len(b)) /\ c[Len(u)] = x
  BY <1>20 DEF EncodingAs
<1>22. Splits(s, b, e) /\ Packs(u, i, Len(u), b, c)
  BY <1>20 DEF EncodingAs
<1>3. x = a /\ a = Len(b)
  <2>1. Slice(b, x, a) = <<>> /\ Slice(b, a, Len(b)) = <<>> /\ Len(b) <= Len(b)
    BY <1>2, <1>21
  <2> QED
    BY <1>2, <2>1, SliceEmpty
<1>4. /\ Len(t) \in Nat /\ Len(t) - 1 = Len(u) /\ t[Len(t)] = End
      /\ \A k \in 1..Len(u) : t[k] = u[k]
  OBVIOUS
<1>5. Packs(t, i, Len(u), b, c)
  <2>1. i \in Nat
    BY <1>1
  <2> QED
    BY <1>1, <1>22, <1>4, <2>1, PacksKept
<1>6. i \in Nat /\ Len(t) \in (i + 1)..Len(t)
  BY <1>1, <1>4
<1> QED
  BY <1>21, <1>22, <1>3, <1>4, <1>5, <1>6 DEF Streamed

\* The encoder is given another item, or a first one.
LEMMA SplitsMore ==
  ASSUME NEW s \in Seq(Seq(Byte)), NEW x \in Seq(Byte), NEW b, NEW e, Splits(s, b, e)
  PROVE  \E d : Splits(Append(s, x), b \o x, d)
<1> DEFINE n == Len(s)
           y == b \o x
           t == Append(s, x)
           d == [k \in 0..(n + 1) |-> IF k <= n THEN e[k] ELSE Len(y)]
<1>1. /\ b \in Seq(Byte) /\ y \in Seq(Byte) /\ Len(y) = Len(b) + Len(x) /\ n \in Nat
      /\ Len(b) \in Nat /\ Len(x) \in Nat
  BY DEF Splits
<1>2. Len(t) = n + 1 /\ t[n + 1] = x /\ \A k \in 1..n : t[k] = s[k]
  OBVIOUS
<1>3. e \in [0..n -> 0..Len(b)] /\ e[0] = 0 /\ e[n] = Len(b)
  BY DEF Splits
<1>4. d \in [0..(n + 1) -> 0..Len(y)] /\ d[0] = 0 /\ d[n + 1] = Len(y) /\ d[n] = Len(b)
  BY <1>1, <1>3
<1>5. ASSUME NEW k \in 1..(n + 1) PROVE d[k - 1] <= d[k] /\ t[k] = Slice(y, d[k - 1], d[k])
  <2>1. CASE k = n + 1
    <3>1. Slice(y, Len(b), Len(b) + Len(x)) = x
      BY <1>1, SliceAdded
    <3>2. k - 1 = n /\ Len(b) <= Len(y)
      BY <1>1, <2>1
    <3> HIDE DEF d, y, t
    <3> QED
      BY <1>1, <1>2, <1>4, <2>1, <3>1, <3>2
  <2>2. CASE k # n + 1
    <3>1. k \in 1..n /\ k - 1 \in 0..n /\ k \in 0..n
      BY <1>1, <2>2
    <3>2. d[k] = e[k] /\ d[k - 1] = e[k - 1]
      BY <1>1, <3>1
    <3>20. e[k] \in 0..Len(b) /\ e[k - 1] \in 0..Len(b)
      BY <1>3, <3>1
    <3>21. e[k] \in Nat /\ e[k - 1] \in Nat /\ e[k] <= Len(b)
      BY <1>1, <3>20
    <3>3. e[k - 1] <= e[k] /\ s[k] = Slice(b, e[k - 1], e[k])
      BY <3>1 DEF Splits
    <3>4. Slice(y, e[k - 1], e[k]) = Slice(b, e[k - 1], e[k])
      BY <1>1, <3>21, <3>3, SliceExtended
    <3> HIDE DEF d, y, t
    <3> QED
      BY <1>2, <3>1, <3>2, <3>3, <3>4
  <2> QED
    BY <2>1, <2>2
<1> HIDE DEF d, y, t
<1>6. Splits(t, y, d)
  BY <1>1, <1>2, <1>4, <1>5 DEF Splits
<1> QED
  BY <1>6 DEF t, y

LEMMA EncodingWrite ==
  ASSUME NEW p, NEW u, NEW i, NEW s \in Seq(Seq(Byte)), NEW x \in Seq(Byte),
         Encoding(p, <<>>, u, i, s)
  PROVE  Encoding(p, x, u, i, Append(s, x))
<1>1. i \in 0..Len(u)
  BY DEF Encoding
<1>20. PICK b, e, c, y, a : EncodingAs(p, <<>>, u, i, s, b, e, c, y, a)
  BY DEF Encoding
<1>2. b \in Seq(Byte) /\ Len(b) \in Nat /\ y \in Nat /\ a \in Nat /\ y <= a /\ a <= Len(b)
  BY <1>20 DEF EncodingAs, Splits
<1>21. p = Slice(b, y, a) /\ <<>> = Slice(b, a, Len(b)) /\ c[Len(u)] = y
  BY <1>20 DEF EncodingAs
<1>22. Splits(s, b, e) /\ Packs(u, i, Len(u), b, c)
  BY <1>20 DEF EncodingAs
<1>3. a = Len(b)
  <2>1. Slice(b, a, Len(b)) = <<>> /\ Len(b) <= Len(b)
    BY <1>2, <1>21
  <2> QED
    BY <1>2, <2>1, SliceEmpty
<1>4. b \o x \in Seq(Byte) /\ Len(b \o x) = Len(b) + Len(x) /\ Len(x) \in Nat /\ Len(b) \in Nat
  BY <1>2
<1>5. PICK d : Splits(Append(s, x), b \o x, d)
  BY <1>22, SplitsMore
<1>6. Packs(u, i, Len(u), b \o x, c)
  <2>1. c \in [i..Len(u) -> 0..Len(b)] /\ c[i] = 0
    BY <1>22 DEF Packs
  <2>2. c \in [i..Len(u) -> 0..Len(b \o x)]
    BY <1>4, <2>1
  <2>3. ASSUME NEW k \in (i + 1)..Len(u)
        PROVE  c[k - 1] <= c[k] /\ u[k] = Block(Slice(b \o x, c[k - 1], c[k]))
    <3>1. c[k - 1] <= c[k] /\ u[k] = Block(Slice(b, c[k - 1], c[k]))
      BY <1>22 DEF Packs
    <3>2. k \in i..Len(u) /\ k - 1 \in i..Len(u)
      BY <1>1
    <3>20. c[k - 1] \in 0..Len(b) /\ c[k] \in 0..Len(b)
      BY <2>1, <3>2
    <3>3. c[k - 1] \in Nat /\ c[k] \in Nat /\ c[k] <= Len(b)
      BY <1>4, <3>20
    <3>4. Slice(b \o x, c[k - 1], c[k]) = Slice(b, c[k - 1], c[k])
      BY <1>2, <3>1, <3>3, SliceExtended
    <3> QED
      BY <3>1, <3>4
  <2> QED
    BY <2>1, <2>2, <2>3 DEF Packs
<1>7. p = Slice(b \o x, y, a)
  <2>1. Slice(b \o x, y, a) = Slice(b, y, a)
    BY <1>2, SliceExtended
  <2> QED
    BY <1>21, <2>1, Zenon
<1>8. x = Slice(b \o x, a, Len(b \o x))
  BY <1>2, <1>3, <1>4, SliceAdded
<1>9. a \in y..Len(b \o x)
  BY <1>2, <1>3, <1>4
<1>10. EncodingAs(p, x, u, i, Append(s, x), b \o x, d, c, y, a)
  BY <1>2, <1>21, <1>5, <1>6, <1>7, <1>8, <1>9, Zenon DEF EncodingAs
<1> QED
  BY <1>1, <1>10, Zenon DEF Encoding

LEMMA EncodingNew ==
  ASSUME NEW x \in Seq(Byte), NEW u, Len(u) \in Nat
  PROVE  Encoding(<<>>, x, u, Len(u), <<x>>)
<1>1. Splits(<<x>>, x, [k \in 0..1 |-> IF k = 0 THEN 0 ELSE Len(x)])
  BY SliceWhole DEF Splits
<1>2. Packs(u, Len(u), Len(u), x, [k \in Len(u)..Len(u) |-> 0])
  BY DEF Packs
<1>3. Slice(x, 0, 0) = <<>> /\ Slice(x, 0, Len(x)) = x /\ Len(x) \in Nat
  BY SliceEmpty, SliceWhole
<1>4. Len(u) \in 0..Len(u) /\ [k \in Len(u)..Len(u) |-> 0][Len(u)] = 0
  OBVIOUS
<1>5. 0 \in Nat /\ 0 \in 0..Len(x)
  BY <1>3
<1>6. EncodingAs(<<>>, x, u, Len(u), <<x>>, x, [k \in 0..1 |-> IF k = 0 THEN 0 ELSE Len(x)],
                 [k \in Len(u)..Len(u) |-> 0], 0, 0)
  BY <1>1, <1>2, <1>3, <1>4, <1>5, Zenon DEF EncodingAs
<1> QED
  BY <1>4, <1>6, Zenon DEF Encoding

-----------------------------------------------------------------------------
(***************************************************************************)
(* One call of lzma_code.                                                  *)
(***************************************************************************)
LEMMA AppendBehind ==
  ASSUME NEW S, NEW u \in Seq(S), NEW o \in Seq(S), NEW x \in S
  PROVE  u \o Append(o, x) = Append(u \o o, x) /\ u \o Append(o, x) \in Seq(S)
OBVIOUS

Taken(en, n) == en.pending \o Slice(en.input, 0, n)

LEMMA EncodedRun ==
  ASSUME NEW en, IsEncoder(en), NEW g \in Encoded(en), en.action = "RUN"
  PROVE  /\ g.open = en.open /\ g.action = "RUN" /\ DOMAIN g = DOMAIN en
         /\ \E n \in 1..Len(en.input) :
              /\ g.input = Slice(en.input, n, Len(en.input))
              /\ \/ g.pending = Taken(en, n) /\ g.out = en.out
                 \/ \E m \in 1..Len(Taken(en, n)) :
                      /\ g.pending = Slice(Taken(en, n), m, Len(Taken(en, n)))
                      /\ g.out = Append(en.out, Block(Slice(Taken(en, n), 0, m)))
<1> DEFINE Absorb(n) == [en EXCEPT !.input = SubSeq(@, n + 1, Len(@)),
                                   !.pending = @ \o SubSeq(en.input, 1, n)]
           Pack(f, n) == [f EXCEPT !.pending = SubSeq(@, n + 1, Len(@)),
                                   !.out = Append(@, Block(SubSeq(f.pending, 1, n)))]
           absorbed == {Absorb(n) : n \in 1..Len(en.input)}
<1>1. g \in absorbed \cup UNION {{Pack(f, n) : n \in 1..Len(f.pending)} : f \in absorbed}
  BY DEF Encoded
<1>2. PICK n \in 1..Len(en.input) :
        g = Absorb(n) \/ \E m \in 1..Len(Absorb(n).pending) : g = Pack(Absorb(n), m)
  <2> HIDE DEF Absorb, Pack
  <2>1. CASE g \in absorbed
    BY <2>1
  <2>2. CASE g \in UNION {{Pack(f, n) : n \in 1..Len(f.pending)} : f \in absorbed}
    <3>1. PICK f \in absorbed : g \in {Pack(f, n) : n \in 1..Len(f.pending)}
      BY <2>2
    <3>2. PICK n \in 1..Len(en.input) : f = Absorb(n)
      BY <3>1
    <3> QED
      BY <3>1, <3>2
  <2> QED
    BY <1>1, <2>1, <2>2
<1>3. /\ Absorb(n).open = en.open /\ Absorb(n).action = "RUN" /\ Absorb(n).out = en.out
      /\ Absorb(n).input = Slice(en.input, n, Len(en.input))
      /\ Absorb(n).pending = Taken(en, n)
      /\ DOMAIN Absorb(n) = {"open", "action", "input", "pending", "out"}
      /\ DOMAIN en = {"open", "action", "input", "pending", "out"}
  <2>1. /\ DOMAIN en = {"open", "action", "input", "pending", "out"}
        /\ Absorb(n).open = en.open /\ Absorb(n).action = "RUN" /\ Absorb(n).out = en.out
        /\ DOMAIN Absorb(n) = {"open", "action", "input", "pending", "out"}
    BY DEF IsEncoder
  <2>2. /\ Absorb(n).input = SubSeq(en.input, n + 1, Len(en.input))
        /\ Absorb(n).pending = en.pending \o SubSeq(en.input, 1, n)
    BY DEF IsEncoder
  <2>3. Absorb(n).input = Slice(en.input, n, Len(en.input))
    BY <2>2, Zenon DEF Slice
  <2>4. Absorb(n).pending = Taken(en, n)
    <3>1. Slice(en.input, 0, n) = SubSeq(en.input, 1, n)
      BY DEF Slice
    <3> QED
      BY <2>2, <3>1, Zenon DEF Taken
  <2> QED
    BY <2>1, <2>3, <2>4, Zenon
<1> HIDE DEF Absorb
<1>4. CASE g = Absorb(n)
  BY <1>3, <1>4
<1>5. CASE \E m \in 1..Len(Absorb(n).pending) : g = Pack(Absorb(n), m)
  <2>1. PICK m \in 1..Len(Absorb(n).pending) : g = Pack(Absorb(n), m)
    BY <1>5
  <2>2. PICK f : f = Absorb(n)
    OBVIOUS
  <2>3. /\ f.open = en.open /\ f.action = "RUN" /\ f.out = en.out
        /\ f.input = Slice(en.input, n, Len(en.input))
        /\ f.pending = Taken(en, n)
        /\ DOMAIN f = DOMAIN en /\ DOMAIN f = {"open", "action", "input", "pending", "out"}
    BY <1>3, <2>2
  <2>4. /\ g.open = f.open /\ g.action = f.action /\ g.input = f.input /\ DOMAIN g = DOMAIN f
        /\ g.pending = Slice(f.pending, m, Len(f.pending))
        /\ g.out = Append(f.out, Block(Slice(f.pending, 0, m)))
    <3>1. g = Pack(f, m)
      BY <2>1, <2>2
    <3>2. /\ g.open = f.open /\ g.action = f.action /\ g.input = f.input /\ DOMAIN g = DOMAIN f
          /\ g.pending = SubSeq(f.pending, m + 1, Len(f.pending))
          /\ g.out = Append(f.out, Block(SubSeq(f.pending, 1, m)))
      BY <2>3, <3>1
    <3> QED
      BY <3>2 DEF Slice
  <2>5. m \in 1..Len(f.pending)
    BY <2>1, <2>2
  <2>6. /\ g.pending = Slice(Taken(en, n), m, Len(Taken(en, n)))
        /\ g.out = Append(en.out, Block(Slice(Taken(en, n), 0, m)))
        /\ g.open = en.open /\ g.action = "RUN" /\ DOMAIN g = DOMAIN en
        /\ g.input = Slice(en.input, n, Len(en.input))
    BY <2>3, <2>4
  <2>7. PICK q : q = Taken(en, n)
    OBVIOUS
  <2>8. m \in 1..Len(q)
    BY <2>3, <2>5, <2>7
  <2>9. g.pending = Slice(q, m, Len(q)) /\ g.out = Append(en.out, Block(Slice(q, 0, m)))
    BY <2>6, <2>7
  <2> QED
    BY <2>6, <2>7, <2>8, <2>9
<1> QED
  BY <1>2, <1>4, <1>5

LEMMA EncodedFinish ==
  ASSUME NEW en, IsEncoder(en), NEW g \in Encoded(en), en.action = "FINISH"
  PROVE  /\ g.open = en.open /\ g.action = "FINISH" /\ g.input = en.input
         /\ DOMAIN g = DOMAIN en
         /\ \/ /\ en.pending = <<>> /\ g.pending = <<>> /\ g.out = Append(en.out, End)
            \/ \E m \in 1..Len(en.pending) :
                 /\ g.pending = Slice(en.pending, m, Len(en.pending))
                 /\ g.out = Append(en.out, Block(Slice(en.pending, 0, m)))
<1>1. CASE en.pending # <<>>
  <2>1. PICK m \in 1..Len(en.pending) :
          g = [en EXCEPT !.pending = SubSeq(@, m + 1, Len(@)),
                         !.out = Append(@, Block(SubSeq(en.pending, 1, m)))]
    BY <1>1 DEF Encoded
  <2>2. /\ g.open = en.open /\ g.action = "FINISH" /\ g.input = en.input /\ DOMAIN g = DOMAIN en
        /\ g.pending = SubSeq(en.pending, m + 1, Len(en.pending))
        /\ g.out = Append(en.out, Block(SubSeq(en.pending, 1, m)))
    BY <2>1 DEF IsEncoder
  <2> QED
    BY <2>2 DEF Slice
<1>2. CASE en.pending = <<>>
  <2>1. g = [en EXCEPT !.out = Append(@, End)]
    BY <1>2 DEF Encoded
  <2> QED
    BY <1>2, <2>1 DEF IsEncoder
<1> QED
  BY <1>1, <1>2

LEMMA EncodedType ==
  ASSUME NEW en, IsEncoder(en), NEW g \in Encoded(en)
  PROVE  /\ IsEncoder(g) /\ g.action = en.action
         /\ g.out = en.out \/ \E x \in PackedUnit : g.out = Append(en.out, x)
<1>1. CASE en.action = "RUN"
  <2>1. PICK n \in 1..Len(en.input) :
          /\ g.input = Slice(en.input, n, Len(en.input))
          /\ \/ g.pending = Taken(en, n) /\ g.out = en.out
             \/ \E m \in 1..Len(Taken(en, n)) :
                  /\ g.pending = Slice(Taken(en, n), m, Len(Taken(en, n)))
                  /\ g.out = Append(en.out, Block(Slice(Taken(en, n), 0, m)))
    BY <1>1, EncodedRun
  <2>2. DOMAIN g = DOMAIN en /\ g.action = "RUN"
    BY <1>1, EncodedRun
  <2>3. /\ en.input \in Seq(Byte) /\ en.pending \in Seq(Byte) /\ n \in Nat /\ n <= Len(en.input)
        /\ Len(en.input) \in Nat /\ 0 <= n /\ Len(en.input) <= Len(en.input)
    BY DEF IsEncoder
  <2>4. g.input \in Seq(Byte) /\ Slice(en.input, 0, n) \in Seq(Byte)
    BY <2>1, <2>3, SliceIs
  <2>5. Taken(en, n) \in Seq(Byte)
    BY <2>3, <2>4 DEF Taken
  <2>6. PICK q \in Seq(Byte) : q = Taken(en, n)
    BY <2>5
  <2>7. CASE g.pending = Taken(en, n) /\ g.out = en.out
    BY <1>1, <2>2, <2>4, <2>5, <2>7 DEF IsEncoder
  <2>8. CASE \E m \in 1..Len(q) :
               g.pending = Slice(q, m, Len(q)) /\ g.out = Append(en.out, Block(Slice(q, 0, m)))
    <3>1. PICK m \in 1..Len(q) :
            g.pending = Slice(q, m, Len(q)) /\ g.out = Append(en.out, Block(Slice(q, 0, m)))
      BY <2>8
    <3>2. m \in Nat /\ Len(q) \in Nat /\ m <= Len(q) /\ Len(q) <= Len(q) /\ 0 <= m
      OBVIOUS
    <3>3. g.pending \in Seq(Byte) /\ Slice(q, 0, m) \in Seq(Byte)
      BY <3>1, <3>2, SliceIs
    <3>4. Block(Slice(q, 0, m)) \in PackedUnit
      BY <3>3, BlockIs
    <3>5. g.out \in Seq(PackedUnit)
      BY <3>1, <3>4 DEF IsEncoder
    <3> QED
      BY <1>1, <2>2, <2>4, <3>1, <3>3, <3>4, <3>5 DEF IsEncoder
  <2> QED
    BY <2>1, <2>6, <2>7, <2>8
<1>2. CASE en.action = "FINISH"
  <2>1. g.action = "FINISH" /\ g.input = en.input /\ DOMAIN g = DOMAIN en
    BY <1>2, EncodedFinish
  <2>2. CASE en.pending = <<>> /\ g.pending = <<>> /\ g.out = Append(en.out, End)
    <3>1. g.out \in Seq(PackedUnit)
      BY <2>2, EndIs DEF IsEncoder
    <3> QED
      BY <1>2, <2>1, <2>2, <3>1, EndIs DEF IsEncoder
  <2>3. CASE \E m \in 1..Len(en.pending) :
               /\ g.pending = Slice(en.pending, m, Len(en.pending))
               /\ g.out = Append(en.out, Block(Slice(en.pending, 0, m)))
    <3>0. PICK q \in Seq(Byte) : q = en.pending
      BY DEF IsEncoder
    <3>1. PICK m \in 1..Len(q) :
            g.pending = Slice(q, m, Len(q)) /\ g.out = Append(en.out, Block(Slice(q, 0, m)))
      BY <2>3, <3>0
    <3>2. m \in Nat /\ Len(q) \in Nat /\ m <= Len(q) /\ Len(q) <= Len(q) /\ 0 <= m
      OBVIOUS
    <3>3. g.pending \in Seq(Byte) /\ Slice(q, 0, m) \in Seq(Byte)
      BY <3>1, <3>2, SliceIs
    <3>4. Block(Slice(q, 0, m)) \in PackedUnit
      BY <3>3, BlockIs
    <3>5. g.out \in Seq(PackedUnit)
      BY <3>1, <3>4 DEF IsEncoder
    <3> QED
      BY <1>2, <2>1, <3>1, <3>3, <3>4, <3>5 DEF IsEncoder
  <2> QED
    BY <1>2, <2>2, <2>3, EncodedFinish
<1> QED
  BY <1>1, <1>2 DEF IsEncoder

LEMMA EncodeRun ==
  ASSUME NEW en, IsEncoder(en), NEW g \in Encoded(en), en.action = "RUN",
         NEW im \in Seq(PackedUnit), NEW i, NEW s,
         Encoding(en.pending, en.input, im \o en.out, i, s)
  PROVE  Encoding(g.pending, g.input, im \o g.out, i, s)
<1>1. PICK n \in 1..Len(en.input) :
        /\ g.input = Slice(en.input, n, Len(en.input))
        /\ \/ g.pending = Taken(en, n) /\ g.out = en.out
           \/ \E m \in 1..Len(Taken(en, n)) :
                /\ g.pending = Slice(Taken(en, n), m, Len(Taken(en, n)))
                /\ g.out = Append(en.out, Block(Slice(Taken(en, n), 0, m)))
  BY EncodedRun
<1>2. en.out \in Seq(PackedUnit) /\ n \in Nat /\ n <= Len(en.input)
  BY DEF IsEncoder
<1>3. Encoding(Taken(en, n), g.input, im \o en.out, i, s)
  BY <1>1, <1>2, EncodingAbsorb DEF Taken
<1>4. PICK q : q = Taken(en, n)
  OBVIOUS
<1>5. CASE g.pending = q /\ g.out = en.out
  BY <1>3, <1>4, <1>5
<1>6. CASE \E m \in 1..Len(q) :
             g.pending = Slice(q, m, Len(q)) /\ g.out = Append(en.out, Block(Slice(q, 0, m)))
  <2>1. PICK m \in 1..Len(q) :
          g.pending = Slice(q, m, Len(q)) /\ g.out = Append(en.out, Block(Slice(q, 0, m)))
    BY <1>6
  <2>2. IsEncoder(g)
    BY EncodedType
  <2>3. PICK u \in Seq(PackedUnit), t \in Seq(PackedUnit) : u = im \o en.out /\ t = im \o g.out
    <3>1. im \o en.out \in Seq(PackedUnit) /\ im \o g.out \in Seq(PackedUnit)
      BY <1>2, <2>2 DEF IsEncoder
    <3> QED
      BY <3>1, Zenon
  <2>4. t = Append(u, Block(Slice(q, 0, m)))
    <3>1. PICK x \in PackedUnit : x = Block(Slice(q, 0, m))
      <4>1. q \in Seq(Byte)
        <5>1. en.pending \in Seq(Byte) /\ Slice(en.input, 0, n) \in Seq(Byte)
          BY <1>2, SliceIs DEF IsEncoder
        <5> QED
          BY <1>4, <5>1 DEF Taken
      <4>2. Slice(q, 0, m) \in Seq(Byte)
        BY <4>1, SliceIs
      <4> QED
        BY <4>2, BlockIs, Zenon
    <3>2. PICK o \in Seq(PackedUnit) : o = en.out
      BY <1>2, Zenon
    <3>3. im \o Append(o, x) = Append(im \o o, x)
      BY AppendBehind
    <3> QED
      BY <2>1, <2>3, <3>1, <3>2, <3>3, Zenon
  <2>5. Encoding(q, g.input, u, i, s) /\ m \in Nat /\ m <= Len(q)
    BY <1>3, <1>4, <2>3
  <2>6. Encoding(Slice(q, m, Len(q)), g.input, t, i, s)
    BY <2>4, <2>5, EncodingPack
  <2> QED
    BY <2>1, <2>3, <2>6, Zenon
<1> QED
  BY <1>1, <1>4, <1>5, <1>6

LEMMA EncodeFinish ==
  ASSUME NEW en, IsEncoder(en), NEW g \in Encoded(en), en.action = "FINISH",
         NEW im \in Seq(PackedUnit), NEW i, NEW s, en.input = <<>>,
         Encoding(en.pending, en.input, im \o en.out, i, s)
  PROVE  /\ g.input = <<>>
         /\ ~StreamEnded(g) => Encoding(g.pending, g.input, im \o g.out, i, s)
         /\ StreamEnded(g) => Streamed(im \o g.out, i, Len(im \o g.out), s)
<1>1. IsEncoder(g) /\ g.input = <<>> /\ en.out \in Seq(PackedUnit) /\ g.out \in Seq(PackedUnit)
  BY EncodedType, EncodedFinish DEF IsEncoder
<1>2. PICK u \in Seq(PackedUnit), t \in Seq(PackedUnit) : u = im \o en.out /\ t = im \o g.out
  <2>1. im \o en.out \in Seq(PackedUnit) /\ im \o g.out \in Seq(PackedUnit)
    BY <1>1
  <2> QED
    BY <2>1, Zenon
<1>3. CASE en.pending = <<>> /\ g.pending = <<>> /\ g.out = Append(en.out, End)
  <2>1. t = Append(u, End)
    BY <1>1, <1>2, <1>3, EndIs, AppendBehind
  <2>2. Streamed(t, i, Len(t), s)
    BY <1>2, <1>3, <2>1, EncodingEnd
  <2>3. StreamEnded(g)
    <3>1. g.out # <<>> /\ g.out[Len(g.out)] = End
      BY <1>1, <1>3, EndIs
    <3> QED
      BY <3>1 DEF StreamEnded, Last
  <2> QED
    BY <1>1, <1>2, <2>2, <2>3
<1>4. CASE \E m \in 1..Len(en.pending) :
             /\ g.pending = Slice(en.pending, m, Len(en.pending))
             /\ g.out = Append(en.out, Block(Slice(en.pending, 0, m)))
  <2>1. PICK q \in Seq(Byte) : q = en.pending
    BY DEF IsEncoder
  <2>2. PICK m \in 1..Len(q) :
          g.pending = Slice(q, m, Len(q)) /\ g.out = Append(en.out, Block(Slice(q, 0, m)))
    BY <1>4, <2>1
  <2>3. m \in Nat /\ m <= Len(q) /\ 0 <= m
    OBVIOUS
  <2>4. PICK x \in PackedUnit : x = Block(Slice(q, 0, m)) /\ x # End
    <3>1. Slice(q, 0, m) \in Seq(Byte)
      BY <2>3, SliceIs
    <3>2. Block(Slice(q, 0, m)) \in PackedUnit /\ Block(Slice(q, 0, m)) # End
      BY <3>1, BlockIs, Zenon
    <3> QED
      BY <3>2, Zenon
  <2>5. t = Append(u, x)
    <3>1. g.out = Append(en.out, x)
      BY <2>2, <2>4
    <3>2. PICK o \in Seq(PackedUnit) : o = en.out
      BY <1>1, Zenon
    <3>3. im \o Append(o, x) = Append(im \o o, x)
      BY AppendBehind
    <3> QED
      BY <1>2, <3>1, <3>2, <3>3, Zenon
  <2>6. Encoding(q, <<>>, u, i, s)
    BY <1>2, <2>1
  <2>7. t = Append(u, Block(Slice(q, 0, m)))
    BY <2>4, <2>5
  <2>8. Encoding(Slice(q, m, Len(q)), <<>>, t, i, s)
    BY <2>3, <2>6, <2>7, EncodingPack
  <2>9. ~StreamEnded(g)
    <3>1. g.out = Append(en.out, x)
      BY <2>2, <2>4
    <3>2. Last(g.out) = x
      BY <1>1, <3>1 DEF Last
    <3> QED
      BY <2>4, <3>2 DEF StreamEnded
  <2> QED
    BY <1>1, <1>2, <2>2, <2>8, <2>9
<1> QED
  BY <1>3, <1>4, EncodedFinish

-----------------------------------------------------------------------------
(***************************************************************************)
(* What the writer has done, by its state and what it goes on with.        *)
(***************************************************************************)
\* The filter opened at i is given the items s, or is being flushed.
Filtering(en, cl, im, i, s) ==
  /\ cl \in {"idle", "write"} /\ en.action = "RUN" /\ (cl = "idle" => en.input = <<>>)
  /\ Encoding(en.pending, en.input, im \o en.out, i, s)

Finishing(en, cl, im, i, s) ==
  \/ /\ cl = "flush" /\ en.action = "FINISH" /\ en.input = <<>>
     /\ Encoding(en.pending, en.input, im \o en.out, i, s)
  \/ cl = "idle" /\ en.out = <<>> /\ Streamed(im, i, Len(im), s)

\* Without files there is no stream of them.
FilesIn(u, x, fs) == IF fs = <<>> THEN x = 0 ELSE Streamed(u, 0, x, fs)

Ids(s) == [k \in 1..Len(s) |-> k]
Lengths(s) == [k \in 1..Len(s) |-> Len(s[k])]

Describes(man, x, m, fs, os) ==
  /\ man \in Manifests /\ man.ids = Ids(fs) /\ man.sizes = Lengths(fs)
  /\ man.entries = Lengths(os) /\ man.entriesSize = m - x

\* The streams of the files up to x, of the objects up to m and of the manifest;
\* its length and the hash.
Laid(a, fs, os, x, m, man) ==
  /\ a \in Seq(ArchiveUnit) /\ Len(a) \in Nat /\ Len(a) - 2 \in Nat /\ os # <<>>
  /\ fs \in Seq(Seq(Byte)) /\ os \in Seq(Seq(Byte))
  /\ FilesIn(a, x, fs) /\ Streamed(a, x, m, os)
  /\ Streamed(a, m, Len(a) - 2, <<Serialized(man)>>) /\ Describes(man, x, m, fs, os)
  /\ a[Len(a) - 1] = Length(Len(a) - 2 - m)
  /\ a[Len(a)] = Hash(Front(a))

WriterTypes ==
  /\ writer \in {"Initial", "PushingFiles", "PushingFsos", "Final", "Failed"}
  /\ call \in {"idle", "write", "flush"}
  /\ after \in {"nothing", "object", "manifest", "flush", "trailer"}
  /\ IsEncoder(encoder) /\ Len(encoder.out) < OutSize
  /\ image \in Seq(PackedUnit) /\ hashed = image
  /\ files \in Seq(Seq(Byte)) /\ objects \in Seq(Seq(Byte))

Metadata == [ids : Seq(Nat), sizes : Seq(Nat), entries : Seq(Nat), offset : Nat]

Recorded ==
  /\ metadata \in Metadata
  /\ writer \notin {"Final", "Failed"} =>
       /\ metadata.ids = Ids(files) /\ metadata.sizes = Lengths(files)
       /\ metadata.entries = IF writer = "PushingFsos" THEN Lengths(objects) ELSE <<>>

AtInitial ==
  writer = "Initial" =>
    image = <<>> /\ files = <<>> /\ objects = <<>> /\ call = "idle" /\ after = "nothing"

AtFiles ==
  writer = "PushingFiles" =>
    /\ files # <<>>
    /\ \/ after = "nothing" /\ objects = <<>> /\ Filtering(encoder, call, image, 0, files)
       \/ after = "object" /\ Len(objects) = 1 /\ Finishing(encoder, call, image, 0, files)

AtObjects ==
  writer = "PushingFsos" /\ after \in {"nothing", "object", "manifest"} =>
    /\ objects # <<>> /\ FilesIn(image, metadata.offset, files)
    /\ \/ after = "nothing" /\ Filtering(encoder, call, image, metadata.offset, objects)
       \/ after = "manifest" /\ Finishing(encoder, call, image, metadata.offset, objects)

AtManifest ==
  writer = "PushingFsos" /\ after \in {"flush", "trailer"} =>
    \E x, man :
      /\ objects # <<>> /\ FilesIn(image, x, files) /\ Streamed(image, x, metadata.offset, objects)
      /\ Describes(man, x, metadata.offset, files, objects)
      /\ \/ after = "flush"
            /\ Filtering(encoder, call, image, metadata.offset, <<Serialized(man)>>)
         \/ after = "trailer"
            /\ Finishing(encoder, call, image, metadata.offset, <<Serialized(man)>>)

AtEnd ==
  /\ writer \in {"Final", "Failed"} => call = "idle" /\ after = "nothing"
  /\ writer = "Final" => \E x, m, man : Laid(archive, files, objects, x, m, man)
  /\ writer # "Final" => archive = <<>>

WriterInv ==
  WriterTypes /\ Recorded /\ AtInitial /\ AtFiles /\ AtObjects /\ AtManifest /\ AtEnd

-----------------------------------------------------------------------------
(***************************************************************************)
(* A turn of the encoder.                                                  *)
(***************************************************************************)
LEMMA EncodeGives ==
  ASSUME WriterTypes, Encode
  PROVE  /\ call # "idle"
         /\ \E g \in Encoded(encoder) :
              /\ PassData(g)
              /\ call' = IF (IF call = "write" THEN g.input = <<>> ELSE StreamEnded(g))
                         THEN "idle" ELSE call
         /\ UNCHANGED <<writer, after, metadata, archive, reading, files, objects>>
BY DEF Encode

LEMMA Passed ==
  ASSUME WriterTypes, NEW g, g \in Encoded(encoder), PassData(g)
  PROVE  /\ IsEncoder(g) /\ g.action = encoder.action
         /\ IsEncoder(encoder') /\ encoder'.action = g.action /\ encoder'.input = g.input
         /\ encoder'.pending = g.pending
         /\ image' \in Seq(PackedUnit) /\ hashed' = image' /\ Len(encoder'.out) < OutSize
         /\ image' \o encoder'.out = image \o g.out
         /\ Len(image) <= Len(image') /\ \A k \in 1..Len(image) : image'[k] = image[k]
         /\ StreamEnded(g) => encoder'.out = <<>> /\ image' = image \o g.out
<1>1. IsEncoder(g) /\ g.action = encoder.action /\ IsEncoder(encoder)
  BY EncodedType DEF WriterTypes
<1>2. g.out \in Seq(PackedUnit) /\ encoder.out \in Seq(PackedUnit) /\ image \in Seq(PackedUnit)
  BY <1>1 DEF IsEncoder, WriterTypes
<1>3. Len(g.out) <= Len(encoder.out) + 1
  <2>1. g.out = encoder.out \/ \E x \in PackedUnit : g.out = Append(encoder.out, x)
    BY <1>1, EncodedType
  <2> QED
    BY <1>2, <2>1
<1>4. OutSize \in Nat /\ OutSize > 0
  BY ArchiveFormatAssumption
<1>5. CASE Len(g.out) = OutSize \/ StreamEnded(g)
  <2>1. /\ image' = image \o g.out /\ hashed' = image' /\ encoder' = [g EXCEPT !.out = <<>>]
    BY <1>5 DEF PassData, WriterTypes
  <2>2. /\ IsEncoder(encoder') /\ encoder'.action = g.action /\ encoder'.input = g.input
        /\ encoder'.pending = g.pending /\ encoder'.out = <<>>
    BY <1>1, <2>1 DEF IsEncoder
  <2>3. /\ image' \in Seq(PackedUnit) /\ image' \o <<>> = image'
        /\ Len(image) <= Len(image') /\ \A k \in 1..Len(image) : image'[k] = image[k]
    BY <1>2, <2>1
  <2> QED
    BY <1>1, <1>4, <2>1, <2>2, <2>3
<1>6. CASE Len(g.out) # OutSize /\ ~StreamEnded(g)
  <2>1. image' = image /\ hashed' = image' /\ encoder' = g
    BY <1>6 DEF PassData, WriterTypes
  <2>2. Len(g.out) < OutSize
    BY <1>2, <1>3, <1>4, <1>6 DEF WriterTypes
  <2> QED
    BY <1>1, <1>2, <1>6, <2>1, <2>2
<1> QED
  BY <1>5, <1>6

LEMMA FilteringKept ==
  ASSUME WriterTypes, Encode, NEW i, NEW s, Filtering(encoder, call, image, i, s)
  PROVE  Filtering(encoder', call', image', i, s)
<1>1. PICK g \in Encoded(encoder) :
        /\ PassData(g)
        /\ call' = IF (IF call = "write" THEN g.input = <<>> ELSE StreamEnded(g))
                   THEN "idle" ELSE call
  BY EncodeGives
<1>2. call = "write" /\ encoder.action = "RUN"
      /\ Encoding(encoder.pending, encoder.input, image \o encoder.out, i, s)
  BY EncodeGives DEF Filtering
<1>3. call' \in {"idle", "write"} /\ (call' = "idle" => g.input = <<>>)
  BY <1>1, <1>2
<1>4. image \in Seq(PackedUnit) /\ IsEncoder(encoder)
  BY DEF WriterTypes
<1>5. Encoding(g.pending, g.input, image \o g.out, i, s)
  BY <1>2, <1>4, EncodeRun
<1>6. /\ encoder'.action = "RUN" /\ encoder'.input = g.input /\ encoder'.pending = g.pending
      /\ image' \o encoder'.out = image \o g.out
  BY <1>1, <1>2, Passed
<1> QED
  BY <1>3, <1>5, <1>6 DEF Filtering

LEMMA FinishingKept ==
  ASSUME WriterTypes, Encode, NEW i, NEW s, Finishing(encoder, call, image, i, s)
  PROVE  Finishing(encoder', call', image', i, s)
<1>1. PICK g \in Encoded(encoder) :
        /\ PassData(g)
        /\ call' = IF (IF call = "write" THEN g.input = <<>> ELSE StreamEnded(g))
                   THEN "idle" ELSE call
  BY EncodeGives
<1>2. call = "flush" /\ encoder.action = "FINISH" /\ encoder.input = <<>>
      /\ Encoding(encoder.pending, encoder.input, image \o encoder.out, i, s)
  BY EncodeGives DEF Finishing
<1>3. call' = IF StreamEnded(g) THEN "idle" ELSE "flush"
  BY <1>1, <1>2
<1>4. image \in Seq(PackedUnit) /\ IsEncoder(encoder)
  BY DEF WriterTypes
<1>5. /\ g.input = <<>>
      /\ ~StreamEnded(g) => Encoding(g.pending, g.input, image \o g.out, i, s)
      /\ StreamEnded(g) => Streamed(image \o g.out, i, Len(image \o g.out), s)
  BY <1>2, <1>4, EncodeFinish
<1>6. /\ encoder'.action = "FINISH" /\ encoder'.input = g.input /\ encoder'.pending = g.pending
      /\ image' \o encoder'.out = image \o g.out
      /\ StreamEnded(g) => encoder'.out = <<>> /\ image' = image \o g.out
  BY <1>1, <1>2, Passed
<1>7. CASE StreamEnded(g)
  BY <1>3, <1>5, <1>6, <1>7 DEF Finishing
<1>8. CASE ~StreamEnded(g)
  BY <1>3, <1>5, <1>6, <1>8 DEF Finishing
<1> QED
  BY <1>7, <1>8

-----------------------------------------------------------------------------
(***************************************************************************)
(* What the calls of the writer do to its filter.                          *)
(***************************************************************************)
CallFor(x) == IF x = <<>> THEN "idle" ELSE "write"

LEMMA WriteMore ==
  ASSUME NEW en, IsEncoder(en), NEW im, NEW i, NEW s \in Seq(Seq(Byte)), NEW x \in Seq(Byte),
         Filtering(en, "idle", im, i, s), NEW f, f = [en EXCEPT !.input = x]
  PROVE  /\ IsEncoder(f) /\ f.out = en.out
         /\ Filtering(f, CallFor(x), im, i, Append(s, x))
<1>1. /\ IsEncoder(f) /\ f.out = en.out /\ f.input = x /\ f.pending = en.pending
      /\ f.action = en.action
  BY DEF IsEncoder
<1>2. en.action = "RUN" /\ Encoding(en.pending, <<>>, im \o en.out, i, s)
  BY DEF Filtering
<1>3. Encoding(f.pending, f.input, im \o f.out, i, Append(s, x))
  BY <1>1, <1>2, EncodingWrite
<1>4. CallFor(x) \in {"idle", "write"} /\ (CallFor(x) = "idle" => f.input = <<>>)
  BY <1>1 DEF CallFor
<1> QED
  BY <1>1, <1>2, <1>3, <1>4 DEF Filtering

LEMMA WriteFirst ==
  ASSUME NEW im \in Seq(PackedUnit), NEW x \in Seq(Byte), NEW f,
         f = [NewEncoder EXCEPT !.input = x]
  PROVE  /\ IsEncoder(f) /\ f.out = <<>>
         /\ Filtering(f, CallFor(x), im, Len(im), <<x>>)
<1>1. /\ DOMAIN NewEncoder = {"open", "action", "input", "pending", "out"}
      /\ NewEncoder.out = <<>> /\ NewEncoder.pending = <<>> /\ NewEncoder.action = "RUN"
  BY DEF NewEncoder, Closed
<1>2. /\ DOMAIN f = {"open", "action", "input", "pending", "out"}
      /\ f.out = <<>> /\ f.input = x /\ f.pending = <<>> /\ f.action = "RUN"
  BY <1>1
<1>3. im \o f.out = im /\ Len(im) \in Nat /\ IsEncoder(f)
  <2>1. im \o <<>> = im
    OBVIOUS
  <2>2. <<>> \in Seq(Byte) /\ <<>> \in Seq(PackedUnit)
    OBVIOUS
  <2>3. IsEncoder(f)
    BY <1>2, <2>2 DEF IsEncoder
  <2> QED
    BY <1>2, <2>1, <2>3
<1>4. Encoding(f.pending, f.input, im \o f.out, Len(im), <<x>>)
  BY <1>2, <1>3, EncodingNew
<1>5. CallFor(x) \in {"idle", "write"} /\ (CallFor(x) = "idle" => f.input = <<>>)
  BY <1>2 DEF CallFor
<1> QED
  BY <1>2, <1>3, <1>4, <1>5 DEF Filtering

LEMMA FlushBegins ==
  ASSUME NEW en, IsEncoder(en), NEW im, NEW i, NEW s, Filtering(en, "idle", im, i, s),
         NEW f, f = [en EXCEPT !.action = "FINISH"]
  PROVE  IsEncoder(f) /\ f.out = en.out /\ Finishing(f, "flush", im, i, s)
<1>1. /\ IsEncoder(f) /\ f.out = en.out /\ f.input = en.input /\ f.pending = en.pending
      /\ f.action = "FINISH"
  BY DEF IsEncoder
<1> QED
  BY <1>1 DEF Filtering, Finishing

LEMMA FilesInKept ==
  ASSUME NEW u, NEW t, NEW x, NEW fs, FilesIn(u, x, fs),
         Len(u) \in Nat, Len(t) \in Nat, Len(u) <= Len(t), \A k \in 1..Len(u) : t[k] = u[k]
  PROVE  FilesIn(t, x, fs)
BY StreamedKept DEF FilesIn

LEMMA LengthsAre ==
  ASSUME NEW s \in Seq(Seq(Byte))
  PROVE  Lengths(s) \in Seq(Nat) /\ Ids(s) \in Seq(Nat) /\ Len(Ids(s)) = Len(s)
<1>1. \A k \in 1..Len(s) : Len(s[k]) \in Nat
  OBVIOUS
<1> QED
  BY <1>1 DEF Lengths, Ids

LEMMA LengthsMore ==
  ASSUME NEW s \in Seq(Seq(Byte)), NEW x \in Seq(Byte)
  PROVE  /\ Lengths(Append(s, x)) = Append(Lengths(s), Len(x))
         /\ Ids(Append(s, x)) = Append(Ids(s), Len(s) + 1)
         /\ Append(s, x) \in Seq(Seq(Byte)) /\ Append(s, x) # <<>>
<1>1. Lengths(s) \in Seq(Nat) /\ Ids(s) \in Seq(Nat) /\ Len(Lengths(s)) = Len(s) /\ Len(Ids(s)) = Len(s)
  <2>1. Len(Lengths(s)) = Len(s) /\ Len(Ids(s)) = Len(s)
    BY DEF Lengths, Ids
  <2> QED
    BY <2>1, LengthsAre
<1>2. \A k \in 1..Len(s) : Lengths(s)[k] = Len(s[k]) /\ Ids(s)[k] = k /\ Append(s, x)[k] = s[k]
  BY DEF Lengths, Ids
<1>3. Len(Append(s, x)) = Len(s) + 1 /\ Append(s, x)[Len(s) + 1] = x
  OBVIOUS
<1>4. PICK y \in Seq(Seq(Byte)) : y = Append(s, x)
  <2>1. Append(s, x) \in Seq(Seq(Byte))
    OBVIOUS
  <2> QED
    BY <2>1, Zenon
<1>5. Lengths(y) \in Seq(Nat) /\ Ids(y) \in Seq(Nat)
  BY LengthsAre
<1>6. PICK m \in Seq(Nat), n \in Seq(Nat) :
        m = Append(Lengths(s), Len(x)) /\ n = Append(Ids(s), Len(s) + 1)
  <2>1. Append(Lengths(s), Len(x)) \in Seq(Nat) /\ Append(Ids(s), Len(s) + 1) \in Seq(Nat)
    BY <1>1
  <2> QED
    BY <2>1, Zenon
<1>7. Len(m) = Len(s) + 1 /\ Len(n) = Len(s) + 1
  BY <1>1, <1>6
<1>8. /\ Len(Lengths(y)) = Len(s) + 1 /\ Len(Ids(y)) = Len(s) + 1
      /\ \A k \in 1..(Len(s) + 1) : Lengths(y)[k] = Len(y[k]) /\ Ids(y)[k] = k
  <2>1. Len(y) = Len(s) + 1
    BY <1>3, <1>4
  <2>2. Len(Lengths(y)) = Len(y) /\ \A k \in 1..Len(y) : Lengths(y)[k] = Len(y[k])
    BY DEF Lengths
  <2>3. Len(Ids(y)) = Len(y) /\ \A k \in 1..Len(y) : Ids(y)[k] = k
    BY DEF Ids
  <2> QED
    BY <2>1, <2>2, <2>3, Zenon
<1>9. \A k \in 1..(Len(s) + 1) : m[k] = Len(y[k]) /\ n[k] = k
  BY <1>1, <1>2, <1>3, <1>4, <1>6
<1>10. Lengths(y) = m
  <2>1. Len(Lengths(y)) = Len(m) /\ \A k \in 1..Len(Lengths(y)) : Lengths(y)[k] = m[k]
    BY <1>7, <1>8, <1>9
  <2> QED
    BY <1>5, <2>1, SeqEqual, Zenon
<1>11. Ids(y) = n
  <2>1. Len(Ids(y)) = Len(n) /\ \A k \in 1..Len(Ids(y)) : Ids(y)[k] = n[k]
    BY <1>7, <1>8, <1>9
  <2> QED
    BY <1>5, <2>1, SeqEqual, Zenon
<1>12. y # <<>>
  BY <1>3, <1>4
<1> QED
  BY <1>4, <1>6, <1>10, <1>11, <1>12

-----------------------------------------------------------------------------
(***************************************************************************)
(* The writer.                                                             *)
(***************************************************************************)
LEMMA WriterInvInit ==
  ASSUME Init
  PROVE  WriterInv
<1>1. /\ writer = "Initial" /\ image = <<>> /\ hashed = <<>> /\ archive = <<>> /\ call = "idle"
      /\ after = "nothing" /\ files = <<>> /\ objects = <<>>
  BY DEF Init
<1>2. /\ encoder = [open |-> FALSE, action |-> "RUN", input |-> <<>>, pending |-> <<>>, out |-> <<>>]
      /\ metadata = [ids |-> <<>>, sizes |-> <<>>, entries |-> <<>>, offset |-> 0]
  BY DEF Init, Closed, NoMetadata
<1>3. IsEncoder(encoder) /\ Len(encoder.out) < OutSize
  BY <1>2, ArchiveFormatAssumption DEF IsEncoder
<1>4. WriterTypes
  BY <1>1, <1>3 DEF WriterTypes
<1>5. Recorded
  BY <1>1, <1>2 DEF Recorded, Metadata, Ids, Lengths
<1> QED
  BY <1>1, <1>4, <1>5
  DEF WriterInv, AtInitial, AtFiles, AtObjects, AtManifest, AtEnd

LEMMA AddFileKeeps ==
  ASSUME WriterInv, NEW n \in FileLengths, AddFile(n)
  PROVE  WriterInv'
<1> DEFINE x == Bytes("file", Len(files) + 1, n)
<1>1. /\ call = "idle" /\ after = "nothing" /\ writer \in {"Initial", "PushingFiles"}
      /\ writer' = "PushingFiles" /\ files' = Append(files, x) /\ call' = CallFor(x)
      /\ encoder' = [(IF writer = "Initial" THEN NewEncoder ELSE encoder) EXCEPT !.input = x]
      /\ metadata' = [metadata EXCEPT !.ids = Append(@, Len(files) + 1),
                                      !.sizes = Append(@, n)]
      /\ UNCHANGED <<image, hashed, after, archive, objects>>
  BY DEF AddFile, Write, CallFor
<1>2. WriterTypes /\ Recorded
  BY DEF WriterInv
<1>3. x \in Seq(Byte) /\ Len(x) = n /\ n \in Nat
  <2>1. n \in Nat /\ Len(files) + 1 \in Nat
    BY <1>2, ArchiveFormatAssumption DEF WriterTypes
  <2> QED
    BY <2>1, BytesType
<1> HIDE DEF x
<1>4. /\ files \in Seq(Seq(Byte)) /\ files' \in Seq(Seq(Byte)) /\ files' # <<>>
      /\ Ids(files') = Append(Ids(files), Len(files) + 1)
      /\ Lengths(files') = Append(Lengths(files), n)
  BY <1>1, <1>2, <1>3, LengthsMore DEF WriterTypes
<1>5. /\ IsEncoder(encoder') /\ Len(encoder'.out) < OutSize /\ objects = <<>>
      /\ Filtering(encoder', call', image, 0, files')
  <2>1. CASE writer = "Initial"
    <3>1. image = <<>> /\ files' = <<x>> /\ image \in Seq(PackedUnit) /\ Len(image) = 0
          /\ objects = <<>>
      BY <1>1, <2>1 DEF WriterInv, AtInitial
    <3>2. encoder' = [NewEncoder EXCEPT !.input = x]
      BY <1>1, <2>1
    <3>3. IsEncoder(encoder') /\ encoder'.out = <<>> /\ Filtering(encoder', CallFor(x), image, 0, <<x>>)
      BY <1>3, <3>1, <3>2, WriteFirst
    <3> QED
      BY <1>1, <3>1, <3>3, ArchiveFormatAssumption
  <2>2. CASE writer = "PushingFiles"
    <3>1. objects = <<>> /\ Filtering(encoder, "idle", image, 0, files)
      BY <1>1, <2>2 DEF WriterInv, AtFiles
    <3>2. encoder' = [encoder EXCEPT !.input = x]
      BY <1>1, <2>2
    <3>3. IsEncoder(encoder) /\ Len(encoder.out) < OutSize
      BY <1>2 DEF WriterTypes
    <3>4. /\ IsEncoder(encoder') /\ encoder'.out = encoder.out
          /\ Filtering(encoder', CallFor(x), image, 0, Append(files, x))
      BY <1>3, <1>4, <3>1, <3>2, <3>3, WriteMore
    <3> QED
      BY <1>1, <3>1, <3>3, <3>4
  <2> QED
    BY <1>1, <2>1, <2>2
<1>6. WriterTypes'
  BY <1>1, <1>2, <1>4, <1>5 DEF WriterTypes, CallFor
<1>7. Recorded'
  BY <1>1, <1>2, <1>3, <1>4, LengthsAre DEF Recorded, Metadata
<1>8. AtEnd'
  BY <1>1 DEF WriterInv, AtEnd
<1> QED
  BY <1>1, <1>4, <1>5, <1>6, <1>7, <1>8
  DEF WriterInv, AtInitial, AtFiles, AtObjects, AtManifest

MoreEntries(md, n, o) == [md EXCEPT !.entries = Append(@, n), !.offset = o]

LEMMA MetadataMore ==
  ASSUME NEW md \in Metadata, NEW n \in Nat, NEW o \in Nat
  PROVE  /\ MoreEntries(md, n, o) \in Metadata
         /\ MoreEntries(md, n, o).ids = md.ids /\ MoreEntries(md, n, o).sizes = md.sizes
         /\ MoreEntries(md, n, o).entries = Append(md.entries, n)
         /\ MoreEntries(md, n, o).offset = o
<1>1. Append(md.entries, n) \in Seq(Nat)
  BY DEF Metadata
<1> QED
  BY <1>1 DEF Metadata, MoreEntries

LEMMA OneElement ==
  ASSUME NEW S, NEW s \in Seq(S), Len(s) = 1
  PROVE  \E x \in S : s = <<x>>
<1>1. s[1] \in S
  OBVIOUS
<1>2. s = <<s[1]>>
  OBVIOUS
<1> QED
  BY <1>1, <1>2, Zenon

\* The first object opens its filter behind what there is.
LEMMA ObjectFirst ==
  ASSUME WriterTypes, encoder.out = <<>> \/ writer = "Initial",
         metadata \in Metadata,
         metadata.ids = Ids(files), metadata.sizes = Lengths(files), metadata.entries = <<>>,
         FilesIn(image, Len(image), files), archive = <<>>,
         NEW x \in Seq(Byte), objects' = <<x>>, PushObject(NewEncoder, Len(hashed)),
         after' = "nothing", UNCHANGED <<image, hashed, archive, files>>
  PROVE  WriterInv'
<1>1. /\ writer' = "PushingFsos" /\ call' = CallFor(x) /\ hashed = image
      /\ encoder' = [NewEncoder EXCEPT !.input = x]
      /\ metadata' = [metadata EXCEPT !.entries = Append(@, Len(x)), !.offset = Len(hashed)]
  <2>1. Last(objects') = x
    BY DEF Last
  <2> QED
    BY <2>1 DEF PushObject, Write, CallFor, WriterTypes
<1>2. image \in Seq(PackedUnit) /\ Len(image) \in Nat /\ Len(x) \in Nat
  BY DEF WriterTypes
<1>3. IsEncoder(encoder') /\ encoder'.out = <<>> /\ Filtering(encoder', CallFor(x), image, Len(image), <<x>>)
  BY <1>1, <1>2, WriteFirst
<1>4. objects' \in Seq(Seq(Byte)) /\ objects' # <<>>
  OBVIOUS
<1>5. WriterTypes'
  <2>1. Len(encoder'.out) < OutSize
    BY <1>3, ArchiveFormatAssumption
  <2> QED
    BY <1>1, <1>3, <1>4, <2>1 DEF WriterTypes, CallFor
<1>6. /\ metadata'.ids = metadata.ids /\ metadata'.sizes = metadata.sizes
      /\ metadata'.entries = <<Len(x)>> /\ metadata'.offset = Len(image)
      /\ metadata' \in Metadata
  <2>1. Append(<<>>, Len(x)) = <<Len(x)>>
    OBVIOUS
  <2>2. metadata' = MoreEntries(metadata, Len(x), Len(image))
    BY <1>1 DEF MoreEntries
  <2>3. /\ metadata' \in Metadata /\ metadata'.ids = metadata.ids
        /\ metadata'.sizes = metadata.sizes
        /\ metadata'.entries = Append(metadata.entries, Len(x)) /\ metadata'.offset = Len(image)
    BY <1>2, <2>2, MetadataMore
  <2> QED
    BY <2>1, <2>3
<1>7. Lengths(objects') = <<Len(x)>>
  BY DEF Lengths
<1>8. Recorded'
  BY <1>1, <1>6, <1>7 DEF Recorded
<1>9. AtObjects'
  BY <1>1, <1>3, <1>4, <1>6 DEF AtObjects
<1>10. AtEnd'
  BY <1>1 DEF AtEnd
<1> QED
  BY <1>1, <1>5, <1>8, <1>9, <1>10 DEF WriterInv, AtInitial, AtFiles, AtManifest

LEMMA AddFsoKeeps ==
  ASSUME WriterInv, NEW n \in ObjectLengths, AddFso(n)
  PROVE  WriterInv'
<1> DEFINE b == Bytes("object", Len(objects) + 1, n)
<1>1. /\ call = "idle" /\ after = "nothing" /\ writer \in {"Initial", "PushingFiles", "PushingFsos"}
      /\ objects' = Append(objects, b)
      /\ UNCHANGED <<image, hashed, archive, files>>
  BY DEF AddFso
<1>2. WriterTypes /\ Recorded
  BY DEF WriterInv
<1>3. b \in Seq(Byte)
  <2>1. n \in Nat /\ Len(objects) + 1 \in Nat
    BY <1>2, ArchiveFormatAssumption DEF WriterTypes
  <2> QED
    BY <2>1, BytesType
<1> HIDE DEF b
<1>4. PICK x \in Seq(Byte) : x = b
  BY <1>3
<1>5. objects \in Seq(Seq(Byte)) /\ objects' = Append(objects, x)
  BY <1>1, <1>2, <1>4 DEF WriterTypes
<1>6. CASE writer = "Initial"
  <2>1. PushObject(NewEncoder, Len(hashed)) /\ after' = "nothing"
    BY <1>1, <1>6 DEF AddFso
  <2>2. image = <<>> /\ files = <<>> /\ objects = <<>> /\ archive = <<>>
    BY <1>6 DEF WriterInv, AtInitial, AtEnd
  <2>3. objects' = <<x>> /\ FilesIn(image, Len(image), files)
    BY <1>5, <2>2 DEF FilesIn
  <2>4. /\ metadata.ids = Ids(files) /\ metadata.sizes = Lengths(files) /\ metadata.entries = <<>>
        /\ metadata \in Metadata
    BY <1>2, <1>6 DEF Recorded
  <2> QED
    BY <1>1, <1>2, <1>6, <2>1, <2>2, <2>3, <2>4, ObjectFirst
<1>7. CASE writer = "PushingFiles"
  <2>1. Flush /\ after' = "object" /\ UNCHANGED <<writer, metadata>>
    BY <1>7 DEF AddFso
  <2>2. /\ files # <<>> /\ objects = <<>> /\ Filtering(encoder, "idle", image, 0, files)
    BY <1>1, <1>7 DEF WriterInv, AtFiles
  <2>3. /\ encoder' = [encoder EXCEPT !.action = "FINISH"] /\ call' = "flush"
        /\ IsEncoder(encoder) /\ Len(encoder.out) < OutSize
    BY <1>2, <2>1 DEF Flush, WriterTypes
  <2>4. /\ IsEncoder(encoder') /\ encoder'.out = encoder.out
        /\ Finishing(encoder', "flush", image, 0, files)
    BY <2>2, <2>3, FlushBegins
  <2>5. objects' \in Seq(Seq(Byte)) /\ Len(objects') = 1
    BY <1>5, <2>2
  <2>6. WriterTypes'
    BY <1>1, <1>2, <2>1, <2>3, <2>4, <2>5 DEF WriterTypes
  <2>7. Recorded'
    BY <1>1, <1>2, <1>7, <2>1 DEF Recorded
  <2>8. AtEnd'
    BY <1>1, <1>7, <2>1 DEF WriterInv, AtEnd
  <2> QED
    BY <1>1, <1>7, <2>1, <2>2, <2>3, <2>4, <2>5, <2>6, <2>7, <2>8
    DEF WriterInv, AtInitial, AtFiles, AtObjects, AtManifest
<1>8. CASE writer = "PushingFsos"
  <2>1. PushObject(encoder, metadata.offset) /\ after' = "nothing"
    BY <1>1, <1>8 DEF AddFso
  <2>2. /\ FilesIn(image, metadata.offset, files) /\ archive = <<>>
        /\ Filtering(encoder, "idle", image, metadata.offset, objects)
    BY <1>1, <1>8 DEF WriterInv, AtObjects, AtEnd
  <2>3. Last(objects') = x
    BY <1>5 DEF Last
  <2>4. /\ writer' = "PushingFsos" /\ call' = CallFor(x)
        /\ encoder' = [encoder EXCEPT !.input = x]
        /\ metadata' = [metadata EXCEPT !.entries = Append(@, Len(x)), !.offset = metadata.offset]
    BY <2>1, <2>3 DEF PushObject, Write, CallFor
  <2>5. IsEncoder(encoder) /\ Len(encoder.out) < OutSize
    BY <1>2 DEF WriterTypes
  <2>6. /\ IsEncoder(encoder') /\ encoder'.out = encoder.out
        /\ Filtering(encoder', CallFor(x), image, metadata.offset, objects')
    BY <1>5, <2>2, <2>4, <2>5, WriteMore
  <2>7. /\ objects' \in Seq(Seq(Byte)) /\ objects' # <<>>
        /\ Lengths(objects') = Append(Lengths(objects), Len(x))
    BY <1>5, LengthsMore
  <2>8. WriterTypes'
    BY <1>1, <1>2, <2>1, <2>4, <2>5, <2>6, <2>7 DEF WriterTypes, CallFor
  <2>9. /\ metadata \in Metadata
        /\ metadata.ids = Ids(files) /\ metadata.sizes = Lengths(files)
        /\ metadata.entries = Lengths(objects) /\ Len(x) \in Nat
    BY <1>2, <1>8 DEF Recorded
  <2>10. /\ metadata'.ids = metadata.ids /\ metadata'.sizes = metadata.sizes
         /\ metadata'.entries = Lengths(objects') /\ metadata'.offset = metadata.offset
         /\ metadata' \in Metadata
    <3>1. metadata.offset \in Nat
      BY <2>9 DEF Metadata
    <3>2. metadata' = MoreEntries(metadata, Len(x), metadata.offset)
      BY <2>4 DEF MoreEntries
    <3>3. /\ metadata' \in Metadata /\ metadata'.ids = metadata.ids
          /\ metadata'.sizes = metadata.sizes /\ metadata'.offset = metadata.offset
          /\ metadata'.entries = Append(metadata.entries, Len(x))
      BY <2>9, <3>1, <3>2, MetadataMore
    <3> QED
      BY <2>7, <2>9, <3>3
  <2>11. Recorded'
    BY <1>1, <2>4, <2>9, <2>10 DEF Recorded
  <2>12. AtObjects'
    BY <1>1, <2>1, <2>2, <2>4, <2>6, <2>7, <2>10 DEF AtObjects
  <2> QED
    BY <1>1, <2>1, <2>2, <2>4, <2>8, <2>11, <2>12
    DEF WriterInv, AtInitial, AtFiles, AtManifest, AtEnd
<1> QED
  BY <1>1, <1>6, <1>7, <1>8

LEMMA FirstObjectKeeps ==
  ASSUME WriterInv, FirstObject
  PROVE  WriterInv'
<1>1. /\ after = "object" /\ call = "idle" /\ objects' = objects /\ after' = "nothing"
      /\ PushObject(NewEncoder, Len(hashed)) /\ UNCHANGED <<image, hashed, archive, files>>
  BY DEF FirstObject
<1>2. WriterTypes /\ Recorded
  BY DEF WriterInv
<1>3. writer = "PushingFiles"
  BY <1>1, <1>2 DEF WriterInv, WriterTypes, AtInitial, AtObjects, AtEnd
<1>4. /\ files # <<>> /\ Len(objects) = 1 /\ Finishing(encoder, "idle", image, 0, files)
      /\ archive = <<>>
  BY <1>1, <1>3 DEF WriterInv, AtFiles, AtEnd
<1>5. encoder.out = <<>> /\ FilesIn(image, Len(image), files)
  BY <1>4 DEF Finishing, FilesIn
<1>6. PICK x \in Seq(Byte) : objects = <<x>>
  BY <1>2, <1>4, OneElement DEF WriterTypes
<1>7. /\ metadata.ids = Ids(files) /\ metadata.sizes = Lengths(files) /\ metadata.entries = <<>>
      /\ metadata \in Metadata
  BY <1>2, <1>3 DEF Recorded
<1> QED
  BY <1>1, <1>2, <1>4, <1>5, <1>6, <1>7, ObjectFirst

LEMMA AddVersionManifestKeeps ==
  ASSUME WriterInv, AddVersionManifest
  PROVE  WriterInv'
<1>1. /\ call = "idle" /\ after = "nothing"
      /\ UNCHANGED <<image, hashed, metadata, archive, files, objects>>
  BY DEF AddVersionManifest
<1>2. WriterTypes /\ Recorded
  BY DEF WriterInv
<1>3. CASE writer = "PushingFsos"
  <2>1. /\ Flush /\ after' = "manifest" /\ writer' = writer
    BY <1>3 DEF AddVersionManifest
  <2>2. /\ objects # <<>> /\ FilesIn(image, metadata.offset, files) /\ archive = <<>>
        /\ Filtering(encoder, "idle", image, metadata.offset, objects)
    BY <1>1, <1>3 DEF WriterInv, AtObjects, AtEnd
  <2>3. /\ encoder' = [encoder EXCEPT !.action = "FINISH"] /\ call' = "flush"
        /\ IsEncoder(encoder) /\ Len(encoder.out) < OutSize
    BY <1>2, <2>1 DEF Flush, WriterTypes
  <2>4. /\ IsEncoder(encoder') /\ encoder'.out = encoder.out
        /\ Finishing(encoder', "flush", image, metadata.offset, objects)
    BY <2>2, <2>3, FlushBegins
  <2>5. WriterTypes'
    BY <1>1, <1>2, <2>1, <2>3, <2>4 DEF WriterTypes
  <2>6. Recorded'
    BY <1>1, <1>2, <2>1 DEF Recorded
  <2> QED
    BY <1>1, <1>3, <2>1, <2>2, <2>3, <2>4, <2>5, <2>6
    DEF WriterInv, AtInitial, AtFiles, AtObjects, AtManifest, AtEnd
<1>4. CASE writer # "PushingFsos"
  <2>1. writer' = "Failed" /\ UNCHANGED <<encoder, call, after>> /\ writer # "Final"
    BY <1>4 DEF AddVersionManifest
  <2>2. WriterTypes' /\ Recorded' /\ AtEnd'
    BY <1>1, <1>2, <2>1 DEF WriterInv, WriterTypes, Recorded, AtEnd
  <2> QED
    BY <2>1, <2>2 DEF WriterInv, AtInitial, AtFiles, AtObjects, AtManifest
<1> QED
  BY <1>3, <1>4

LEMMA WriteManifestKeeps ==
  ASSUME WriterInv, WriteManifest
  PROVE  WriterInv'
<1>1. /\ after = "manifest" /\ call = "idle" /\ after' = "flush"
      /\ Write(NewEncoder, Serialized(Manifest))
      /\ metadata' = [metadata EXCEPT !.offset = Len(hashed)]
      /\ UNCHANGED <<writer, image, hashed, archive, files, objects>>
  BY DEF WriteManifest
<1>2. WriterTypes /\ Recorded
  BY DEF WriterInv
<1>3. writer = "PushingFsos"
  BY <1>1, <1>2 DEF WriterInv, WriterTypes, AtInitial, AtFiles, AtEnd
<1>4. /\ objects # <<>> /\ FilesIn(image, metadata.offset, files) /\ archive = <<>>
      /\ Finishing(encoder, "idle", image, metadata.offset, objects)
  BY <1>1, <1>3 DEF WriterInv, AtObjects, AtEnd
<1>5. Streamed(image, metadata.offset, Len(image), objects)
  BY <1>4 DEF Finishing
<1>6. image \in Seq(PackedUnit) /\ Len(image) \in Nat /\ hashed = image
  BY <1>2 DEF WriterTypes
<1>7. /\ metadata \in Metadata /\ metadata.ids = Ids(files) /\ metadata.sizes = Lengths(files)
      /\ metadata.entries = Lengths(objects)
  BY <1>2, <1>3 DEF Recorded
<1>8. PICK man \in Manifests :
        man = Manifest /\ Describes(man, metadata.offset, Len(image), files, objects)
  <2>1. Len(image) - metadata.offset \in Nat
    BY <1>5, <1>6 DEF Streamed
  <2>2. Manifest \in Manifests
    BY <1>6, <1>7, <2>1 DEF Manifest, Manifests, Metadata
  <2>3. /\ Manifest.ids = Ids(files) /\ Manifest.sizes = Lengths(files)
        /\ Manifest.entries = Lengths(objects)
        /\ Manifest.entriesSize = Len(image) - metadata.offset
    BY <1>6, <1>7 DEF Manifest
  <2> QED
    BY <2>2, <2>3 DEF Describes
<1>9. PICK x \in Seq(Byte) : x = Serialized(man)
  BY SerializedIs
<1>10. encoder' = [NewEncoder EXCEPT !.input = x] /\ call' = CallFor(x)
  BY <1>1, <1>8, <1>9 DEF Write, CallFor
<1>11. /\ IsEncoder(encoder') /\ encoder'.out = <<>>
       /\ Filtering(encoder', CallFor(x), image, Len(image), <<x>>)
  BY <1>6, <1>10, WriteFirst
<1>12. Len(encoder'.out) < OutSize
  BY <1>11, ArchiveFormatAssumption
<1>13. WriterTypes'
  BY <1>1, <1>2, <1>10, <1>11, <1>12 DEF WriterTypes, CallFor
<1>14. /\ metadata' \in Metadata /\ metadata'.ids = metadata.ids /\ metadata'.sizes = metadata.sizes
       /\ metadata'.entries = metadata.entries /\ metadata'.offset = Len(image)
  BY <1>1, <1>6, <1>7 DEF Metadata
<1>15. Recorded'
  BY <1>1, <1>3, <1>7, <1>14 DEF Recorded
<1>16. AtManifest'
  <2>1. Filtering(encoder', call', image', metadata'.offset, <<Serialized(man)>>)
    BY <1>1, <1>9, <1>10, <1>11, <1>14
  <2> QED
    BY <1>1, <1>4, <1>5, <1>8, <1>14, <2>1 DEF AtManifest
<1> QED
  BY <1>1, <1>3, <1>4, <1>13, <1>15, <1>16
  DEF WriterInv, AtInitial, AtFiles, AtObjects, AtEnd

LEMMA FlushManifestKeeps ==
  ASSUME WriterInv, FlushManifest
  PROVE  WriterInv'
<1>1. /\ after = "flush" /\ call = "idle" /\ after' = "trailer" /\ Flush
      /\ UNCHANGED <<writer, image, hashed, metadata, archive, files, objects>>
  BY DEF FlushManifest
<1>2. WriterTypes /\ Recorded
  BY DEF WriterInv
<1>3. writer = "PushingFsos" /\ archive = <<>>
  BY <1>1, <1>2 DEF WriterInv, WriterTypes, AtInitial, AtFiles, AtEnd
<1>4. PICK x, man :
        /\ objects # <<>> /\ FilesIn(image, x, files) /\ Streamed(image, x, metadata.offset, objects)
        /\ Describes(man, x, metadata.offset, files, objects)
        /\ Filtering(encoder, "idle", image, metadata.offset, <<Serialized(man)>>)
  BY <1>1, <1>3 DEF WriterInv, AtManifest
<1>5. /\ encoder' = [encoder EXCEPT !.action = "FINISH"] /\ call' = "flush"
      /\ IsEncoder(encoder) /\ Len(encoder.out) < OutSize
  BY <1>1, <1>2 DEF Flush, WriterTypes
<1>6. /\ IsEncoder(encoder') /\ encoder'.out = encoder.out
      /\ Finishing(encoder', "flush", image, metadata.offset, <<Serialized(man)>>)
  BY <1>4, <1>5, FlushBegins
<1>7. WriterTypes'
  BY <1>1, <1>2, <1>5, <1>6 DEF WriterTypes
<1>8. Recorded'
  BY <1>1, <1>2 DEF Recorded
<1>9. AtManifest'
  BY <1>1, <1>4, <1>5, <1>6 DEF AtManifest
<1> QED
  BY <1>1, <1>3, <1>7, <1>8, <1>9
  DEF WriterInv, AtInitial, AtFiles, AtObjects, AtEnd

LEMMA LastAppended ==
  ASSUME NEW S, NEW s \in Seq(S), NEW x \in S
  PROVE  Append(s, x) \in Seq(S) /\ Len(Append(s, x)) = Len(s) + 1 /\ Append(s, x)[Len(s) + 1] = x
OBVIOUS

LEMMA TrailedIs ==
  ASSUME NEW u \in Seq(PackedUnit), NEW m \in Nat, m <= Len(u), NEW a,
         a = Append(Append(u, Length(Len(u) - m)), Hash(u \o <<Length(Len(u) - m)>>))
  PROVE  /\ a \in Seq(ArchiveUnit) /\ Len(a) = Len(u) + 2
         /\ \A k \in 1..Len(u) : a[k] = u[k]
         /\ a[Len(u) + 1] = Length(Len(u) - m) /\ a[Len(a)] = Hash(Front(a))
<1>1. PICK n : n = Length(Len(u) - m)
  OBVIOUS
<1>2. n \in HashedUnit
  BY <1>1 DEF HashedUnit, Length
<1>3. \A k \in 1..Len(u) : u[k] \in HashedUnit
  BY DEF HashedUnit
<1>4. u \in Seq(HashedUnit) /\ Append(u, n) = u \o <<n>>
  <2>1. u \in Seq(HashedUnit)
    BY <1>3
  <2>2. Append(u, n) = u \o <<n>>
    OBVIOUS
  <2> QED
    BY <2>1, <2>2
<1>5. PICK w \in Seq(HashedUnit) : w = Append(u, n) /\ w = u \o <<n>>
  <2>1. Append(u, n) \in Seq(HashedUnit)
    BY <1>2, <1>4
  <2> QED
    BY <1>4, <2>1, Zenon
<1>6. PICK h \in ArchiveUnit : h = Hash(w)
  <2>1. Hash(w) \in ArchiveUnit
    BY DEF ArchiveUnit, Hash
  <2> QED
    BY <2>1, Zenon
<1>7. a = Append(w, h)
  BY <1>1, <1>5, <1>6
<1>8. \A k \in 1..Len(w) : w[k] \in ArchiveUnit
  BY DEF ArchiveUnit
<1>9. w \in Seq(ArchiveUnit)
  BY <1>8
<1>10. a \in Seq(ArchiveUnit) /\ Len(a) = Len(w) + 1 /\ a[Len(a)] = h /\ SubSeq(a, 1, Len(a) - 1) = w
  <2>1. a \in Seq(ArchiveUnit) /\ Len(a) = Len(w) + 1 /\ a[Len(w) + 1] = h
    <3>1. /\ Append(w, h) \in Seq(ArchiveUnit) /\ Len(Append(w, h)) = Len(w) + 1
          /\ Append(w, h)[Len(w) + 1] = h
      BY <1>9, LastAppended
    <3> QED
      BY <1>7, <3>1, Zenon
  <2>2. SubSeq(Append(w, h), 1, Len(w)) = w
    OBVIOUS
  <2>3. Len(a) - 1 = Len(w)
    BY <2>1
  <2> QED
    BY <1>7, <2>1, <2>2, <2>3
<1>11. Len(w) = Len(u) + 1 /\ w[Len(u) + 1] = n /\ \A k \in 1..Len(u) : w[k] = u[k]
  BY <1>4, <1>5
<1>12. \A k \in 1..Len(w) : a[k] = w[k]
  BY <1>7, <1>9
<1>13. Front(a) = w
  BY <1>10 DEF Front
<1> QED
  BY <1>1, <1>6, <1>10, <1>11, <1>12, <1>13

LEMMA CommitKeeps ==
  ASSUME WriterInv, Commit
  PROVE  WriterInv'
<1>1. /\ after = "trailer" /\ call = "idle" /\ after' = "nothing" /\ call' = call
      /\ archive' = Trailed(image) /\ writer' = "Final" /\ image' = <<>> /\ hashed' = <<>>
      /\ encoder' = Closed /\ metadata' = NoMetadata /\ files' = files /\ objects' = objects
  BY DEF Commit
<1>2. WriterTypes /\ Recorded
  BY DEF WriterInv
<1>3. writer = "PushingFsos"
  BY <1>1, <1>2 DEF WriterInv, WriterTypes, AtInitial, AtFiles, AtEnd
<1>4. PICK x, man :
        /\ objects # <<>> /\ FilesIn(image, x, files) /\ Streamed(image, x, metadata.offset, objects)
        /\ Describes(man, x, metadata.offset, files, objects)
        /\ Finishing(encoder, "idle", image, metadata.offset, <<Serialized(man)>>)
  BY <1>1, <1>3 DEF WriterInv, AtManifest
<1>5. PICK m : m = metadata.offset
  OBVIOUS
<1>6. Streamed(image, m, Len(image), <<Serialized(man)>>) /\ Streamed(image, x, m, objects)
  BY <1>4, <1>5 DEF Finishing
<1>7. /\ image \in Seq(PackedUnit) /\ Len(image) \in Nat /\ hashed = image
      /\ files \in Seq(Seq(Byte)) /\ objects \in Seq(Seq(Byte))
  BY <1>2 DEF WriterTypes
<1>8. m \in Nat /\ m <= Len(image)
  BY <1>6, <1>7 DEF Streamed
<1>9. PICK a : a = archive' /\ a = Append(Append(image, Length(Len(image) - m)),
                                          Hash(image \o <<Length(Len(image) - m)>>))
  <2>1. Last(Append(image, Length(Len(image) - m))) = Length(Len(image) - m)
    BY <1>7 DEF Last
  <2> QED
    BY <1>1, <1>5, <1>7, <2>1 DEF Trailed
<1>10. /\ a \in Seq(ArchiveUnit) /\ Len(a) = Len(image) + 2
       /\ \A k \in 1..Len(image) : a[k] = image[k]
       /\ a[Len(image) + 1] = Length(Len(image) - m) /\ a[Len(a)] = Hash(Front(a))
  BY <1>7, <1>8, <1>9, TrailedIs
<1>11. Len(a) \in Nat /\ Len(a) - 2 = Len(image) /\ Len(a) - 1 = Len(image) + 1
       /\ Len(image) <= Len(a)
  BY <1>7, <1>10
<1>12. FilesIn(a, x, files)
  BY <1>4, <1>7, <1>10, <1>11, FilesInKept
<1>13. Streamed(a, x, m, objects) /\ Streamed(a, m, Len(image), <<Serialized(man)>>)
  BY <1>6, <1>7, <1>10, <1>11, StreamedKept
<1>14. Laid(a, files, objects, x, m, man)
  BY <1>4, <1>5, <1>7, <1>10, <1>11, <1>12, <1>13 DEF Laid
<1>15. IsEncoder(Closed) /\ Len(Closed.out) < OutSize
  BY ArchiveFormatAssumption DEF Closed, IsEncoder
<1>16. WriterTypes'
  BY <1>1, <1>7, <1>15 DEF WriterTypes
<1>17. Recorded'
  BY <1>1 DEF Recorded, Metadata, NoMetadata
<1>18. AtEnd'
  BY <1>1, <1>9, <1>14 DEF AtEnd
<1> QED
  BY <1>1, <1>16, <1>17, <1>18
  DEF WriterInv, AtInitial, AtFiles, AtObjects, AtManifest

LEMMA EncodeKeeps ==
  ASSUME WriterInv, Encode
  PROVE  WriterInv'
<1>1. /\ call # "idle" /\ UNCHANGED <<writer, after, metadata, archive, reading, files, objects>>
      /\ WriterTypes /\ Recorded
  BY EncodeGives DEF WriterInv
<1>2. PICK g \in Encoded(encoder) :
        /\ PassData(g)
        /\ call' = IF (IF call = "write" THEN g.input = <<>> ELSE StreamEnded(g))
                   THEN "idle" ELSE call
  BY <1>1, EncodeGives
<1>3. /\ IsEncoder(encoder') /\ image' \in Seq(PackedUnit) /\ hashed' = image'
      /\ Len(encoder'.out) < OutSize /\ Len(image) <= Len(image')
      /\ \A k \in 1..Len(image) : image'[k] = image[k]
  BY <1>1, <1>2, Passed
<1>4. call' \in {"idle", "write", "flush"}
  BY <1>1, <1>2 DEF WriterTypes
<1>5. WriterTypes'
  BY <1>1, <1>3, <1>4 DEF WriterTypes
<1>6. Recorded'
  BY <1>1 DEF Recorded
<1>7. writer \notin {"Initial", "Final", "Failed"}
  BY <1>1 DEF WriterInv, AtInitial, AtEnd
<1>8. Len(image) \in Nat /\ Len(image') \in Nat
  BY <1>1, <1>3 DEF WriterTypes
<1>9. \A x : FilesIn(image, x, files) => FilesIn(image', x, files')
  BY <1>1, <1>3, <1>8, FilesInKept
<1>10. \A x, j : Streamed(image, x, j, objects) => Streamed(image', x, j, objects')
  BY <1>1, <1>3, <1>8, StreamedKept
<1>11. \A i, s : Filtering(encoder, call, image, i, s) => Filtering(encoder', call', image', i, s)
  BY <1>1, FilteringKept
<1>12. \A i, s : Finishing(encoder, call, image, i, s) => Finishing(encoder', call', image', i, s)
  BY <1>1, FinishingKept
<1>13. AtFiles'
  <2> SUFFICES ASSUME writer = "PushingFiles" PROVE AtFiles'
    BY <1>1 DEF AtFiles
  <2>1. CASE after = "nothing" /\ objects = <<>> /\ Filtering(encoder, call, image, 0, files)
    BY <1>1, <1>11, <2>1 DEF WriterInv, AtFiles
  <2>2. CASE after = "object" /\ Len(objects) = 1 /\ Finishing(encoder, call, image, 0, files)
    BY <1>1, <1>12, <2>2 DEF WriterInv, AtFiles
  <2> QED
    BY <2>1, <2>2 DEF WriterInv, AtFiles
<1>14. AtObjects'
  <2> SUFFICES ASSUME writer = "PushingFsos", after \in {"nothing", "object", "manifest"}
               PROVE  AtObjects'
    BY <1>1 DEF AtObjects
  <2>1. objects # <<>> /\ FilesIn(image, metadata.offset, files)
    BY DEF WriterInv, AtObjects
  <2>2. CASE after = "nothing" /\ Filtering(encoder, call, image, metadata.offset, objects)
    BY <1>1, <1>9, <1>11, <2>1, <2>2 DEF AtObjects
  <2>3. CASE after = "manifest" /\ Finishing(encoder, call, image, metadata.offset, objects)
    BY <1>1, <1>9, <1>12, <2>1, <2>3 DEF AtObjects
  <2> QED
    BY <2>2, <2>3 DEF WriterInv, AtObjects
<1>15. AtManifest'
  <2> SUFFICES ASSUME writer = "PushingFsos", after \in {"flush", "trailer"}
               PROVE  AtManifest'
    BY <1>1 DEF AtManifest
  <2>1. PICK x, man :
          /\ objects # <<>> /\ FilesIn(image, x, files) /\ Streamed(image, x, metadata.offset, objects)
          /\ Describes(man, x, metadata.offset, files, objects)
          /\ \/ after = "flush"
                /\ Filtering(encoder, call, image, metadata.offset, <<Serialized(man)>>)
             \/ after = "trailer"
                /\ Finishing(encoder, call, image, metadata.offset, <<Serialized(man)>>)
    BY DEF WriterInv, AtManifest
  <2>2. /\ objects' # <<>> /\ FilesIn(image', x, files')
        /\ Streamed(image', x, metadata'.offset, objects')
        /\ Describes(man, x, metadata'.offset, files', objects')
    BY <1>1, <1>9, <1>10, <2>1
  <2>3. \/ after' = "flush"
           /\ Filtering(encoder', call', image', metadata'.offset, <<Serialized(man)>>)
        \/ after' = "trailer"
           /\ Finishing(encoder', call', image', metadata'.offset, <<Serialized(man)>>)
    BY <1>1, <1>11, <1>12, <2>1
  <2> QED
    BY <2>2, <2>3 DEF AtManifest
<1> QED
  BY <1>1, <1>5, <1>6, <1>7, <1>13, <1>14, <1>15 DEF WriterInv, AtInitial, AtEnd

LEMMA FailKeeps ==
  ASSUME WriterInv, Fail
  PROVE  WriterInv'
<1>1. /\ writer # "Final" /\ writer' = "Failed" /\ image' = <<>> /\ hashed' = <<>>
      /\ encoder' = Closed /\ metadata' = NoMetadata /\ call' = "idle" /\ after' = "nothing"
      /\ UNCHANGED <<archive, files, objects>>
  BY DEF Fail
<1>2. IsEncoder(Closed) /\ Len(Closed.out) < OutSize
  BY ArchiveFormatAssumption DEF Closed, IsEncoder
<1>3. WriterTypes'
  BY <1>1, <1>2 DEF WriterInv, WriterTypes
<1>4. Recorded'
  BY <1>1 DEF Recorded, Metadata, NoMetadata
<1>5. AtEnd'
  BY <1>1 DEF WriterInv, AtEnd
<1> QED
  BY <1>1, <1>3, <1>4, <1>5 DEF WriterInv, AtInitial, AtFiles, AtObjects, AtManifest

LEMMA ReaderLeaves ==
  ASSUME Reader \/ UNCHANGED vars
  PROVE  UNCHANGED <<writing, archive>>
BY DEF Reader, ReadManifest, ReadBaseObjects, Begin, Start, Ask, Decode, Return, EndRead, vars

LEMMA WriterInvNext ==
  ASSUME WriterInv, [Next]_vars
  PROVE  WriterInv'
<1>1. CASE Writer
  BY <1>1, AddFileKeeps, AddFsoKeeps, FirstObjectKeeps, AddVersionManifestKeeps,
     WriteManifestKeeps, FlushManifestKeeps, CommitKeeps, EncodeKeeps, FailKeeps
  DEF Writer
<1>2. CASE Reader \/ UNCHANGED vars
  <2>1. UNCHANGED <<writer, image, hashed, encoder, call, after, metadata, files, objects, archive>>
    BY <1>2, ReaderLeaves DEF writing
  <2>2. WriterTypes' /\ Recorded'
    BY <2>1 DEF WriterInv, WriterTypes, Recorded
  <2>3. AtInitial' /\ AtFiles' /\ AtObjects'
    BY <2>1 DEF WriterInv, AtInitial, AtFiles, AtObjects
  <2>4. AtManifest' /\ AtEnd'
    BY <2>1 DEF WriterInv, AtManifest, AtEnd
  <2> QED
    BY <2>2, <2>3, <2>4 DEF WriterInv
<1> QED
  BY <1>1, <1>2 DEF Next

-----------------------------------------------------------------------------
(***************************************************************************)
(* The file others see is whole.                                           *)
(***************************************************************************)
LEMMA StreamedUnits ==
  ASSUME NEW u, NEW i, NEW j, NEW s, Streamed(u, i, j, s), Len(u) \in Nat
  PROVE  /\ i \in Nat /\ j \in Nat /\ i < j /\ j <= Len(u) /\ u[j] = End
         /\ \A k \in (i + 1)..(j - 1) : \E y \in Seq(Byte) : u[k] = Block(y)
<1>1. i \in Nat /\ j \in Nat /\ i < j /\ j <= Len(u) /\ u[j] = End
  BY DEF Streamed
<1>2. PICK b, e, c : Splits(s, b, e) /\ Packs(u, i, j - 1, b, c) /\ c[j - 1] = Len(b)
  BY DEF Streamed
<1>3. ASSUME NEW k \in (i + 1)..(j - 1)
      PROVE  \E y \in Seq(Byte) : u[k] = Block(y)
  <2>1. k - 1 \in i..(j - 1) /\ k \in i..(j - 1)
    BY <1>1
  <2>2. b \in Seq(Byte) /\ c[k - 1] \in 0..Len(b) /\ c[k] \in 0..Len(b) /\ c[k - 1] <= c[k]
    BY <1>2, <2>1 DEF Splits, Packs
  <2>3. u[k] = Block(Slice(b, c[k - 1], c[k]))
    BY <1>2 DEF Packs
  <2>4. c[k - 1] \in Nat /\ c[k] \in Nat /\ c[k] <= Len(b)
    BY <2>2
  <2>5. Slice(b, c[k - 1], c[k]) \in Seq(Byte)
    BY <2>2, <2>4, SliceIs, Zenon
  <2> QED
    BY <2>3, <2>5
<1> QED
  BY <1>1, <1>3

LEMMA StreamedEnds ==
  ASSUME NEW u, NEW i, NEW j, NEW s, Streamed(u, i, j, s), Len(u) \in Nat
  PROVE  \A k \in (i + 1)..j : u[k] = End <=> k = j
<1>1. i \in Nat /\ j \in Nat /\ i < j /\ u[j] = End
  BY StreamedUnits
<1>2. ASSUME NEW k \in (i + 1)..(j - 1)
      PROVE  u[k] # End
  <2>1. PICK y \in Seq(Byte) : u[k] = Block(y)
    BY StreamedUnits
  <2> QED
    BY <2>1, BlockIs
<1> QED
  BY <1>1, <1>2

LEMMA LaidPlaces ==
  ASSUME NEW a, NEW fs, NEW os, NEW x, NEW m, NEW man, Laid(a, fs, os, x, m, man)
  PROVE  /\ x \in Nat /\ m \in Nat /\ x < m /\ m < Len(a) - 2 /\ Len(a) \in Nat
         /\ IF fs = <<>> THEN x = 0 ELSE 0 < x
<1>1. Len(a) \in Nat
  BY DEF Laid
<1>2. Streamed(a, x, m, os) /\ Streamed(a, m, Len(a) - 2, <<Serialized(man)>>)
  BY DEF Laid
<1>3. x \in Nat /\ m \in Nat /\ x < m /\ m < Len(a) - 2
  BY <1>1, <1>2, StreamedUnits, Zenon
<1>4. IF fs = <<>> THEN x = 0 ELSE 0 < x
  <2>1. CASE fs = <<>>
    BY <2>1 DEF Laid, FilesIn
  <2>2. CASE fs # <<>>
    <3>1. Streamed(a, 0, x, fs)
      BY <2>2 DEF Laid, FilesIn
    <3> QED
      BY <1>1, <2>2, <3>1, StreamedUnits, Zenon
  <2> QED
    BY <2>1, <2>2
<1> QED
  BY <1>1, <1>3, <1>4

LEMMA PairSize ==
  ASSUME NEW x, NEW y, x # y
  PROVE  IsFiniteSet({x, y}) /\ Cardinality({x, y}) = 2
<1>1. IsFiniteSet({x}) /\ Cardinality({x}) = 1
  BY FS_Singleton, Zenon
<1>2. IsFiniteSet({x} \cup {y}) /\ Cardinality({x} \cup {y}) = 1 + 1
  BY <1>1, FS_AddElement
<1> QED
  BY <1>2

LEMMA LaidEnds ==
  ASSUME NEW a, NEW fs, NEW os, NEW x, NEW m, NEW man, Laid(a, fs, os, x, m, man)
  PROVE  Cardinality({i \in 1..Len(a) : a[i] = End}) = IF fs = <<>> THEN 2 ELSE 3
<1>1. /\ x \in Nat /\ m \in Nat /\ x < m /\ m < Len(a) - 2 /\ Len(a) \in Nat
      /\ IF fs = <<>> THEN x = 0 ELSE 0 < x
  BY LaidPlaces
<1>2. Streamed(a, x, m, os) /\ Streamed(a, m, Len(a) - 2, <<Serialized(man)>>)
  BY DEF Laid
<1>3. \A k \in (x + 1)..m : a[k] = End <=> k = m
  BY <1>1, <1>2, StreamedEnds, Zenon
<1>4. \A k \in (m + 1)..(Len(a) - 2) : a[k] = End <=> k = Len(a) - 2
  <2>1. PICK q : q = Len(a) - 2
    OBVIOUS
  <2>2. Streamed(a, m, q, <<Serialized(man)>>) /\ Len(a) \in Nat
    BY <1>1, <1>2, <2>1
  <2>3. \A k \in (m + 1)..q : a[k] = End <=> k = q
    BY <2>2, StreamedEnds, Zenon
  <2> QED
    BY <2>1, <2>3
<1>5. \A k \in (x + 1)..Len(a) : a[k] = End <=> k \in {m, Len(a) - 2}
  <2> SUFFICES ASSUME NEW k \in (x + 1)..Len(a)
               PROVE  a[k] = End <=> (k = m \/ k = Len(a) - 2)
    OBVIOUS
  <2>1. a[Len(a) - 1] # End /\ a[Len(a)] # End
    BY DEF Laid, Length, Hash, End
  <2>2. CASE k \in (x + 1)..m
    BY <1>1, <1>3, <2>2
  <2>3. CASE k \in (m + 1)..(Len(a) - 2)
    BY <1>1, <1>4, <2>3
  <2>4. CASE k \in {Len(a) - 1, Len(a)}
    BY <1>1, <2>1, <2>4
  <2> QED
    BY <1>1, <2>2, <2>3, <2>4
<1>6. CASE fs = <<>>
  <2>1. {i \in 1..Len(a) : a[i] = End} = {m, Len(a) - 2}
    <3>1. \A i \in 1..Len(a) : a[i] = End <=> i \in {m, Len(a) - 2}
      BY <1>1, <1>5, <1>6
    <3>2. {m, Len(a) - 2} \subseteq 1..Len(a)
      BY <1>1
    <3> QED
      BY <3>1, <3>2, Zenon
  <2>2. Cardinality({m, Len(a) - 2}) = 2
    <3>1. m # Len(a) - 2
      BY <1>1
    <3> QED
      BY <3>1, PairSize, Zenon
  <2> QED
    BY <1>6, <2>1, <2>2
<1>7. CASE fs # <<>>
  <2>1. Streamed(a, 0, x, fs)
    BY <1>7 DEF Laid, FilesIn
  <2>2. \A k \in (0 + 1)..x : a[k] = End <=> k = x
    BY <1>1, <2>1, StreamedEnds, Zenon
  <2>3. {i \in 1..Len(a) : a[i] = End} = {x, m, Len(a) - 2}
    <3>1. \A i \in 1..Len(a) : a[i] = End <=> i \in {x, m, Len(a) - 2}
      <4> SUFFICES ASSUME NEW i \in 1..Len(a)
                   PROVE  a[i] = End <=> i \in {x, m, Len(a) - 2}
        OBVIOUS
      <4>1. CASE i \in (0 + 1)..x
        BY <1>1, <2>2, <4>1
      <4>2. CASE i \in (x + 1)..Len(a)
        BY <1>1, <1>5, <4>2
      <4> QED
        BY <1>1, <4>1, <4>2
    <3>2. {x, m, Len(a) - 2} \subseteq 1..Len(a)
      BY <1>1, <1>7
    <3> QED
      BY <3>1, <3>2, Zenon
  <2>4. Cardinality({m, Len(a) - 2}) = 2 /\ IsFiniteSet({m, Len(a) - 2})
    <3>1. m # Len(a) - 2
      BY <1>1
    <3> QED
      BY <3>1, PairSize, Zenon
  <2>5. Cardinality({m, Len(a) - 2} \cup {x}) = 3
    <3>1. x \notin {m, Len(a) - 2}
      BY <1>1
    <3>2. Cardinality({m, Len(a) - 2} \cup {x}) = Cardinality({m, Len(a) - 2}) + 1
      BY <2>4, <3>1, FS_AddElement, Zenon
    <3>3. Cardinality({m, Len(a) - 2} \cup {x}) = 2 + 1
      BY <2>4, <3>2, Zenon
    <3>4. 2 + 1 = 3
      OBVIOUS
    <3> QED
      BY <3>3, <3>4, Zenon
  <2>6. {m, Len(a) - 2} \cup {x} = {x, m, Len(a) - 2}
    OBVIOUS
  <2> QED
    BY <1>7, <2>3, <2>5, <2>6
<1> QED
  BY <1>6, <1>7

LEMMA WriterInvImplies ==
  ASSUME WriterInv
  PROVE  OnlyWholeArchives
<1> SUFFICES ASSUME archive # <<>>
             PROVE  /\ writer = "Final" /\ objects # <<>>
                    /\ Last(archive) = Hash(Front(archive))
                    /\ Cardinality({i \in 1..Len(archive) : archive[i] = End})
                         = (IF files = <<>> THEN 2 ELSE 3)
  BY DEF OnlyWholeArchives
<1>1. writer = "Final"
  BY DEF WriterInv, AtEnd
<1>2. PICK x, m, man : Laid(archive, files, objects, x, m, man)
  BY <1>1 DEF WriterInv, AtEnd
<1>3. objects # <<>> /\ Last(archive) = Hash(Front(archive))
  BY <1>2 DEF Laid, Last
<1> QED
  BY <1>1, <1>2, <1>3, LaidEnds

-----------------------------------------------------------------------------
(***************************************************************************)
(* The decoder: it has taken the units of a packed stream up to k, and     *)
(* given out the bytes of the stream up to y.                              *)
(***************************************************************************)
\* The units of a behind i, up to j, are blocks of b up to the positions c, and the end.
Blocks(a, i, j, b, c) ==
  /\ i \in Nat /\ j \in Nat /\ i < j /\ j <= Len(a) /\ a[j] = End
  /\ b \in Seq(Byte) /\ c \in [i..j -> 0..Len(b)]
  /\ c[i] = 0 /\ c[j] = Len(b) /\ c[j - 1] = Len(b)
  /\ \A k \in (i + 1)..(j - 1) : c[k - 1] <= c[k] /\ a[k] = Block(Slice(b, c[k - 1], c[k]))

IsDecoder(d) ==
  /\ DOMAIN d = {"input", "pending", "ended", "finish", "atEof", "room", "output"}
  /\ d.ended \in BOOLEAN /\ d.finish \in BOOLEAN /\ d.atEof \in BOOLEAN /\ d.room \in Nat

DecoderAt(d, p, a, i, j, l, b, c, k, y) ==
  /\ IsDecoder(d) /\ k \in i..j /\ p \in k..l /\ d.input = Slice(a, k, p)
  /\ d.finish => p = l
  /\ d.ended <=> k = j
  /\ y \in 0..c[k] /\ d.pending = Slice(b, y, c[k])
  /\ k = j => y = Len(b)
  /\ d.atEof => k = j

LEMMA StreamedBlocks ==
  ASSUME NEW a, NEW i, NEW j, NEW s, Streamed(a, i, j, s), Len(a) \in Nat
  PROVE  \E b, e, c : Splits(s, b, e) /\ Blocks(a, i, j, b, c)
<1>1. i \in Nat /\ j \in Nat /\ i < j /\ j <= Len(a) /\ a[j] = End
  BY StreamedUnits
<1>2. PICK b, e, c0 : Splits(s, b, e) /\ Packs(a, i, j - 1, b, c0) /\ c0[j - 1] = Len(b)
  BY DEF Streamed
<1>3. /\ b \in Seq(Byte) /\ Len(b) \in Nat /\ c0 \in [i..(j - 1) -> 0..Len(b)] /\ c0[i] = 0
      /\ c0[j - 1] = Len(b)
  BY <1>2 DEF Splits, Packs
<1>4. PICK c : c = [k \in i..j |-> IF k = j THEN Len(b) ELSE c0[k]]
  OBVIOUS
<1>5. c \in [i..j -> 0..Len(b)] /\ c[i] = 0 /\ c[j] = Len(b) /\ c[j - 1] = Len(b)
  BY <1>1, <1>3, <1>4
<1>6. ASSUME NEW k \in (i + 1)..(j - 1)
      PROVE  c[k - 1] <= c[k] /\ a[k] = Block(Slice(b, c[k - 1], c[k]))
  <2>1. c0[k - 1] <= c0[k] /\ a[k] = Block(Slice(b, c0[k - 1], c0[k]))
    BY <1>2 DEF Packs
  <2>2. c[k - 1] = c0[k - 1] /\ c[k] = c0[k]
    BY <1>1, <1>4
  <2> QED
    BY <2>1, <2>2
<1>7. Blocks(a, i, j, b, c)
  BY <1>1, <1>3, <1>5, <1>6 DEF Blocks
<1> QED
  BY <1>2, <1>7

\* What comes behind k is the next block, or the end and nothing is left.
BlockOrEnd(a, j, b, c, k) ==
  \/ k + 1 = j /\ a[k + 1] = End /\ c[k] = Len(b) /\ c[k + 1] = Len(b)
  \/ k + 1 < j /\ a[k + 1] = Block(Slice(b, c[k], c[k + 1]))

LEMMA BlocksAt ==
  ASSUME NEW a, NEW i, NEW j, NEW b, NEW c, Blocks(a, i, j, b, c), NEW k \in i..(j - 1)
  PROVE  /\ k \in Nat /\ k < j /\ c[k] \in Nat /\ c[k + 1] \in Nat /\ c[k] <= c[k + 1]
         /\ c[k + 1] <= Len(b)
         /\ BlockOrEnd(a, j, b, c, k)
<1>1. /\ i \in Nat /\ j \in Nat /\ Len(b) \in Nat /\ c \in [i..j -> 0..Len(b)]
      /\ k \in Nat /\ k < j /\ k \in i..j /\ k + 1 \in i..j
  BY DEF Blocks
<1>2. c[k] \in 0..Len(b) /\ c[k + 1] \in 0..Len(b)
  BY <1>1
<1>3. CASE k + 1 = j
  <2>1. k = j - 1
    BY <1>1, <1>3
  <2>2. c[j - 1] = Len(b) /\ c[j] = Len(b) /\ a[j] = End
    BY DEF Blocks
  <2> QED
    BY <1>1, <1>2, <1>3, <2>1, <2>2 DEF BlockOrEnd
<1>4. CASE k + 1 # j
  <2>1. k + 1 \in (i + 1)..(j - 1) /\ (k + 1) - 1 = k
    BY <1>1, <1>4
  <2>2. c[(k + 1) - 1] <= c[k + 1] /\ a[k + 1] = Block(Slice(b, c[(k + 1) - 1], c[k + 1]))
    BY <2>1 DEF Blocks
  <2> QED
    BY <1>1, <1>2, <1>4, <2>1, <2>2 DEF BlockOrEnd
<1> QED
  BY <1>3, <1>4

\* A buffer is filled with what comes next, and with less only at the end.
LEMMA FillKeeps ==
  ASSUME NEW CONSTANT i, NEW CONSTANT j, NEW CONSTANT l, NEW CONSTANT b, NEW CONSTANT c,
         NEW CONSTANT k, NEW CONSTANT y, archive \in Seq(ArchiveUnit),
         Blocks(archive, i, j, b, c), l \in j..Len(archive), reader.limit = l,
         DecoderAt(decoder, reader.position, archive, i, j, l, b, c, k, y), k < j
  PROVE  \E p : /\ p = reader.position + Len(Filled.input) - Len(decoder.input)
                /\ k < p
                /\ DecoderAt(Filled, p, archive, i, j, l, b, c, k, y)
                /\ Filled.output = decoder.output /\ Filled.room = decoder.room
<1>1. /\ i \in Nat /\ j \in Nat /\ k \in Nat /\ l \in Nat /\ l <= Len(archive) /\ k < l
      /\ Len(archive) \in Nat
  BY DEF Blocks, DecoderAt
<1>2. PICK p \in Nat : p = reader.position
  BY <1>1 DEF DecoderAt
<1>3. /\ IsDecoder(decoder) /\ k <= p /\ p <= l /\ decoder.input = Slice(archive, k, p)
      /\ (decoder.finish => p = l)
  BY <1>1, <1>2 DEF DecoderAt
<1>4. Len(decoder.input) = p - k /\ (decoder.input = <<>> <=> k = p)
  <2>1. p <= Len(archive)
    BY <1>1, <1>3
  <2>2. Len(Slice(archive, k, p)) = p - k
    BY <1>1, <1>3, <2>1, SliceIs, Zenon
  <2>3. Slice(archive, k, p) = <<>> <=> k = p
    BY <1>1, <1>3, <2>1, SliceEmpty, Zenon
  <2> QED
    BY <1>3, <2>2, <2>3
<1>5. CASE decoder.input = <<>> /\ ~decoder.finish
  <2>1. k = p
    BY <1>4, <1>5
  <2>2. Available = Slice(archive, p, l)
    BY <1>2 DEF Available, Slice
  <2>3. Len(Available) = l - p
    BY <1>1, <1>3, <2>2, SliceIs
  <2>4. PICK n \in Nat : n = Smaller(InSize, Len(Available)) /\ n > 0 /\ n <= l - p
                         /\ (Len(Available) < InSize => n = l - p)
    BY <1>1, <2>1, <2>3, ArchiveFormatAssumption DEF Smaller
  <2>5. PICK w : w = SubSeq(Available, 1, n)
    OBVIOUS
  <2>6. w = Slice(archive, p, p + n) /\ Len(w) = n
    <3>1. Slice(Slice(archive, p, l), 0, n) = Slice(archive, p + 0, p + n)
      BY <1>1, <1>3, <2>4, SliceSlice
    <3>2. w = Slice(Available, 0, n)
      BY <2>5 DEF Slice
    <3>3. p + n <= Len(archive) /\ p + n \in Nat /\ p <= p + n /\ p + n - p = n
      BY <1>1, <2>4
    <3>4. Len(Slice(archive, p, p + n)) = (p + n) - p
      BY <1>2, <3>3, SliceIs, Zenon
    <3> QED
      BY <2>2, <3>1, <3>2, <3>3, <3>4
  <2>7. Filled = [decoder EXCEPT !.input = w, !.finish = Len(Available) < InSize]
    BY <1>5, <2>4, <2>5 DEF Filled
  <2>8. IsDecoder(Filled)
    BY <1>3, <2>7 DEF IsDecoder
  <2>9. /\ Filled.input = w /\ Filled.finish = (Len(Available) < InSize)
        /\ Filled.ended = decoder.ended /\ Filled.pending = decoder.pending
        /\ Filled.atEof = decoder.atEof /\ Filled.output = decoder.output
        /\ Filled.room = decoder.room
    BY <1>3, <2>7 DEF IsDecoder
  <2>10. p + n = reader.position + Len(Filled.input) - Len(decoder.input)
    <3>1. Len(Filled.input) = n /\ Len(decoder.input) = 0
      BY <1>4, <2>1, <2>6, <2>9
    <3>2. p + n = p + Len(Filled.input) - Len(decoder.input)
      BY <2>4, <3>1
    <3> QED
      BY <1>2, <3>2
  <2>11. Filled.finish => p + n = l
    <3>1. Filled.finish => n = l - p
      BY <2>4, <2>9, Zenon
    <3> QED
      BY <1>1, <3>1
  <2>12. k < p + n /\ p + n \in k..l /\ Filled.input = Slice(archive, k, p + n)
    BY <1>1, <2>1, <2>4, <2>6, <2>9
  <2>13. DecoderAt(Filled, p + n, archive, i, j, l, b, c, k, y)
    BY <2>8, <2>9, <2>11, <2>12 DEF DecoderAt
  <2> QED
    BY <2>9, <2>10, <2>12, <2>13
<1>6. CASE ~(decoder.input = <<>> /\ ~decoder.finish)
  <2>1. Filled = decoder
    BY <1>6 DEF Filled
  <2>2. k < p
    BY <1>1, <1>3, <1>4, <1>6
  <2>3. p = reader.position + Len(decoder.input) - Len(decoder.input)
    BY <1>1, <1>2, <1>4
  <2> QED
    BY <1>2, <2>1, <2>2, <2>3
<1> QED
  BY <1>5, <1>6

\* What lzma_code finds is a block or the end, and it goes on through the stream.
FindsUnit(d) == d.pending = <<>> => d.input # <<>> /\ Head(d.input)[1] \in {"block", "end"}

GoesOn(d, p, a, i, j, l, b, c, y, z) ==
  \E q, v : /\ v \in y..Len(b) /\ DecoderAt(Decoded(d), p, a, i, j, l, b, c, q, v)
            /\ Decoded(d).output = Slice(b, z, v)
            /\ Decoded(d).room + v = d.room + y

LEMMA DecodedKeeps ==
  ASSUME NEW a \in Seq(ArchiveUnit), NEW i, NEW j, NEW l, NEW b, NEW c, NEW k, NEW p, NEW d,
         NEW y \in Nat, NEW z \in 0..y,
         Blocks(a, i, j, b, c), l \in j..Len(a), DecoderAt(d, p, a, i, j, l, b, c, k, y),
         k < j, k < p, d.room > 0, d.output = Slice(b, z, y)
  PROVE  FindsUnit(d) /\ GoesOn(d, p, a, i, j, l, b, c, y, z)
<1>1. /\ i \in Nat /\ j \in Nat /\ k \in Nat /\ l \in Nat /\ l <= Len(a) /\ p \in Nat /\ p <= l
      /\ k \in i..(j - 1) /\ Len(a) \in Nat /\ b \in Seq(Byte) /\ Len(b) \in Nat /\ z \in Nat
      /\ p <= Len(a) /\ z <= y
  BY DEF Blocks, DecoderAt
<1>2. /\ k < j /\ c[k] \in Nat /\ c[k + 1] \in Nat /\ c[k] <= c[k + 1] /\ c[k + 1] <= Len(b)
  BY <1>1, BlocksAt, Zenon
<1>3. \/ k + 1 = j /\ a[k + 1] = End /\ c[k] = Len(b) /\ c[k + 1] = Len(b)
      \/ k + 1 < j /\ a[k + 1] = Block(Slice(b, c[k], c[k + 1]))
  <2>1. BlockOrEnd(a, j, b, c, k)
    BY <1>1, BlocksAt, Zenon
  <2> QED
    BY <2>1 DEF BlockOrEnd
<1>4. /\ IsDecoder(d) /\ d.input = Slice(a, k, p) /\ (d.finish => p = l) /\ ~d.ended /\ ~d.atEof
      /\ y <= c[k] /\ d.pending = Slice(b, y, c[k]) /\ d.room \in Nat
  BY <1>1, <1>2 DEF DecoderAt, IsDecoder
<1>5. Head(d.input) = a[k + 1] /\ Tail(d.input) = Slice(a, k + 1, p) /\ d.input # <<>>
  <2>1. /\ Head(Slice(a, k, p)) = a[k + 1] /\ Tail(Slice(a, k, p)) = Slice(a, k + 1, p)
        /\ (Slice(a, k, p) = <<>> <=> k = p)
    BY <1>1, SliceFirst, SliceEmpty
  <2> QED
    BY <1>1, <1>4, <2>1
<1>6. Slice(b, c[k], c[k + 1]) \in Seq(Byte)
  BY <1>1, <1>2, SliceIs, Zenon
<1>7. Head(d.input)[1] \in {"block", "end"}
  BY <1>3, <1>5, <1>6, BlockIs, EndIs
<1>8. c[k] <= Len(b) /\ k + 1 \in i..j /\ p \in (k + 1)..l /\ k \in i..j /\ p \in k..l
  BY <1>1, <1>2
<1>9. Len(d.pending) = c[k] - y /\ (d.pending = <<>> <=> y = c[k])
  <2>1. b \in Seq(Byte) /\ y \in Nat /\ c[k] \in Nat /\ y <= c[k] /\ c[k] <= Len(b)
    BY <1>1, <1>2, <1>4, <1>8
  <2>2. PICK v \in Nat : v = c[k]
    BY <2>1, Zenon
  <2>3. y <= v /\ v <= Len(b) /\ d.pending = Slice(b, y, v)
    BY <1>4, <2>1, <2>2, Zenon
  <2>4. Len(Slice(b, y, v)) = v - y
    BY <2>1, <2>3, SliceIs, Zenon
  <2>5. Slice(b, y, v) = <<>> <=> y = v
    BY <2>1, <2>3, SliceEmpty, Zenon
  <2>6. Len(d.pending) = c[k] - y
    BY <2>2, <2>3, <2>4, Zenon
  <2>7. d.pending = <<>> <=> y = c[k]
    BY <2>2, <2>3, <2>5, Zenon
  <2> QED
    BY <2>6, <2>7
<1>10. CASE d.pending # <<>>
  <2>1. PICK n \in Nat : n = Smaller(d.room, Len(d.pending)) /\ n <= d.room /\ n <= c[k] - y
    <3>1. PICK m \in Nat : m = Len(d.pending) /\ m = c[k] - y
      BY <1>4, <1>9 DEF IsDecoder
    <3>2. PICK r \in Nat : r = d.room
      BY <1>4 DEF IsDecoder
    <3>3. Smaller(r, m) \in Nat /\ Smaller(r, m) <= r /\ Smaller(r, m) <= m
      BY DEF Smaller
    <3> QED
      BY <3>1, <3>2, <3>3
  <2>2. Decoded(d) = [d EXCEPT !.pending = SubSeq(@, n + 1, Len(@)), !.room = @ - n,
                               !.output = @ \o SubSeq(d.pending, 1, n)]
    BY <1>10, <2>1 DEF Decoded
  <2>3. PICK f : f = Decoded(d)
    OBVIOUS
  <2>4. IsDecoder(f) /\ f.room = d.room - n /\ f.output = d.output \o SubSeq(d.pending, 1, n)
        /\ f.pending = SubSeq(d.pending, n + 1, Len(d.pending))
        /\ f.input = d.input /\ f.finish = d.finish /\ f.ended = d.ended /\ f.atEof = d.atEof
    <3>1. /\ f.room = d.room - n /\ f.output = d.output \o SubSeq(d.pending, 1, n)
          /\ f.pending = SubSeq(d.pending, n + 1, Len(d.pending))
          /\ f.input = d.input /\ f.finish = d.finish /\ f.ended = d.ended /\ f.atEof = d.atEof
          /\ DOMAIN f = DOMAIN d
      BY <1>4, <2>2, <2>3 DEF IsDecoder
    <3>2. f.room \in Nat
      BY <1>4, <2>1, <3>1
    <3>3. f.ended \in BOOLEAN /\ f.finish \in BOOLEAN /\ f.atEof \in BOOLEAN
      BY <1>4, <3>1 DEF IsDecoder
    <3>4. DOMAIN f = {"input", "pending", "ended", "finish", "atEof", "room", "output"}
      BY <1>4, <3>1 DEF IsDecoder
    <3>5. IsDecoder(f)
      BY <3>2, <3>3, <3>4 DEF IsDecoder
    <3> QED
      BY <3>1, <3>5, Zenon
  <2>5. y + n <= c[k] /\ y + n <= Len(b) /\ y + n \in Nat /\ y <= y + n
    <3>1. c[k] \in Nat /\ c[k] <= Len(b) /\ Len(b) \in Nat /\ n <= c[k] - y
      BY <1>1, <1>2, <1>8, <2>1
    <3> QED
      BY <3>1
  <2>6. f.pending = Slice(b, y + n, c[k])
    <3>1. Slice(Slice(b, y, c[k]), n, c[k] - y) = Slice(b, y + n, y + (c[k] - y))
      <4>1. /\ b \in Seq(Byte) /\ y \in Nat /\ c[k] \in Nat /\ y <= c[k] /\ c[k] <= Len(b)
            /\ n \in Nat /\ n <= c[k] - y
        BY <1>1, <1>2, <1>4, <1>8, <2>1
      <4>2. PICK m \in Nat : m = c[k] - y
        BY <4>1
      <4>3. Slice(Slice(b, y, c[k]), n, m) = Slice(b, y + n, y + m)
        BY <4>1, <4>2, SliceSlice
      <4> QED
        BY <4>2, <4>3, Zenon
    <3>2. y + (c[k] - y) = c[k]
      BY <1>2
    <3> QED
      BY <1>4, <1>9, <2>4, <3>1, <3>2 DEF Slice
  <2>7. f.output = Slice(b, z, y + n)
    <3>1. SubSeq(d.pending, 1, n) = Slice(b, y, y + n)
      <4>1. Slice(Slice(b, y, c[k]), 0, n) = Slice(b, y + 0, y + n)
        BY <1>1, <1>2, <1>4, <1>8, <2>1, SliceSlice
      <4>2. Slice(d.pending, 0, n) = SubSeq(d.pending, 1, n) /\ y + 0 = y
        BY DEF Slice
      <4> QED
        BY <1>4, <4>1, <4>2, Zenon
    <3>2. Slice(b, z, y) \o Slice(b, y, y + n) = Slice(b, z, y + n)
      <4>1. PICK w \in Nat : w = y + n
        BY <2>5
      <4>2. b \in Seq(Byte) /\ z \in Nat /\ y \in Nat /\ z <= y /\ y <= w /\ w <= Len(b)
        BY <1>1, <2>5, <4>1
      <4>3. Slice(b, z, y) \o Slice(b, y, w) = Slice(b, z, w)
        BY <4>2, SliceJoin, Zenon
      <4> QED
        BY <4>1, <4>3
    <3> QED
      BY <2>4, <3>1, <3>2, Zenon
  <2>8. y + n \in 0..c[k] /\ y + n \in y..Len(b) /\ f.room + (y + n) = d.room + y
    <3>1. f.room = d.room - n /\ d.room \in Nat
      BY <1>4, <2>4
    <3>2. f.room + (y + n) = d.room + y
      BY <2>1, <3>1
    <3> QED
      BY <1>1, <1>2, <2>5, <3>2
  <2>9. k # j /\ ~f.ended /\ ~f.atEof
    BY <1>1, <1>4, <2>4
  <2>10. DecoderAt(f, p, a, i, j, l, b, c, k, y + n)
    BY <1>4, <1>8, <2>4, <2>6, <2>8, <2>9 DEF DecoderAt
  <2> QED
    BY <1>10, <2>3, <2>7, <2>8, <2>10 DEF FindsUnit, GoesOn
<1>11. CASE d.pending = <<>> /\ Head(d.input)[1] = "block"
  <2>1. k + 1 < j /\ a[k + 1] = Block(Slice(b, c[k], c[k + 1]))
    BY <1>3, <1>5, <1>11, EndIs
  <2>2. Head(d.input)[2] = Slice(b, c[k], c[k + 1])
    BY <1>5, <1>6, <2>1, BlockIs
  <2>3. Decoded(d) = [d EXCEPT !.input = Tail(@), !.pending = Head(d.input)[2]]
    BY <1>11 DEF Decoded
  <2>4. PICK f : f = Decoded(d)
    OBVIOUS
  <2>5. IsDecoder(f) /\ f.input = Slice(a, k + 1, p) /\ f.pending = Slice(b, c[k], c[k + 1])
        /\ f.room = d.room /\ f.output = d.output
        /\ f.finish = d.finish /\ f.ended = d.ended /\ f.atEof = d.atEof
    <3>1. f.input = Slice(a, k + 1, p) /\ f.pending = Slice(b, c[k], c[k + 1])
          /\ f.room = d.room /\ f.output = d.output
          /\ f.finish = d.finish /\ f.ended = d.ended /\ f.atEof = d.atEof
          /\ DOMAIN f = DOMAIN d
      BY <1>4, <1>5, <2>2, <2>3, <2>4 DEF IsDecoder
    <3> QED
      BY <1>4, <3>1 DEF IsDecoder
  <2>6. y = c[k] /\ y \in 0..c[k + 1] /\ y \in y..Len(b)
    BY <1>2, <1>8, <1>9, <1>11
  <2>7. k + 1 # j /\ ~f.ended /\ ~f.atEof
    BY <1>1, <1>4, <2>1, <2>5
  <2>8. DecoderAt(f, p, a, i, j, l, b, c, k + 1, y)
    BY <1>4, <1>8, <2>5, <2>6, <2>7 DEF DecoderAt
  <2> QED
    BY <1>5, <1>7, <2>4, <2>5, <2>6, <2>8 DEF FindsUnit, GoesOn
<1>12. CASE d.pending = <<>> /\ Head(d.input)[1] # "block"
  <2>1. k + 1 = j /\ c[k] = Len(b) /\ c[k + 1] = Len(b)
    BY <1>3, <1>5, <1>6, <1>12, BlockIs
  <2>2. Decoded(d) = [d EXCEPT !.input = Tail(@), !.ended = TRUE]
    BY <1>12 DEF Decoded
  <2>3. PICK f : f = Decoded(d)
    OBVIOUS
  <2>4. IsDecoder(f) /\ f.input = Slice(a, k + 1, p) /\ f.pending = d.pending
        /\ f.room = d.room /\ f.output = d.output
        /\ f.finish = d.finish /\ f.ended = TRUE /\ f.atEof = d.atEof
    <3>1. f.input = Slice(a, k + 1, p) /\ f.ended = TRUE
      BY <1>4, <1>5, <2>2, <2>3 DEF IsDecoder
    <3>2. f.pending = d.pending /\ f.room = d.room /\ f.output = d.output
      BY <1>4, <2>2, <2>3 DEF IsDecoder
    <3>3. f.finish = d.finish /\ f.atEof = d.atEof /\ DOMAIN f = DOMAIN d
      BY <1>4, <2>2, <2>3 DEF IsDecoder
    <3> QED
      BY <1>4, <3>1, <3>2, <3>3 DEF IsDecoder
  <2>5. y = Len(b) /\ y \in 0..c[k + 1] /\ y \in y..Len(b) /\ f.pending = Slice(b, y, c[k + 1])
    <3>1. y = c[k] /\ c[k] = c[k + 1]
      BY <1>9, <1>12, <2>1
    <3>2. f.pending = Slice(b, y, c[k + 1])
      BY <1>4, <2>4, <3>1
    <3> QED
      BY <1>1, <2>1, <3>1, <3>2
  <2>6. DecoderAt(f, p, a, i, j, l, b, c, k + 1, y)
    BY <1>4, <1>8, <2>1, <2>4, <2>5 DEF DecoderAt
  <2> QED
    BY <1>5, <1>7, <2>3, <2>4, <2>5, <2>6 DEF FindsUnit, GoesOn
<1> QED
  BY <1>5, <1>7, <1>10, <1>11, <1>12

-----------------------------------------------------------------------------
(***************************************************************************)
(* A reader in its task: it has given out n of the items s, of the next    *)
(* one the bytes up to z, and is about to give out those up to y.          *)
(***************************************************************************)
ReaderFields == {"task", "step", "position", "limit", "manifest", "manifestOffset",
                 "wanted", "asked", "item", "result"}

ItemAt(r, d, s, N, b, e, y, z, n) ==
  /\ n \in 0..N /\ r.result = SubSeq(s, 1, n) /\ (r.task = "manifest" => n = 0)
  /\ z \in Nat /\ e[n] <= z /\ z <= y /\ r.item = Slice(b, e[n], z)
  /\ n < Len(s) => y <= e[n + 1]
  /\ r.step = "next" => z = y
  /\ r.step = "read" =>
       /\ n < N /\ d.output = Slice(b, z, y) /\ d.room + (y - z) = r.asked
       /\ r.asked = IF r.task = "manifest" THEN ReadSize ELSE Smaller(ReadSize, e[n + 1] - z)

ReadingAt(r, d, a, i, j, l, s, N, b, e, c, k, y, z, n) ==
  /\ Splits(s, b, e) /\ Blocks(a, i, j, b, c)
  /\ l \in j..Len(a) /\ r.limit = l /\ N \in 0..Len(s)
  /\ DecoderAt(d, r.position, a, i, j, l, b, c, k, y) /\ ItemAt(r, d, s, N, b, e, y, z, n)

Reading(r, d, a, i, j, l, s, N) ==
  \E b, e, c, k, y, z, n : ReadingAt(r, d, a, i, j, l, s, N, b, e, c, k, y, z, n)

LEMMA SplitsAt ==
  ASSUME NEW s \in Seq(Seq(Byte)), NEW b, NEW e, Splits(s, b, e), NEW n \in 0..Len(s)
  PROVE  /\ b \in Seq(Byte) /\ Len(b) \in Nat /\ n \in Nat
         /\ e[n] \in Nat /\ e[n] <= Len(b) /\ e[0] = 0
         /\ n = Len(s) => e[n] = Len(b)
         /\ n < Len(s) => /\ e[n + 1] \in Nat /\ e[n] <= e[n + 1] /\ e[n + 1] <= Len(b)
                          /\ s[n + 1] = Slice(b, e[n], e[n + 1])
                          /\ Len(s[n + 1]) = e[n + 1] - e[n]
<1>1. /\ b \in Seq(Byte) /\ Len(b) \in Nat /\ n \in Nat /\ Len(s) \in Nat
      /\ e \in [0..Len(s) -> 0..Len(b)] /\ e[0] = 0 /\ e[Len(s)] = Len(b)
  BY DEF Splits
<1>2. e[n] \in Nat /\ e[n] <= Len(b)
  <2>1. e[n] \in 0..Len(b)
    BY <1>1, Zenon
  <2> QED
    BY <1>1, <2>1
<1>3. ASSUME n < Len(s)
      PROVE  /\ e[n + 1] \in Nat /\ e[n] <= e[n + 1] /\ e[n + 1] <= Len(b)
             /\ s[n + 1] = Slice(b, e[n], e[n + 1])
             /\ Len(s[n + 1]) = e[n + 1] - e[n]
  <2>1. n + 1 \in 1..Len(s) /\ (n + 1) - 1 = n /\ n + 1 \in 0..Len(s)
    BY <1>1, <1>3
  <2>2. e[(n + 1) - 1] <= e[n + 1] /\ s[n + 1] = Slice(b, e[(n + 1) - 1], e[n + 1])
    BY <2>1 DEF Splits
  <2>3. e[n + 1] \in Nat /\ e[n + 1] <= Len(b) /\ e[n] <= e[n + 1]
    BY <1>1, <2>1, <2>2
  <2>4. Len(Slice(b, e[n], e[n + 1])) = e[n + 1] - e[n]
    <3>1. PICK v \in Nat, w \in Nat : v = e[n] /\ w = e[n + 1]
      BY <1>2, <2>3, Zenon
    <3>2. b \in Seq(Byte) /\ v <= w /\ w <= Len(b)
      BY <1>1, <2>3, <3>1
    <3>3. Len(Slice(b, v, w)) = w - v
      BY <3>2, SliceIs
    <3> QED
      BY <3>1, <3>3, Zenon
  <2> QED
    BY <2>1, <2>2, <2>3, <2>4
<1> QED
  BY <1>1, <1>2, <1>3

\* Where a reading is.
LEMMA ReadingIs ==
  ASSUME NEW r, NEW d, NEW a \in Seq(ArchiveUnit), NEW i, NEW j, NEW l,
         NEW s \in Seq(Seq(Byte)), NEW N,
         NEW b, NEW e, NEW c, NEW k, NEW y, NEW z, NEW n,
         ReadingAt(r, d, a, i, j, l, s, N, b, e, c, k, y, z, n)
  PROVE  /\ y \in Nat /\ z \in Nat /\ z <= y /\ y <= Len(b) /\ n \in 0..Len(s) /\ n <= N
         /\ n \in Nat /\ N \in Nat /\ N <= Len(s) /\ Len(s) \in Nat
         /\ i \in Nat /\ j \in Nat /\ l \in Nat /\ k \in Nat /\ l <= Len(a) /\ Len(a) \in Nat
         /\ r.position \in Nat /\ r.position <= l
         /\ Len(r.result) = n /\ Len(r.item) = z - e[n]
<1>1. /\ b \in Seq(Byte) /\ Len(b) \in Nat /\ Len(a) \in Nat /\ Len(s) \in Nat
      /\ i \in Nat /\ j \in Nat /\ c \in [i..j -> 0..Len(b)]
      /\ l \in j..Len(a) /\ N \in 0..Len(s)
  BY DEF ReadingAt, Blocks
<1>2. k \in i..j /\ r.position \in k..l /\ y \in 0..c[k]
  BY DEF ReadingAt, DecoderAt
<1>3. l \in Nat /\ l <= Len(a) /\ k \in Nat /\ r.position \in Nat /\ r.position <= l
  BY <1>1, <1>2
<1>4. c[k] \in 0..Len(b)
  BY <1>1, <1>2
<1>5. y \in Nat /\ y <= Len(b)
  BY <1>1, <1>2, <1>4
<1>6. /\ n \in 0..N /\ r.result = SubSeq(s, 1, n) /\ z \in Nat /\ e[n] <= z /\ z <= y
      /\ r.item = Slice(b, e[n], z)
  BY DEF ReadingAt, ItemAt
<1>7. n \in 0..Len(s) /\ n <= N /\ n \in Nat /\ N \in Nat /\ N <= Len(s)
  BY <1>1, <1>6
<1>8. Splits(s, b, e)
  BY DEF ReadingAt
<1>9. e[n] \in Nat
  BY <1>7, <1>8, SplitsAt
<1>10. Len(r.item) = z - e[n]
  <2>1. b \in Seq(Byte) /\ e[n] \in Nat /\ z \in Nat /\ e[n] <= z /\ z <= Len(b)
    BY <1>1, <1>5, <1>6, <1>9
  <2>2. Len(Slice(b, e[n], z)) = z - e[n]
    BY <2>1, SliceIs, Zenon
  <2> QED
    BY <1>6, <2>2
<1>11. Len(r.result) = n
  BY <1>6, <1>7
<1> QED
  BY <1>1, <1>3, <1>5, <1>6, <1>7, <1>10, <1>11

LEMMA StartReads ==
  ASSUME NEW r, NEW d, NEW a \in Seq(ArchiveUnit), NEW i, NEW j, NEW l,
         NEW s \in Seq(Seq(Byte)), NEW N \in 0..Len(s), Streamed(a, i, j, s), l \in j..Len(a),
         r.position = i, r.limit = l, r.item = <<>>, r.result = <<>>, r.step = "next",
         d = NewDecoder
  PROVE  Reading(r, d, a, i, j, l, s, N)
<1>1. PICK b, e, c : Splits(s, b, e) /\ Blocks(a, i, j, b, c)
  BY StreamedBlocks
<1>2. /\ i \in Nat /\ j \in Nat /\ i < j /\ j <= Len(a) /\ Len(a) \in Nat /\ b \in Seq(Byte)
      /\ c[i] = 0 /\ Len(s) \in Nat /\ 0 \in 0..Len(s)
  BY <1>1 DEF Blocks
<1>3. e[0] = 0 /\ (0 < Len(s) => e[0 + 1] \in Nat) /\ b \in Seq(Byte) /\ Len(b) \in Nat
  BY <1>1, <1>2, SplitsAt
<1>4. Slice(b, 0, 0) = <<>> /\ Slice(a, i, i) = <<>>
  BY <1>2, <1>3 DEF Slice
<1>5. SubSeq(s, 1, 0) = <<>>
  OBVIOUS
<1>6. IsDecoder(d)
  BY DEF IsDecoder, NewDecoder
<1>7. /\ d.input = <<>> /\ d.pending = <<>> /\ d.ended = FALSE /\ d.finish = FALSE
      /\ d.atEof = FALSE
  BY DEF NewDecoder
<1>8. DecoderAt(d, r.position, a, i, j, l, b, c, i, 0)
  BY <1>2, <1>4, <1>6, <1>7 DEF DecoderAt
<1>9. ItemAt(r, d, s, N, b, e, 0, 0, 0)
  BY <1>2, <1>3, <1>4, <1>5 DEF ItemAt
<1>10. ReadingAt(r, d, a, i, j, l, s, N, b, e, c, i, 0, 0, 0)
  BY <1>1, <1>8, <1>9 DEF ReadingAt
<1> QED
  BY <1>10 DEF Reading

LEMMA AskReads ==
  ASSUME NEW CONSTANT i, NEW CONSTANT j, NEW CONSTANT l, NEW CONSTANT s \in Seq(Seq(Byte)),
         NEW CONSTANT N, archive \in Seq(ArchiveUnit),
         Reading(reader, decoder, archive, i, j, l, s, N), Ask, DOMAIN reader = ReaderFields,
         reader.task = "manifest" => N = 1,
         reader.task # "manifest" => Len(Sizes) = N /\ \A q \in 1..N : Sizes[q] = Len(s[q])
  PROVE  Reading(reader', decoder', archive, i, j, l, s, N)
<1>1. PICK b, e, c, k, y, z, n :
        ReadingAt(reader, decoder, archive, i, j, l, s, N, b, e, c, k, y, z, n)
  BY DEF Reading
<1>2. /\ y \in Nat /\ z \in Nat /\ z <= y /\ y <= Len(b) /\ n \in 0..Len(s) /\ n <= N
      /\ n \in Nat /\ N \in Nat /\ N <= Len(s) /\ Len(s) \in Nat
      /\ Len(reader.result) = n /\ Len(reader.item) = z - e[n]
  BY <1>1, ReadingIs
<1>3. /\ Splits(s, b, e) /\ Blocks(archive, i, j, b, c) /\ l \in j..Len(archive)
      /\ reader.limit = l /\ N \in 0..Len(s)
      /\ DecoderAt(decoder, reader.position, archive, i, j, l, b, c, k, y)
      /\ ItemAt(reader, decoder, s, N, b, e, y, z, n)
  BY <1>1 DEF ReadingAt
<1>4. reader.step = "next" /\ z = y
  BY <1>3 DEF Ask, ItemAt
<1>5. n < N
  <2>1. CASE reader.task = "manifest"
    BY <1>3, <2>1 DEF ItemAt
  <2>2. CASE reader.task # "manifest"
    BY <1>2, <2>2 DEF Ask
  <2> QED
    BY <2>1, <2>2
<1>6. /\ e[n] \in Nat /\ e[n + 1] \in Nat /\ e[n] <= e[n + 1] /\ Len(s[n + 1]) = e[n + 1] - e[n]
      /\ b \in Seq(Byte) /\ Len(b) \in Nat
  BY <1>2, <1>3, <1>5, SplitsAt
<1>7. y <= e[n + 1] /\ e[n] <= z
  BY <1>2, <1>3, <1>5 DEF ItemAt
<1>8. PICK count \in Nat :
        /\ count = IF reader.task = "manifest" THEN ReadSize ELSE Smaller(ReadSize, e[n + 1] - z)
        /\ reader' = [reader EXCEPT !.step = "read", !.asked = count]
        /\ decoder' = [decoder EXCEPT !.room = count, !.output = <<>>]
  <2>1. CASE reader.task = "manifest"
    BY <2>1, ArchiveFormatAssumption DEF Ask
  <2>2. CASE reader.task # "manifest"
    <3>1. Sizes[n + 1] = e[n + 1] - e[n]
      BY <1>2, <1>5, <1>6, <2>2
    <3>2. PICK h : h = Sizes[Len(reader.result) + 1] - Len(reader.item)
      OBVIOUS
    <3>3. h = e[n + 1] - z /\ h \in Nat
      <4>1. h = (e[n + 1] - e[n]) - (z - e[n])
        BY <1>2, <3>1, <3>2
      <4>2. e[n] \in Nat /\ e[n + 1] \in Nat /\ z \in Nat /\ z <= e[n + 1]
        BY <1>2, <1>4, <1>6, <1>7
      <4> QED
        BY <4>1, <4>2
    <3>4. Smaller(ReadSize, h) \in Nat
      BY <3>3, ArchiveFormatAssumption DEF Smaller
    <3>5. /\ reader' = [reader EXCEPT !.step = "read", !.asked = Smaller(ReadSize, h)]
          /\ decoder' = [decoder EXCEPT !.room = Smaller(ReadSize, h), !.output = <<>>]
      BY <2>2, <3>2 DEF Ask
    <3>6. Smaller(ReadSize, h) = Smaller(ReadSize, e[n + 1] - z)
      BY <3>3
    <3> QED
      BY <2>2, <3>4, <3>5, <3>6, Zenon
  <2> QED
    BY <2>1, <2>2
<1>9. PICK r, d : r = reader' /\ d = decoder'
  OBVIOUS
<1>10. /\ r.step = "read" /\ r.asked = count /\ r.task = reader.task /\ r.result = reader.result
       /\ r.item = reader.item /\ r.limit = reader.limit /\ r.position = reader.position
  BY <1>8, <1>9 DEF ReaderFields
<1>11. IsDecoder(decoder)
  BY <1>3 DEF DecoderAt
<1>12. /\ d.room = count /\ d.output = <<>> /\ d.input = decoder.input
       /\ d.pending = decoder.pending /\ d.ended = decoder.ended /\ d.finish = decoder.finish
       /\ d.atEof = decoder.atEof /\ DOMAIN d = DOMAIN decoder
  BY <1>8, <1>9, <1>11 DEF IsDecoder
<1>13. DecoderAt(d, r.position, archive, i, j, l, b, c, k, y)
  BY <1>3, <1>10, <1>12 DEF DecoderAt, IsDecoder
<1>14. d.output = Slice(b, z, y)
  BY <1>2, <1>4, <1>6, <1>12 DEF Slice
<1>15. d.room + (y - z) = r.asked
  BY <1>2, <1>4, <1>10, <1>12
<1>16. ItemAt(r, d, s, N, b, e, y, z, n)
  BY <1>3, <1>5, <1>8, <1>10, <1>14, <1>15 DEF ItemAt
<1>17. ReadingAt(r, d, archive, i, j, l, s, N, b, e, c, k, y, z, n)
  BY <1>3, <1>10, <1>13, <1>16 DEF ReadingAt
<1>18. Reading(r, d, archive, i, j, l, s, N)
  BY <1>17 DEF Reading
<1> QED
  BY <1>9, <1>18, Zenon

LEMMA DecodeReads ==
  ASSUME NEW CONSTANT i, NEW CONSTANT j, NEW CONSTANT l, NEW CONSTANT s \in Seq(Seq(Byte)),
         NEW CONSTANT N, archive \in Seq(ArchiveUnit),
         Reading(reader, decoder, archive, i, j, l, s, N), Decode, DOMAIN reader = ReaderFields,
         reader.task = "manifest" => Len(s) = 1
  PROVE  Reading(reader', decoder', archive, i, j, l, s, N) /\ reader'.step = "read"
<1>1. PICK b, e, c, k, y, z, n :
        ReadingAt(reader, decoder, archive, i, j, l, s, N, b, e, c, k, y, z, n)
  BY DEF Reading
<1>2. /\ y \in Nat /\ z \in Nat /\ z <= y /\ y <= Len(b) /\ n \in 0..Len(s) /\ n <= N
      /\ n \in Nat /\ N \in Nat /\ N <= Len(s) /\ Len(s) \in Nat
      /\ j \in Nat /\ k \in Nat /\ z \in 0..y
  BY <1>1, ReadingIs
<1>3. /\ Splits(s, b, e) /\ Blocks(archive, i, j, b, c) /\ l \in j..Len(archive)
      /\ reader.limit = l /\ N \in 0..Len(s)
      /\ DecoderAt(decoder, reader.position, archive, i, j, l, b, c, k, y)
      /\ ItemAt(reader, decoder, s, N, b, e, y, z, n)
  BY <1>1 DEF ReadingAt
<1>4. reader.step = "read" /\ decoder.room > 0 /\ ~decoder.ended
  BY DEF Decode
<1>5. /\ n < N /\ decoder.output = Slice(b, z, y) /\ decoder.room + (y - z) = reader.asked
      /\ reader.asked = IF reader.task = "manifest" THEN ReadSize ELSE Smaller(ReadSize, e[n + 1] - z)
  BY <1>3, <1>4 DEF ItemAt
<1>6. k < j
  <2>1. k # j /\ k \in i..j
    BY <1>3, <1>4 DEF DecoderAt
  <2> QED
    BY <1>2, <2>1
<1>7. PICK p : /\ p = reader.position + Len(Filled.input) - Len(decoder.input)
               /\ k < p
               /\ DecoderAt(Filled, p, archive, i, j, l, b, c, k, y)
               /\ Filled.output = decoder.output /\ Filled.room = decoder.room
  BY <1>3, <1>6, FillKeeps
<1>8. PICK f : f = Filled
  OBVIOUS
<1>9. /\ DecoderAt(f, p, archive, i, j, l, b, c, k, y) /\ f.room > 0 /\ f.output = Slice(b, z, y)
      /\ f.room = decoder.room
  BY <1>4, <1>5, <1>7, <1>8
<1>10. FindsUnit(f) /\ GoesOn(f, p, archive, i, j, l, b, c, y, z)
  BY <1>2, <1>3, <1>6, <1>7, <1>9, DecodedKeeps, Zenon
<1>11. PICK q, v : /\ v \in y..Len(b) /\ DecoderAt(Decoded(f), p, archive, i, j, l, b, c, q, v)
                   /\ Decoded(f).output = Slice(b, z, v)
                   /\ Decoded(f).room + v = f.room + y
  BY <1>10 DEF GoesOn
<1>12. ~f.ended
  <2>1. k # j
    BY <1>2, <1>6
  <2> QED
    BY <1>9, <2>1 DEF DecoderAt
<1>13. /\ decoder' = Decoded(f)
       /\ reader' = [reader EXCEPT !.position = @ + Len(f.input) - Len(decoder.input),
                                   !.step = "read"]
  BY <1>4, <1>8, <1>10, <1>12 DEF Decode, FindsUnit
<1>14. PICK r, d : r = reader' /\ d = decoder'
  OBVIOUS
<1>15. /\ r.step = "read" /\ r.asked = reader.asked /\ r.task = reader.task
       /\ r.result = reader.result /\ r.item = reader.item /\ r.limit = reader.limit
       /\ r.position = p
  BY <1>7, <1>8, <1>13, <1>14 DEF ReaderFields
<1>16. /\ DecoderAt(d, p, archive, i, j, l, b, c, q, v) /\ d.output = Slice(b, z, v)
       /\ d.room + v = decoder.room + y
  BY <1>9, <1>11, <1>13, <1>14
<1>17. d.room \in Nat /\ decoder.room \in Nat /\ v \in Nat /\ y <= v /\ v <= Len(b) /\ z <= v
       /\ Len(b) \in Nat
  <2>1. d.room \in Nat /\ decoder.room \in Nat
    BY <1>3, <1>16 DEF DecoderAt, IsDecoder
  <2>2. Len(b) \in Nat
    BY <1>3 DEF Splits
  <2> QED
    BY <1>2, <1>11, <2>1, <2>2
<1>18. d.room + (v - z) = r.asked
  <2>1. decoder.room + (y - z) = r.asked
    BY <1>5, <1>15
  <2>2. d.room + v = decoder.room + y
    BY <1>16
  <2>3. d.room + (v - z) = decoder.room + (y - z)
    <3>1. PICK u \in Nat, w \in Nat : u = d.room /\ w = decoder.room
      BY <1>17
    <3>2. u + v = w + y /\ v \in Nat /\ y \in Nat /\ z \in Nat
      BY <1>2, <1>17, <2>2, <3>1
    <3>3. u + (v - z) = w + (y - z)
      BY <3>2
    <3> QED
      BY <3>1, <3>3
  <2> QED
    BY <2>1, <2>3
<1>19. n < Len(s) /\ n + 1 <= Len(s) /\ n + 1 \in 0..Len(s) /\ e[n + 1] \in Nat
  <2>1. n < Len(s)
    BY <1>2, <1>5
  <2>2. e[n + 1] \in Nat
    BY <1>2, <1>3, <2>1, SplitsAt
  <2> QED
    BY <1>2, <2>1, <2>2
<1>20. v <= e[n + 1]
  <2>1. CASE reader.task = "manifest"
    <3>1. n + 1 = Len(s)
      BY <1>2, <1>3, <1>19, <2>1 DEF ItemAt
    <3>2. e[n + 1] = Len(b)
      BY <1>3, <3>1 DEF Splits
    <3> QED
      BY <1>17, <3>2
  <2>2. CASE reader.task # "manifest"
    <3>1. y <= e[n + 1]
      BY <1>3, <1>19 DEF ItemAt
    <3>2. reader.asked <= e[n + 1] - z
      <4>1. PICK h : h = e[n + 1] - z
        OBVIOUS
      <4>2. h \in Nat
        <5>1. e[n + 1] \in Nat /\ z \in Nat /\ z <= e[n + 1]
          BY <1>2, <1>19, <3>1
        <5> QED
          BY <4>1, <5>1
      <4>3. reader.asked = Smaller(ReadSize, h)
        BY <1>5, <2>2, <4>1
      <4> QED
        BY <4>1, <4>2, <4>3, ArchiveFormatAssumption DEF Smaller
    <3>3. v - z <= reader.asked
      BY <1>2, <1>15, <1>17, <1>18
    <3>4. reader.asked = decoder.room + (y - z)
      BY <1>5
    <3>5. PICK asked \in Nat, g \in Nat : asked = reader.asked /\ g = e[n + 1]
      <4>1. reader.asked \in Nat
        BY <1>2, <1>17, <3>4
      <4> QED
        BY <1>19, <4>1, Zenon
    <3>6. asked <= g - z /\ v - z <= asked /\ v \in Nat /\ z \in Nat
      BY <1>2, <1>17, <3>2, <3>3, <3>5
    <3>7. v <= g
      BY <3>6
    <3> QED
      BY <3>5, <3>7
  <2> QED
    BY <2>1, <2>2
<1>21. ItemAt(r, d, s, N, b, e, v, z, n)
  BY <1>3, <1>5, <1>15, <1>16, <1>17, <1>18, <1>20 DEF ItemAt
<1>22. ReadingAt(r, d, archive, i, j, l, s, N, b, e, c, q, v, z, n)
  BY <1>3, <1>15, <1>16, <1>21 DEF ReadingAt
<1>23. Reading(r, d, archive, i, j, l, s, N)
  BY <1>22 DEF Reading
<1> QED
  BY <1>14, <1>15, <1>23, Zenon

\* A read that gives nothing ends an item that is whole, or the manifest.
LEMMA ReturnReads ==
  ASSUME NEW CONSTANT i, NEW CONSTANT j, NEW CONSTANT l, NEW CONSTANT s \in Seq(Seq(Byte)),
         NEW CONSTANT N, archive \in Seq(ArchiveUnit),
         Reading(reader, decoder, archive, i, j, l, s, N), Return, DOMAIN reader = ReaderFields,
         reader.task = "manifest" => Len(s) = 1
  PROVE  IF decoder.output = <<>> /\ reader.task = "manifest" THEN reader.item = s[1]
         ELSE Reading(reader', decoder', archive, i, j, l, s, N) /\ reader'.step = "next"
<1>1. PICK b, e, c, k, y, z, n :
        ReadingAt(reader, decoder, archive, i, j, l, s, N, b, e, c, k, y, z, n)
  BY DEF Reading
<1>2. /\ y \in Nat /\ z \in Nat /\ z <= y /\ y <= Len(b) /\ n \in 0..Len(s) /\ n <= N
      /\ n \in Nat /\ N \in Nat /\ N <= Len(s) /\ Len(s) \in Nat
      /\ j \in Nat /\ k \in Nat
  BY <1>1, ReadingIs
<1>3. /\ Splits(s, b, e) /\ Blocks(archive, i, j, b, c) /\ l \in j..Len(archive)
      /\ reader.limit = l /\ N \in 0..Len(s)
      /\ DecoderAt(decoder, reader.position, archive, i, j, l, b, c, k, y)
      /\ ItemAt(reader, decoder, s, N, b, e, y, z, n)
  BY <1>1 DEF ReadingAt
<1>4. reader.step = "read" /\ (decoder.room = 0 \/ decoder.ended \/ decoder.atEof)
  BY DEF Return
<1>5. /\ n < N /\ decoder.output = Slice(b, z, y) /\ decoder.room + (y - z) = reader.asked
      /\ reader.asked = IF reader.task = "manifest" THEN ReadSize ELSE Smaller(ReadSize, e[n + 1] - z)
  BY <1>3, <1>4 DEF ItemAt
<1>6. /\ n < Len(s) /\ n + 1 \in 0..Len(s) /\ n + 1 \in Nat
  BY <1>2, <1>5
<1>7. /\ b \in Seq(Byte) /\ Len(b) \in Nat /\ e[n] \in Nat /\ e[0] = 0
      /\ e[n + 1] \in Nat /\ e[n] <= e[n + 1] /\ e[n + 1] <= Len(b)
      /\ s[n + 1] = Slice(b, e[n], e[n + 1])
  BY <1>2, <1>3, <1>6, SplitsAt
<1>8. e[n] <= z /\ y <= e[n + 1] /\ reader.item = Slice(b, e[n], z)
      /\ reader.result = SubSeq(s, 1, n)
  BY <1>3, <1>6 DEF ItemAt
<1>9. decoder.output = <<>> <=> z = y
  BY <1>2, <1>5, <1>7, SliceEmpty
<1>10. PICK room \in Nat, asked \in Nat : room = decoder.room /\ asked = reader.asked /\ room + (y - z) = asked
  <2>1. decoder.room \in Nat
    BY <1>3 DEF DecoderAt, IsDecoder
  <2> QED
    BY <1>2, <1>5, <2>1
<1>11. z = y /\ asked > 0 => k = j /\ y = Len(b)
  <2> SUFFICES ASSUME z = y, asked > 0
               PROVE  k = j /\ y = Len(b)
    OBVIOUS
  <2>1. decoder.room # 0
    BY <1>2, <1>10
  <2> QED
    BY <1>3, <1>4, <2>1 DEF DecoderAt
<1>12. PICK r, d : r = reader' /\ d = decoder'
  OBVIOUS
<1>13. d = [decoder EXCEPT !.atEof = @ \/ (decoder.output = <<>> /\ reader.asked > 0)]
  BY <1>12 DEF Return, Returned
<1>14. IsDecoder(decoder)
  BY <1>3 DEF DecoderAt
<1>15. /\ d.room = decoder.room /\ d.output = decoder.output /\ d.input = decoder.input
       /\ d.pending = decoder.pending /\ d.ended = decoder.ended /\ d.finish = decoder.finish
       /\ DOMAIN d = DOMAIN decoder
  BY <1>13, <1>14 DEF IsDecoder
<1>16. d.atEof = (decoder.atEof \/ (decoder.output = <<>> /\ reader.asked > 0))
  BY <1>13, <1>14 DEF IsDecoder
<1>17. d.atEof => k = j
  <2>1. decoder.atEof => k = j
    BY <1>3 DEF DecoderAt
  <2>2. decoder.output = <<>> /\ reader.asked > 0 => k = j
    BY <1>9, <1>10, <1>11
  <2> QED
    BY <1>16, <2>1, <2>2
<1>18. IsDecoder(d)
  <2>1. d.atEof \in BOOLEAN
    BY <1>14, <1>16 DEF IsDecoder
  <2> QED
    BY <1>14, <1>15, <2>1 DEF IsDecoder
<1>19. DecoderAt(d, reader.position, archive, i, j, l, b, c, k, y)
  BY <1>3, <1>15, <1>17, <1>18 DEF DecoderAt
<1>20. CASE decoder.output # <<>>
  <2>1. r = [reader EXCEPT !.step = "next", !.item = @ \o decoder.output]
    BY <1>12, <1>20 DEF Return
  <2>2. /\ r.step = "next" /\ r.item = reader.item \o decoder.output /\ r.task = reader.task
        /\ r.result = reader.result /\ r.limit = reader.limit /\ r.position = reader.position
    BY <2>1 DEF ReaderFields
  <2>3. r.item = Slice(b, e[n], y)
    <3>1. Slice(b, e[n], z) \o Slice(b, z, y) = Slice(b, e[n], y)
      <4>1. /\ b \in Seq(Byte) /\ e[n] \in Nat /\ z \in Nat /\ y \in Nat
            /\ e[n] <= z /\ z <= y /\ y <= Len(b)
        BY <1>2, <1>7, <1>8
      <4> QED
        BY <4>1, SliceJoin, Zenon
    <3> QED
      BY <1>5, <1>8, <2>2, <3>1, Zenon
  <2>4. e[n] <= y /\ y <= y
    BY <1>2, <1>7, <1>8
  <2>5. ItemAt(r, d, s, N, b, e, y, y, n)
    BY <1>2, <1>3, <2>2, <2>3, <2>4 DEF ItemAt
  <2>6. ReadingAt(r, d, archive, i, j, l, s, N, b, e, c, k, y, y, n)
    BY <1>3, <1>19, <2>2, <2>5 DEF ReadingAt
  <2>7. Reading(r, d, archive, i, j, l, s, N)
    BY <2>6 DEF Reading
  <2> QED
    BY <1>12, <1>20, <2>2, <2>7
<1>21. CASE decoder.output = <<>> /\ reader.task # "manifest"
  <2>1. r = [reader EXCEPT !.step = "next", !.result = Append(reader.result, reader.item),
                           !.item = <<>>]
    BY <1>12, <1>21 DEF Return
  <2>2. /\ r.step = "next" /\ r.item = <<>> /\ r.task = reader.task
        /\ r.result = Append(reader.result, reader.item)
        /\ r.limit = reader.limit /\ r.position = reader.position
    BY <2>1 DEF ReaderFields
  <2>3. z = e[n + 1] /\ y = z
    <3>1. y = z
      BY <1>9, <1>21
    <3>2. CASE asked = 0
      <4>1. PICK h : h = e[n + 1] - z
        OBVIOUS
      <4>2. h \in Nat
        <5>1. e[n + 1] \in Nat /\ z \in Nat /\ z <= e[n + 1]
          BY <1>7, <1>8, <1>2, <3>1
        <5> QED
          BY <4>1, <5>1
      <4>3. Smaller(ReadSize, h) = 0
        BY <1>5, <1>10, <1>21, <3>2, <4>1
      <4>4. h = 0
        BY <4>2, <4>3, ArchiveFormatAssumption DEF Smaller
      <4> QED
        BY <1>2, <1>7, <3>1, <4>1, <4>4
    <3>3. CASE asked > 0
      BY <1>2, <1>7, <1>8, <1>11, <3>1, <3>3
    <3> QED
      BY <1>10, <3>2, <3>3
  <2>4. r.result = SubSeq(s, 1, n + 1)
    <3>1. reader.item = s[n + 1]
      BY <1>7, <1>8, <2>3
    <3>2. Append(SubSeq(s, 1, n), s[n + 1]) = SubSeq(s, 1, n + 1)
      BY <1>2, <1>6
    <3> QED
      BY <1>8, <2>2, <3>1, <3>2, Zenon
  <2>5. r.item = Slice(b, e[n + 1], z)
    <3>1. b \in Seq(Byte) /\ z \in Nat /\ z <= Len(b) /\ z <= z
      BY <1>2, <1>7
    <3>2. Slice(b, z, z) = <<>>
      BY <3>1, SliceEmpty
    <3> QED
      BY <2>2, <2>3, <3>2, Zenon
  <2>6. n + 1 < Len(s) => y <= e[(n + 1) + 1]
    BY <1>3, <1>6, <2>3, SplitsAt
  <2>7. n + 1 \in 0..N /\ e[n + 1] <= z /\ z <= y
    BY <1>2, <1>5, <1>7, <2>3
  <2>8. ItemAt(r, d, s, N, b, e, y, z, n + 1)
    BY <1>2, <1>21, <2>2, <2>3, <2>4, <2>5, <2>6, <2>7 DEF ItemAt
  <2>9. ReadingAt(r, d, archive, i, j, l, s, N, b, e, c, k, y, z, n + 1)
    BY <1>3, <1>19, <2>2, <2>8 DEF ReadingAt
  <2>10. Reading(r, d, archive, i, j, l, s, N)
    BY <2>9 DEF Reading
  <2> QED
    BY <1>12, <1>21, <2>2, <2>10
<1>22. CASE decoder.output = <<>> /\ reader.task = "manifest"
  <2>1. asked > 0
    BY <1>5, <1>10, <1>22, ArchiveFormatAssumption
  <2>2. z = Len(b)
    BY <1>9, <1>11, <1>22, <2>1
  <2>3. n = 0
    BY <1>3, <1>22 DEF ItemAt
  <2>4. e[n + 1] = Len(b)
    BY <1>2, <1>7, <1>8, <2>2
  <2>5. reader.item = s[n + 1]
    BY <1>7, <1>8, <2>2, <2>4
  <2> QED
    BY <1>22, <2>3, <2>5
<1> QED
  BY <1>20, <1>21, <1>22

-----------------------------------------------------------------------------
(***************************************************************************)
(* What the reader has done, by its task.                                  *)
(***************************************************************************)
\* Where the stream of a task lies, the bound above it, the items and how many
\* of them the task takes.
OfTask(task, wanted, a, fs, os, x, m, man, i, j, l, s, N) ==
  \/ task = "manifest" /\ i = m /\ j = Len(a) - 2 /\ l = Len(a) - 2
       /\ s = <<Serialized(man)>> /\ N = 1
  \/ task = "objects" /\ i = x /\ j = m /\ l = m /\ s = os /\ N = Len(os)
  \/ task = "streams" /\ fs # <<>> /\ i = 0 /\ j = x /\ l = Len(a) /\ s = fs /\ N = wanted

\* A task goes on, or there are no files to go through.
Busy(r, d, a, fs, os, x, m, man) ==
  \/ \E i, j, l, s, N : /\ OfTask(r.task, r.wanted, a, fs, os, x, m, man, i, j, l, s, N)
                        /\ Reading(r, d, a, i, j, l, s, N)
  \/ r.task = "streams" /\ fs = <<>> /\ r.step = "next" /\ r.result = <<>>

\* What the reader knows, and what an ended task has given.
Knows(r, a, fs, os, m, man) ==
  /\ DOMAIN r = ReaderFields
  /\ r.task \in {"none", "manifest", "objects", "streams"}
  /\ r.manifest \in {<<>>, <<man>>}
  /\ r.manifest # <<>> \/ r.task = "manifest" => r.manifestOffset = m
  /\ r.task \in {"objects", "streams"} => r.manifest = <<man>>
  /\ r.wanted \in 0..Len(fs)

Gave(r, fs, os) ==
  /\ r.task = "objects" => r.result = os
  /\ r.task = "streams" => r.result = SubSeq(fs, 1, r.wanted)

Reads(r, d, a, fs, os, x, m, man) ==
  /\ Knows(r, a, fs, os, m, man) /\ r.step \in {"idle", "next", "read"}
  /\ r.position \in 0..Len(a) /\ r.limit \in 0..Len(a)
  /\ r.step = "idle" => Gave(r, fs, os)
  /\ r.step # "idle" => Busy(r, d, a, fs, os, x, m, man)

ReaderInv ==
  /\ archive = <<>> => reader = NoReader /\ decoder = NewDecoder
  /\ archive # <<>> =>
       \E x, m, man : /\ Laid(archive, files, objects, x, m, man)
                      /\ Reads(reader, decoder, archive, files, objects, x, m, man)

LEMMA LaidIs ==
  ASSUME NEW a, NEW fs, NEW os, NEW x, NEW m, NEW man, Laid(a, fs, os, x, m, man)
  PROVE  /\ a \in Seq(ArchiveUnit) /\ a # <<>>
         /\ fs \in Seq(Seq(Byte)) /\ os \in Seq(Seq(Byte))
         /\ <<Serialized(man)>> \in Seq(Seq(Byte)) /\ Deserialized(Serialized(man)) = man
         /\ man \in Manifests /\ man.ids = Ids(fs) /\ man.sizes = Lengths(fs)
         /\ man.entries = Lengths(os) /\ man.entriesSize = m - x
         /\ a[Len(a) - 1][2] = Len(a) - 2 - m
<1>1. a \in Seq(ArchiveUnit) /\ fs \in Seq(Seq(Byte)) /\ os \in Seq(Seq(Byte))
      /\ Describes(man, x, m, fs, os)
  BY DEF Laid
<1>2. a # <<>>
  <2>1. Len(a) > 0
    BY LaidPlaces
  <2> QED
    BY <1>1, <2>1
<1>3. /\ man \in Manifests /\ man.ids = Ids(fs) /\ man.sizes = Lengths(fs)
      /\ man.entries = Lengths(os) /\ man.entriesSize = m - x
  BY <1>1 DEF Describes
<1>4. Serialized(man) \in Seq(Byte) /\ Deserialized(Serialized(man)) = man
  BY <1>3, SerializedIs
<1>5. <<Serialized(man)>> \in Seq(Seq(Byte))
  BY <1>4
<1>6. a[Len(a) - 1][2] = Len(a) - 2 - m
  BY DEF Laid, Length
<1> QED
  BY <1>1, <1>2, <1>3, <1>4, <1>5, <1>6

LEMMA OfTaskIs ==
  ASSUME NEW a, NEW fs, NEW os, NEW x, NEW m, NEW man, Laid(a, fs, os, x, m, man),
         NEW task, NEW wanted \in 0..Len(fs), NEW i, NEW j, NEW l, NEW s, NEW N,
         OfTask(task, wanted, a, fs, os, x, m, man, i, j, l, s, N)
  PROVE  /\ a \in Seq(ArchiveUnit) /\ Streamed(a, i, j, s) /\ l \in j..Len(a)
         /\ s \in Seq(Seq(Byte)) /\ N \in 0..Len(s) /\ i \in 0..Len(a) /\ l \in 0..Len(a)
         /\ task = "manifest" => N = 1 /\ Len(s) = 1 /\ Deserialized(s[1]) = man
         /\ task = "objects" => s = os /\ N = Len(os)
         /\ task = "streams" => s = fs /\ N = wanted
<1>1. /\ a \in Seq(ArchiveUnit) /\ fs \in Seq(Seq(Byte)) /\ os \in Seq(Seq(Byte))
      /\ <<Serialized(man)>> \in Seq(Seq(Byte)) /\ Deserialized(Serialized(man)) = man
  BY LaidIs
<1>2. /\ x \in Nat /\ m \in Nat /\ x < m /\ m < Len(a) - 2 /\ Len(a) \in Nat
  BY LaidPlaces
<1>3. Streamed(a, x, m, os) /\ Streamed(a, m, Len(a) - 2, <<Serialized(man)>>) /\ FilesIn(a, x, fs)
  BY DEF Laid
<1>4. CASE task = "manifest"
  <2>1. i = m /\ j = Len(a) - 2 /\ l = Len(a) - 2 /\ s = <<Serialized(man)>> /\ N = 1
    BY <1>4 DEF OfTask
  <2>2. Streamed(a, i, j, s) /\ s \in Seq(Seq(Byte))
    BY <1>1, <1>3, <2>1
  <2>3. l \in j..Len(a) /\ i \in 0..Len(a) /\ l \in 0..Len(a)
    BY <1>2, <2>1
  <2>4. Len(s) = 1 /\ s[1] = Serialized(man)
    BY <2>1
  <2> QED
    BY <1>1, <1>4, <2>1, <2>2, <2>3, <2>4
<1>5. CASE task = "objects"
  <2>1. i = x /\ j = m /\ l = m /\ s = os /\ N = Len(os)
    BY <1>5 DEF OfTask
  <2>2. Streamed(a, i, j, s) /\ s \in Seq(Seq(Byte)) /\ N \in 0..Len(s)
    BY <1>1, <1>3, <2>1
  <2>3. l \in j..Len(a) /\ i \in 0..Len(a) /\ l \in 0..Len(a)
    BY <1>2, <2>1
  <2> QED
    BY <1>1, <1>5, <2>1, <2>2, <2>3
<1>6. CASE task = "streams"
  <2>1. fs # <<>> /\ i = 0 /\ j = x /\ l = Len(a) /\ s = fs /\ N = wanted
    BY <1>6 DEF OfTask
  <2>2. Streamed(a, i, j, s) /\ s \in Seq(Seq(Byte)) /\ N \in 0..Len(s)
    BY <1>1, <1>3, <2>1 DEF FilesIn
  <2>3. l \in j..Len(a) /\ i \in 0..Len(a) /\ l \in 0..Len(a)
    BY <1>2, <2>1
  <2> QED
    BY <1>1, <1>6, <2>1, <2>2, <2>3
<1> QED
  BY <1>4, <1>5, <1>6 DEF OfTask

LEMMA LengthsAt ==
  ASSUME NEW s \in Seq(Seq(Byte))
  PROVE  Len(Lengths(s)) = Len(s) /\ \A q \in 1..Len(s) : Lengths(s)[q] = Len(s[q])
BY DEF Lengths

LEMMA SizesAre ==
  ASSUME NEW CONSTANT x, NEW CONSTANT m, NEW CONSTANT man,
         NEW CONSTANT i, NEW CONSTANT j, NEW CONSTANT l, NEW CONSTANT s, NEW CONSTANT N,
         Laid(archive, files, objects, x, m, man), Knows(reader, archive, files, objects, m, man),
         OfTask(reader.task, reader.wanted, archive, files, objects, x, m, man, i, j, l, s, N),
         reader.task # "manifest"
  PROVE  Len(Sizes) = N /\ \A q \in 1..N : Sizes[q] = Len(s[q])
<1>1. /\ files \in Seq(Seq(Byte)) /\ objects \in Seq(Seq(Byte))
      /\ man.sizes = Lengths(files) /\ man.entries = Lengths(objects)
      /\ man.sizes \in Seq(Nat)
  BY LaidIs DEF Manifests
<1>2. /\ Len(Lengths(files)) = Len(files) /\ \A q \in 1..Len(files) : Lengths(files)[q] = Len(files[q])
      /\ Len(Lengths(objects)) = Len(objects)
      /\ \A q \in 1..Len(objects) : Lengths(objects)[q] = Len(objects[q])
  BY <1>1, LengthsAt
<1>3. CASE reader.task = "objects"
  <2>1. s = objects /\ N = Len(objects)
    BY <1>3 DEF OfTask
  <2>2. reader.manifest[1] = man
    BY <1>3 DEF Knows
  <2>3. Sizes = Lengths(objects)
    BY <1>1, <1>3, <2>2 DEF Sizes
  <2> QED
    BY <1>2, <2>1, <2>3
<1>4. CASE reader.task = "streams"
  <2>1. s = files /\ N = reader.wanted /\ N \in 0..Len(files)
    BY <1>4 DEF OfTask, Knows
  <2>2. reader.manifest[1] = man
    BY <1>4 DEF Knows
  <2>3. Sizes = SubSeq(Lengths(files), 1, N)
    BY <1>1, <1>4, <2>1, <2>2 DEF Sizes
  <2>4. Lengths(files) \in Seq(Nat) /\ N <= Len(Lengths(files)) /\ N \in Nat
    BY <1>1, <1>2, <2>1
  <2>5. Len(Sizes) = N /\ \A q \in 1..N : Sizes[q] = Lengths(files)[q]
    BY <2>3, <2>4
  <2>6. \A q \in 1..N : q \in 1..Len(files)
    BY <2>1
  <2> QED
    BY <1>2, <2>1, <2>5, <2>6
<1> QED
  BY <1>3, <1>4 DEF OfTask

\* A task begins at the start of its stream.
LEMMA StartKeeps ==
  ASSUME NEW CONSTANT x, NEW CONSTANT m, NEW CONSTANT man,
         NEW CONSTANT i, NEW CONSTANT j, NEW CONSTANT l, NEW CONSTANT s, NEW CONSTANT N,
         NEW CONSTANT task, NEW CONSTANT wanted,
         Laid(archive, files, objects, x, m, man),
         \/ OfTask(task, wanted, archive, files, objects, x, m, man, i, j, l, s, N)
         \/ task = "streams" /\ files = <<>> /\ i = 0 /\ l = Len(archive),
         NEW r, Start(task, i, l, r), DOMAIN r = ReaderFields, r.wanted = wanted,
         wanted \in 0..Len(files), task \in {"manifest", "objects", "streams"},
         r.manifest \in {<<>>, <<man>>},
         task # "manifest" => r.manifest = <<man>>,
         r.manifestOffset = m
  PROVE  Reads(reader', decoder', archive, files, objects, x, m, man)
<1>1. PICK t, d : t = reader' /\ d = decoder'
  OBVIOUS
<1>2. /\ t = [r EXCEPT !.task = task, !.step = "next", !.position = i, !.limit = l,
                       !.item = <<>>, !.result = <<>>]
      /\ d = NewDecoder
  BY <1>1 DEF Start
<1>3. /\ t.task = task /\ t.step = "next" /\ t.position = i /\ t.limit = l /\ t.item = <<>>
      /\ t.result = <<>> /\ t.wanted = wanted /\ t.manifest = r.manifest
      /\ t.manifestOffset = m /\ DOMAIN t = ReaderFields
  BY <1>2 DEF ReaderFields
<1>4. Len(archive) \in Nat
  BY LaidPlaces
<1>5. Knows(t, archive, files, objects, m, man)
  BY <1>3 DEF Knows
<1>6. /\ Busy(t, d, archive, files, objects, x, m, man)
      /\ i \in 0..Len(archive) /\ l \in 0..Len(archive)
  <2>1. CASE OfTask(task, wanted, archive, files, objects, x, m, man, i, j, l, s, N)
    <3>1. /\ archive \in Seq(ArchiveUnit) /\ Streamed(archive, i, j, s) /\ l \in j..Len(archive)
          /\ s \in Seq(Seq(Byte)) /\ N \in 0..Len(s) /\ i \in 0..Len(archive) /\ l \in 0..Len(archive)
      BY <2>1, OfTaskIs
    <3>2. Reading(t, d, archive, i, j, l, s, N)
      BY <1>2, <1>3, <3>1, StartReads
    <3>3. OfTask(t.task, t.wanted, archive, files, objects, x, m, man, i, j, l, s, N)
      BY <1>3, <2>1
    <3> QED
      BY <3>1, <3>2, <3>3 DEF Busy
  <2>2. CASE task = "streams" /\ files = <<>> /\ i = 0 /\ l = Len(archive)
    BY <1>3, <1>4, <2>2 DEF Busy
  <2> QED
    BY <2>1, <2>2
<1>7. Reads(t, d, archive, files, objects, x, m, man)
  BY <1>3, <1>5, <1>6 DEF Reads
<1> QED
  BY <1>1, <1>7, Zenon

LEMMA ReadManifestKeeps ==
  ASSUME NEW CONSTANT x, NEW CONSTANT m, NEW CONSTANT man,
         Laid(archive, files, objects, x, m, man),
         Reads(reader, decoder, archive, files, objects, x, m, man), ReadManifest
  PROVE  Reads(reader', decoder', archive, files, objects, x, m, man)
<1>1. /\ x \in Nat /\ m \in Nat /\ x < m /\ m < Len(archive) - 2 /\ Len(archive) \in Nat
      /\ archive[Len(archive) - 1][2] = Len(archive) - 2 - m
  BY LaidPlaces, LaidIs
<1>2. Knows(reader, archive, files, objects, m, man)
  BY DEF Reads
<1>3. PICK offset, size :
        /\ offset = IF reader.manifest # <<>> THEN reader.manifestOffset
                    ELSE Len(archive) - 2 - archive[Len(archive) - 1][2]
        /\ size = archive[Len(archive) - 1][2]
        /\ Start("manifest", offset, offset + size, [reader EXCEPT !.manifestOffset = offset])
  BY DEF ReadManifest
<1>4. offset = m
  <2>1. CASE reader.manifest # <<>>
    BY <1>2, <1>3, <2>1 DEF Knows
  <2>2. CASE reader.manifest = <<>>
    BY <1>1, <1>3, <2>2
  <2> QED
    BY <2>1, <2>2
<1>5. offset + size = Len(archive) - 2
  BY <1>1, <1>3, <1>4
<1>6. PICK r, l : r = [reader EXCEPT !.manifestOffset = m] /\ l = Len(archive) - 2
  OBVIOUS
<1>7. Start("manifest", m, l, r)
  BY <1>3, <1>4, <1>5, <1>6
<1>8. /\ DOMAIN r = ReaderFields /\ r.wanted = reader.wanted /\ r.manifest = reader.manifest
      /\ r.manifestOffset = m
  BY <1>2, <1>6 DEF Knows, ReaderFields
<1>9. OfTask("manifest", reader.wanted, archive, files, objects, x, m, man,
             m, Len(archive) - 2, l, <<Serialized(man)>>, 1)
  BY <1>6 DEF OfTask
<1>10. r.manifest \in {<<>>, <<man>>} /\ reader.wanted \in 0..Len(files)
  BY <1>2, <1>8 DEF Knows
<1> QED
  BY <1>7, <1>8, <1>9, <1>10, StartKeeps

LEMMA ReadBaseObjectsKeeps ==
  ASSUME NEW CONSTANT x, NEW CONSTANT m, NEW CONSTANT man,
         Laid(archive, files, objects, x, m, man),
         Reads(reader, decoder, archive, files, objects, x, m, man), ReadBaseObjects
  PROVE  Reads(reader', decoder', archive, files, objects, x, m, man)
<1>1. x \in Nat /\ m \in Nat /\ man.entriesSize = m - x
  BY LaidPlaces, LaidIs
<1>2. Knows(reader, archive, files, objects, m, man)
  BY DEF Reads
<1>3. reader.manifest = <<man>> /\ reader.manifestOffset = m
  BY <1>2 DEF Knows, ReadBaseObjects
<1>4. Start("objects", m - man.entriesSize, m, reader)
  BY <1>3 DEF ReadBaseObjects
<1>5. m - man.entriesSize = x
  BY <1>1
<1>6. PICK r : r = reader
  OBVIOUS
<1>7. Start("objects", x, m, r)
  BY <1>4, <1>5, <1>6
<1>8. /\ DOMAIN r = ReaderFields /\ r.wanted = reader.wanted /\ r.manifest = <<man>>
      /\ r.manifestOffset = m /\ reader.wanted \in 0..Len(files)
  BY <1>2, <1>3, <1>6 DEF Knows
<1>9. OfTask("objects", reader.wanted, archive, files, objects, x, m, man,
             x, m, m, objects, Len(objects))
  BY DEF OfTask
<1> QED
  BY <1>7, <1>8, <1>9, StartKeeps

LEMMA BeginKeeps ==
  ASSUME NEW CONSTANT x, NEW CONSTANT m, NEW CONSTANT man,
         Laid(archive, files, objects, x, m, man),
         Reads(reader, decoder, archive, files, objects, x, m, man), Begin
  PROVE  Reads(reader', decoder', archive, files, objects, x, m, man)
<1>1. man.ids = Ids(files) /\ files \in Seq(Seq(Byte))
  BY LaidIs
<1>2. Knows(reader, archive, files, objects, m, man)
  BY DEF Reads
<1>3. reader.manifest = <<man>> /\ reader.manifestOffset = m
  BY <1>2 DEF Knows, Begin
<1>4. Len(man.ids) = Len(files)
  BY <1>1 DEF Ids
<1>5. PICK wanted \in 0..Len(files) :
        Start("streams", 0, Len(archive), [reader EXCEPT !.wanted = wanted])
  BY <1>3, <1>4 DEF Begin
<1>6. PICK r : r = [reader EXCEPT !.wanted = wanted]
  OBVIOUS
<1>7. Start("streams", 0, Len(archive), r)
  BY <1>5, <1>6
<1>8. /\ DOMAIN r = ReaderFields /\ r.wanted = wanted /\ r.manifest = <<man>>
      /\ r.manifestOffset = m
  BY <1>2, <1>3, <1>6 DEF Knows, ReaderFields
<1>9. CASE files = <<>>
  BY <1>5, <1>7, <1>8, <1>9, StartKeeps
<1>10. CASE files # <<>>
  <2>1. OfTask("streams", wanted, archive, files, objects, x, m, man,
               0, x, Len(archive), files, wanted)
    BY <1>10 DEF OfTask
  <2> QED
    BY <1>5, <1>7, <1>8, <2>1, StartKeeps
<1> QED
  BY <1>9, <1>10

\* What a step within a task leaves alone.
Same(r, t) ==
  /\ DOMAIN t = ReaderFields /\ t.task = r.task /\ t.manifest = r.manifest
  /\ t.manifestOffset = r.manifestOffset /\ t.wanted = r.wanted

LEMMA TaskGoesOn ==
  ASSUME NEW x, NEW m, NEW man, NEW a, NEW fs, NEW os, Laid(a, fs, os, x, m, man),
         NEW i, NEW j, NEW l, NEW s, NEW N, NEW r, NEW t, NEW d,
         Knows(r, a, fs, os, m, man), Same(r, t), t.step \in {"next", "read"},
         OfTask(r.task, r.wanted, a, fs, os, x, m, man, i, j, l, s, N),
         Reading(t, d, a, i, j, l, s, N)
  PROVE  Reads(t, d, a, fs, os, x, m, man)
<1>1. Knows(t, a, fs, os, m, man)
  BY DEF Knows, Same
<1>2. Busy(t, d, a, fs, os, x, m, man)
  <2>1. OfTask(t.task, t.wanted, a, fs, os, x, m, man, i, j, l, s, N)
    BY DEF Same
  <2> QED
    BY <2>1 DEF Busy
<1>3. t.position \in 0..Len(a) /\ t.limit \in 0..Len(a)
  <2>1. r.wanted \in 0..Len(fs)
    BY DEF Knows
  <2>2. a \in Seq(ArchiveUnit) /\ s \in Seq(Seq(Byte))
    BY <2>1, OfTaskIs
  <2>3. PICK b, e, c, k, y, z, n : ReadingAt(t, d, a, i, j, l, s, N, b, e, c, k, y, z, n)
    BY DEF Reading
  <2>4. /\ l \in Nat /\ l <= Len(a) /\ Len(a) \in Nat
        /\ t.position \in Nat /\ t.position <= l
    BY <2>2, <2>3, ReadingIs
  <2>5. t.limit = l
    BY <2>3 DEF ReadingAt
  <2> QED
    BY <2>4, <2>5
<1> QED
  BY <1>1, <1>2, <1>3 DEF Reads

\* Without files there is nothing to ask for.
LEMMA NothingToAsk ==
  ASSUME NEW CONSTANT m, NEW CONSTANT man, files = <<>>,
         Knows(reader, archive, files, objects, m, man), reader.task = "streams"
  PROVE  Len(Sizes) = 0
<1>1. reader.wanted = 0
  BY DEF Knows
<1>2. Sizes = SubSeq(reader.manifest[1].sizes, 1, 0)
  BY <1>1 DEF Sizes
<1> QED
  BY <1>2

LEMMA AskKeeps ==
  ASSUME NEW CONSTANT x, NEW CONSTANT m, NEW CONSTANT man,
         Laid(archive, files, objects, x, m, man),
         Reads(reader, decoder, archive, files, objects, x, m, man), Ask
  PROVE  Reads(reader', decoder', archive, files, objects, x, m, man)
<1>1. Knows(reader, archive, files, objects, m, man) /\ Busy(reader, decoder, archive, files, objects, x, m, man)
  BY DEF Reads, Ask
<1>2. DOMAIN reader = ReaderFields /\ reader.wanted \in 0..Len(files)
  BY <1>1 DEF Knows
<1>3. ~(reader.task = "streams" /\ files = <<>> /\ reader.step = "next" /\ reader.result = <<>>)
  <2> SUFFICES ASSUME reader.task = "streams", files = <<>>, reader.result = <<>>
               PROVE  FALSE
    OBVIOUS
  <2>1. Len(Sizes) = 0
    BY <1>1, NothingToAsk
  <2> QED
    BY <2>1 DEF Ask
<1>4. PICK i, j, l, s, N :
        /\ OfTask(reader.task, reader.wanted, archive, files, objects, x, m, man, i, j, l, s, N)
        /\ Reading(reader, decoder, archive, i, j, l, s, N)
  BY <1>1, <1>3 DEF Busy
<1>5. /\ archive \in Seq(ArchiveUnit) /\ s \in Seq(Seq(Byte))
      /\ (reader.task = "manifest" => N = 1)
  BY <1>2, <1>4, OfTaskIs
<1>6. reader.task # "manifest" => Len(Sizes) = N /\ \A q \in 1..N : Sizes[q] = Len(s[q])
  BY <1>1, <1>4, SizesAre
<1>7. Reading(reader', decoder', archive, i, j, l, s, N)
  BY <1>2, <1>4, <1>5, <1>6, AskReads
<1>8. PICK r, t, d : r = reader /\ t = reader' /\ d = decoder'
  OBVIOUS
<1>9. Same(r, t) /\ t.step = "read"
  <2>1. PICK h : t = [reader EXCEPT !.step = "read", !.asked = h]
    BY <1>8 DEF Ask
  <2> QED
    BY <1>2, <1>8, <2>1 DEF Same, ReaderFields
<1>10. Reads(t, d, archive, files, objects, x, m, man)
  BY <1>1, <1>4, <1>7, <1>8, <1>9, TaskGoesOn
<1> QED
  BY <1>8, <1>10, Zenon

LEMMA DecodeKeeps ==
  ASSUME NEW CONSTANT x, NEW CONSTANT m, NEW CONSTANT man,
         Laid(archive, files, objects, x, m, man),
         Reads(reader, decoder, archive, files, objects, x, m, man), Decode
  PROVE  Reads(reader', decoder', archive, files, objects, x, m, man)
<1>1. Knows(reader, archive, files, objects, m, man) /\ Busy(reader, decoder, archive, files, objects, x, m, man)
  BY DEF Reads, Decode
<1>2. DOMAIN reader = ReaderFields /\ reader.wanted \in 0..Len(files) /\ reader.step = "read"
  BY <1>1 DEF Knows, Decode
<1>3. PICK i, j, l, s, N :
        /\ OfTask(reader.task, reader.wanted, archive, files, objects, x, m, man, i, j, l, s, N)
        /\ Reading(reader, decoder, archive, i, j, l, s, N)
  BY <1>1, <1>2 DEF Busy
<1>4. /\ archive \in Seq(ArchiveUnit) /\ s \in Seq(Seq(Byte))
      /\ (reader.task = "manifest" => Len(s) = 1)
  BY <1>2, <1>3, OfTaskIs
<1>5. Reading(reader', decoder', archive, i, j, l, s, N) /\ reader'.step = "read"
  BY <1>2, <1>3, <1>4, DecodeReads
<1>6. PICK r, t, d : r = reader /\ t = reader' /\ d = decoder'
  OBVIOUS
<1>7. Same(r, t) /\ t.step = "read"
  <2>1. PICK h, g : t = [reader EXCEPT !.position = h, !.step = g]
    BY <1>6 DEF Decode
  <2> QED
    BY <1>2, <1>5, <1>6, <2>1 DEF Same, ReaderFields
<1>8. Reads(t, d, archive, files, objects, x, m, man)
  BY <1>1, <1>3, <1>5, <1>6, <1>7, TaskGoesOn
<1> QED
  BY <1>6, <1>8, Zenon

LEMMA ReturnKeeps ==
  ASSUME NEW CONSTANT x, NEW CONSTANT m, NEW CONSTANT man,
         Laid(archive, files, objects, x, m, man),
         Reads(reader, decoder, archive, files, objects, x, m, man), Return
  PROVE  Reads(reader', decoder', archive, files, objects, x, m, man)
<1>1. Knows(reader, archive, files, objects, m, man) /\ Busy(reader, decoder, archive, files, objects, x, m, man)
  BY DEF Reads, Return
<1>2. DOMAIN reader = ReaderFields /\ reader.wanted \in 0..Len(files) /\ reader.step = "read"
  BY <1>1 DEF Knows, Return
<1>3. PICK i, j, l, s, N :
        /\ OfTask(reader.task, reader.wanted, archive, files, objects, x, m, man, i, j, l, s, N)
        /\ Reading(reader, decoder, archive, i, j, l, s, N)
  BY <1>1, <1>2 DEF Busy
<1>4. /\ archive \in Seq(ArchiveUnit) /\ s \in Seq(Seq(Byte))
      /\ (reader.task = "manifest" => Len(s) = 1 /\ Deserialized(s[1]) = man)
  BY <1>2, <1>3, OfTaskIs
<1>5. IF decoder.output = <<>> /\ reader.task = "manifest" THEN reader.item = s[1]
      ELSE Reading(reader', decoder', archive, i, j, l, s, N) /\ reader'.step = "next"
  BY <1>2, <1>3, <1>4, ReturnReads
<1>6. PICK r, t, d : r = reader /\ t = reader' /\ d = decoder'
  OBVIOUS
<1>7. CASE ~(decoder.output = <<>> /\ reader.task = "manifest")
  <2>1. Same(r, t)
    <3>1. CASE decoder.output # <<>>
      <4>1. PICK h : t = [reader EXCEPT !.step = "next", !.item = h]
        BY <1>6, <3>1 DEF Return
      <4> QED
        BY <1>2, <1>6, <4>1 DEF Same, ReaderFields
    <3>2. CASE decoder.output = <<>>
      <4>1. PICK h : t = [reader EXCEPT !.step = "next", !.result = h, !.item = <<>>]
        BY <1>6, <1>7, <3>2 DEF Return
      <4> QED
        BY <1>2, <1>6, <4>1 DEF Same, ReaderFields
    <3> QED
      BY <3>1, <3>2
  <2>2. Reads(t, d, archive, files, objects, x, m, man)
    BY <1>1, <1>3, <1>5, <1>6, <1>7, <2>1, TaskGoesOn
  <2> QED
    BY <1>6, <2>2, Zenon
<1>8. CASE decoder.output = <<>> /\ reader.task = "manifest"
  <2>1. Deserialized(reader.item) = man
    BY <1>4, <1>5, <1>8
  <2>2. PICK h : t = [reader EXCEPT !.step = "idle", !.result = h, !.manifest = <<man>>]
    BY <1>6, <1>8, <2>1 DEF Return
  <2>3. /\ DOMAIN t = ReaderFields /\ t.task = "manifest" /\ t.step = "idle"
        /\ t.manifest = <<man>> /\ t.manifestOffset = reader.manifestOffset
        /\ t.wanted = reader.wanted /\ t.position = reader.position /\ t.limit = reader.limit
    BY <1>2, <1>8, <2>2 DEF ReaderFields
  <2>4. Knows(t, archive, files, objects, m, man)
    BY <1>1, <1>8, <2>3 DEF Knows
  <2>5. Reads(t, d, archive, files, objects, x, m, man)
    BY <2>3, <2>4 DEF Reads, Gave
  <2> QED
    BY <1>6, <2>5, Zenon
<1> QED
  BY <1>7, <1>8

LEMMA EndReadKeeps ==
  ASSUME NEW CONSTANT x, NEW CONSTANT m, NEW CONSTANT man,
         Laid(archive, files, objects, x, m, man),
         Reads(reader, decoder, archive, files, objects, x, m, man), EndRead
  PROVE  Reads(reader', decoder', archive, files, objects, x, m, man)
<1>1. Knows(reader, archive, files, objects, m, man) /\ Busy(reader, decoder, archive, files, objects, x, m, man)
  BY DEF Reads, EndRead
<1>2. /\ DOMAIN reader = ReaderFields /\ reader.wanted \in 0..Len(files)
      /\ reader.task # "manifest" /\ Len(reader.result) = Len(Sizes)
  BY <1>1 DEF Knows, EndRead
<1>3. Gave(reader, files, objects)
  <2>1. CASE reader.task = "streams" /\ files = <<>> /\ reader.step = "next" /\ reader.result = <<>>
    <3>1. reader.wanted = 0
      BY <1>2, <2>1
    <3> QED
      BY <2>1, <3>1 DEF Gave
  <2>2. CASE \E i, j, l, s, N :
               /\ OfTask(reader.task, reader.wanted, archive, files, objects, x, m, man, i, j, l, s, N)
               /\ Reading(reader, decoder, archive, i, j, l, s, N)
    <3>1. PICK i, j, l, s, N :
            /\ OfTask(reader.task, reader.wanted, archive, files, objects, x, m, man, i, j, l, s, N)
            /\ Reading(reader, decoder, archive, i, j, l, s, N)
      BY <2>2
    <3>2. /\ archive \in Seq(ArchiveUnit) /\ s \in Seq(Seq(Byte)) /\ N \in 0..Len(s)
          /\ (reader.task = "objects" => s = objects /\ N = Len(objects))
          /\ (reader.task = "streams" => s = files /\ N = reader.wanted)
      BY <1>2, <3>1, OfTaskIs
    <3>3. PICK b, e, c, k, y, z, n :
            ReadingAt(reader, decoder, archive, i, j, l, s, N, b, e, c, k, y, z, n)
      BY <3>1 DEF Reading
    <3>4. Len(reader.result) = n
      BY <3>2, <3>3, ReadingIs
    <3>5. reader.result = SubSeq(s, 1, n)
      BY <3>3 DEF ReadingAt, ItemAt
    <3>6. Len(Sizes) = N
      BY <1>1, <1>2, <3>1, SizesAre
    <3>7. reader.result = SubSeq(s, 1, N)
      BY <1>2, <3>4, <3>5, <3>6
    <3>8. SubSeq(s, 1, Len(s)) = s
      BY <3>2
    <3> QED
      BY <3>2, <3>7, <3>8 DEF Gave
  <2> QED
    BY <1>1, <2>1, <2>2 DEF Busy
<1>4. PICK t, d : t = reader' /\ d = decoder'
  OBVIOUS
<1>5. /\ DOMAIN t = ReaderFields /\ t.task = reader.task /\ t.step = "idle"
      /\ t.manifest = reader.manifest /\ t.manifestOffset = reader.manifestOffset
      /\ t.wanted = reader.wanted /\ t.position = reader.position /\ t.limit = reader.limit
      /\ t.result = reader.result
  BY <1>2, <1>4 DEF EndRead, ReaderFields
<1>6. Knows(t, archive, files, objects, m, man)
  BY <1>1, <1>5 DEF Knows
<1>7. Gave(t, files, objects)
  BY <1>3, <1>5 DEF Gave
<1>8. Reads(t, d, archive, files, objects, x, m, man)
  BY <1>5, <1>6, <1>7 DEF Reads
<1> QED
  BY <1>4, <1>8, Zenon

-----------------------------------------------------------------------------
(***************************************************************************)
(* The reader's invariant, kept by every step.                             *)
(***************************************************************************)
LEMMA NotYet ==
  ASSUME NEW m, NEW man, NEW x, NEW a, NEW fs, NEW os, Laid(a, fs, os, x, m, man)
  PROVE  Reads(NoReader, NewDecoder, a, fs, os, x, m, man)
<1>1. fs \in Seq(Seq(Byte)) /\ Len(a) \in Nat
  BY LaidIs, LaidPlaces
<1>2. /\ DOMAIN NoReader = ReaderFields /\ NoReader.task = "none" /\ NoReader.step = "idle"
      /\ NoReader.manifest = <<>> /\ NoReader.wanted = 0 /\ NoReader.position = 0
      /\ NoReader.limit = 0
  BY DEF NoReader, ReaderFields
<1>3. 0 \in 0..Len(fs) /\ 0 \in 0..Len(a)
  BY <1>1
<1> QED
  BY <1>2, <1>3 DEF Reads, Knows, Gave

LEMMA ReaderInvInit ==
  ASSUME Init
  PROVE  ReaderInv
BY DEF Init, ReaderInv

\* The file that others see stays as it is: the writer is done with it.
LEMMA WriterLeaves ==
  ASSUME WriterInv, Writer
  PROVE  writer # "Final" /\ UNCHANGED reading
<1>1. UNCHANGED reading
  BY DEF Writer, AddFile, AddFso, FirstObject, AddVersionManifest, WriteManifest, FlushManifest,
     Commit, Encode, Fail, reading
<1>2. SUFFICES ASSUME writer = "Final"
               PROVE  FALSE
  BY <1>1
<1>3. call = "idle" /\ after = "nothing"
  BY <1>2 DEF WriterInv, AtEnd
<1> QED
  BY <1>2, <1>3 DEF Writer, AddFile, AddFso, FirstObject, AddVersionManifest, WriteManifest,
     FlushManifest, Commit, Encode, Fail

LEMMA ReaderInvNext ==
  ASSUME WriterInv, ReaderInv, [Next]_vars
  PROVE  ReaderInv'
<1>1. WriterInv'
  BY WriterInvNext
<1>2. CASE Writer
  <2>1. archive = <<>> /\ UNCHANGED reading
    BY <1>2, WriterLeaves DEF WriterInv, AtEnd
  <2>2. reader' = NoReader /\ decoder' = NewDecoder
    BY <2>1 DEF ReaderInv, reading
  <2>3. ASSUME archive' # <<>>
        PROVE  \E x, m, man : /\ Laid(archive', files', objects', x, m, man)
                              /\ Reads(reader', decoder', archive', files', objects', x, m, man)
    <3>1. writer' = "Final"
      BY <1>1, <2>3 DEF WriterInv, AtEnd
    <3>2. PICK x, m, man : Laid(archive', files', objects', x, m, man)
      BY <1>1, <3>1 DEF WriterInv, AtEnd
    <3>3. PICK a, fs, os : a = archive' /\ fs = files' /\ os = objects'
      OBVIOUS
    <3>4. Laid(a, fs, os, x, m, man)
      BY <3>2, <3>3
    <3>5. Reads(NoReader, NewDecoder, a, fs, os, x, m, man)
      BY <3>4, NotYet
    <3> QED
      BY <2>2, <3>3, <3>4, <3>5, Zenon
  <2> QED
    BY <2>2, <2>3 DEF ReaderInv
<1>3. CASE Reader
  <2>1. archive # <<>>
    <3>1. SUFFICES ASSUME archive = <<>>
                   PROVE  FALSE
      OBVIOUS
    <3>2. reader.step = "idle"
      BY <3>1 DEF ReaderInv, NoReader
    <3> QED
      BY <1>3, <3>1, <3>2 DEF Reader, ReadManifest, ReadBaseObjects, Begin, MayStart, Ask, Decode,
         Return, EndRead
  <2>2. PICK x, m, man : /\ Laid(archive, files, objects, x, m, man)
                         /\ Reads(reader, decoder, archive, files, objects, x, m, man)
    BY <2>1 DEF ReaderInv
  <2>3. Reads(reader', decoder', archive, files, objects, x, m, man)
    BY <1>3, <2>2, ReadManifestKeeps, ReadBaseObjectsKeeps, BeginKeeps, AskKeeps, DecodeKeeps,
       ReturnKeeps, EndReadKeeps DEF Reader
  <2>4. archive' = archive /\ files' = files /\ objects' = objects
    BY <1>3, ReaderLeaves DEF writing
  <2> QED
    BY <2>1, <2>2, <2>3, <2>4 DEF ReaderInv
<1>4. CASE UNCHANGED vars
  BY <1>4 DEF ReaderInv, vars, writing, reading
<1> QED
  BY <1>2, <1>3, <1>4 DEF Next

-----------------------------------------------------------------------------
(***************************************************************************)
(* What follows from the two invariants.                                   *)
(***************************************************************************)
LEMMA InvInit ==
  ASSUME Init
  PROVE  WriterInv /\ ReaderInv
BY WriterInvInit, ReaderInvInit

LEMMA InvNext ==
  ASSUME WriterInv, ReaderInv, [Next]_vars
  PROVE  WriterInv' /\ ReaderInv'
BY WriterInvNext, ReaderInvNext

LEMMA UnitSorts ==
  /\ \A u \in PackedUnit : u[1] \in Unit
  /\ \A u \in ArchiveUnit : u[1] \in Unit
BY DEF PackedUnit, HashedUnit, ArchiveUnit, End, Unit

LEMMA InvTypeOK ==
  ASSUME WriterInv, ReaderInv
  PROVE  TypeOK
<1>1. /\ writer \in {"Initial", "PushingFiles", "PushingFsos", "Final", "Failed"}
      /\ call \in {"idle", "write", "flush"}
      /\ after \in {"nothing", "object", "manifest", "flush", "trailer"}
      /\ encoder.action \in {"RUN", "FINISH"}
      /\ Len(encoder.out) < OutSize
      /\ image \in Seq(PackedUnit) /\ hashed = image
  BY DEF WriterInv, WriterTypes, IsEncoder
<1>2. /\ archive \in Seq(ArchiveUnit) /\ reader.task \in {"none", "manifest", "objects", "streams"}
      /\ reader.step \in {"idle", "next", "read", "failed"}
      /\ {reader.position, reader.limit} \subseteq 0..Len(archive)
  <2>1. CASE archive = <<>>
    <3>1. reader = NoReader
      BY <2>1 DEF ReaderInv
    <3>2. 0 \in 0..Len(archive) /\ archive \in Seq(ArchiveUnit)
      BY <2>1
    <3> QED
      BY <3>1, <3>2 DEF NoReader
  <2>2. CASE archive # <<>>
    <3>1. PICK x, m, man : /\ Laid(archive, files, objects, x, m, man)
                           /\ Reads(reader, decoder, archive, files, objects, x, m, man)
      BY <2>2 DEF ReaderInv
    <3>2. archive \in Seq(ArchiveUnit)
      BY <3>1, LaidIs
    <3> QED
      BY <3>1, <3>2 DEF Reads, Knows
  <2> QED
    BY <2>1, <2>2
<1>3. \A i \in 1..Len(image) : image[i][1] \in Unit
  BY <1>1, UnitSorts
<1>4. \A i \in 1..Len(archive) : archive[i][1] \in Unit
  BY <1>2, UnitSorts
<1>5. \A units \in {image, hashed, archive} : \A i \in 1..Len(units) : units[i][1] \in Unit
  BY <1>1, <1>3, <1>4
<1> QED
  BY <1>1, <1>2, <1>5 DEF TypeOK

LEMMA InvReadable ==
  ASSUME ReaderInv
  PROVE  ArchivesAreReadable
<1>1. CASE archive = <<>>
  BY <1>1 DEF ReaderInv, NoReader, ArchivesAreReadable
<1>2. CASE archive # <<>>
  BY <1>2 DEF ReaderInv, Reads, ArchivesAreReadable
<1> QED
  BY <1>1, <1>2

\* The first items are a prefix of those that are wanted.
LEMMA FirstItems ==
  ASSUME NEW s \in Seq(Seq(Byte)), NEW n \in Nat, NEW N \in Nat, n <= N, N <= Len(s)
  PROVE  IsPrefix(SubSeq(s, 1, n), SubSeq(s, 1, N))
<1>1. Len(SubSeq(s, 1, n)) = n /\ Len(SubSeq(s, 1, N)) = N
  OBVIOUS
<1>2. SubSeq(SubSeq(s, 1, n), 1, n) = SubSeq(SubSeq(s, 1, N), 1, n)
  OBVIOUS
<1> QED
  BY <1>1, <1>2 DEF IsPrefix

LEMMA InvReadsBack ==
  ASSUME ReaderInv
  PROVE  ReadsBackWhatWasWritten
<1> DEFINE given == IF reader.task = "objects" THEN objects ELSE SubSeq(files, 1, reader.wanted)
<1> SUFFICES ASSUME reader.task \in {"objects", "streams"}
             PROVE  /\ IsPrefix(reader.result, given)
                    /\ reader.step = "idle" => reader.result = given
                    /\ reader.task = "streams" =>
                         reader.manifest[1].ids = [i \in 1..Len(files) |-> i]
  BY DEF ReadsBackWhatWasWritten
<1>1. archive # <<>>
  BY DEF ReaderInv, NoReader
<1>2. PICK x, m, man : /\ Laid(archive, files, objects, x, m, man)
                       /\ Reads(reader, decoder, archive, files, objects, x, m, man)
  BY <1>1 DEF ReaderInv
<1>3. /\ Knows(reader, archive, files, objects, m, man) /\ reader.wanted \in 0..Len(files)
      /\ reader.manifest = <<man>>
  BY <1>2 DEF Reads, Knows
<1>4. files \in Seq(Seq(Byte)) /\ objects \in Seq(Seq(Byte)) /\ man.ids = Ids(files)
  BY <1>2, LaidIs
<1>5. reader.manifest[1].ids = [i \in 1..Len(files) |-> i]
  BY <1>3, <1>4 DEF Ids
<1>6. PICK s : s = IF reader.task = "objects" THEN objects ELSE files
  OBVIOUS
<1>7. PICK N : N = IF reader.task = "objects" THEN Len(objects) ELSE reader.wanted
  OBVIOUS
<1>8. s \in Seq(Seq(Byte)) /\ N \in Nat /\ N <= Len(s) /\ given = SubSeq(s, 1, N)
  <2>1. CASE reader.task = "objects"
    <3>1. SubSeq(objects, 1, Len(objects)) = objects /\ Len(objects) \in Nat
      BY <1>4
    <3>2. s = objects /\ N = Len(objects)
      BY <1>6, <1>7, <2>1
    <3>3. given = objects
      BY <2>1
    <3>4. given = SubSeq(s, 1, N)
      BY <3>1, <3>2, <3>3, Zenon
    <3>5. s \in Seq(Seq(Byte)) /\ N \in Nat /\ N <= Len(s)
      BY <1>4, <3>1, <3>2
    <3> QED
      BY <3>4, <3>5, Zenon
  <2>2. CASE reader.task # "objects"
    <3>1. reader.wanted \in Nat /\ reader.wanted <= Len(files)
      BY <1>3, <1>4
    <3>2. s = files /\ N = reader.wanted /\ given = SubSeq(files, 1, reader.wanted)
      BY <1>6, <1>7, <2>2
    <3> QED
      BY <1>4, <3>1, <3>2
  <2> QED
    BY <2>1, <2>2
<1>9. CASE reader.step = "idle"
  <2>1. reader.result = given
    BY <1>2, <1>9 DEF Reads, Gave
  <2>2. IsPrefix(given, given)
    <3>1. N \in Nat /\ N <= N /\ N <= Len(s) /\ s \in Seq(Seq(Byte))
      BY <1>8
    <3>2. IsPrefix(SubSeq(s, 1, N), SubSeq(s, 1, N))
      BY <3>1, FirstItems, Zenon
    <3> QED
      BY <1>8, <3>2
  <2> QED
    BY <1>5, <2>1, <2>2
<1>10. CASE reader.step # "idle"
  <2>1. PICK n \in Nat : n <= N /\ reader.result = SubSeq(s, 1, n)
    <3>1. CASE reader.task = "streams" /\ files = <<>> /\ reader.step = "next" /\ reader.result = <<>>
      <4>1. SubSeq(s, 1, 0) = <<>> /\ 0 <= N
        BY <1>8
      <4> QED
        BY <3>1, <4>1
    <3>2. CASE \E i, j, l, t, M :
                 /\ OfTask(reader.task, reader.wanted, archive, files, objects, x, m, man, i, j, l, t, M)
                 /\ Reading(reader, decoder, archive, i, j, l, t, M)
      <4>1. PICK i, j, l, t, M :
              /\ OfTask(reader.task, reader.wanted, archive, files, objects, x, m, man, i, j, l, t, M)
              /\ Reading(reader, decoder, archive, i, j, l, t, M)
        BY <3>2
      <4>2. /\ archive \in Seq(ArchiveUnit) /\ t \in Seq(Seq(Byte))
            /\ (reader.task = "objects" => t = objects /\ M = Len(objects))
            /\ (reader.task = "streams" => t = files /\ M = reader.wanted)
        BY <1>2, <1>3, <4>1, OfTaskIs
      <4>3. t = s /\ M = N
        BY <1>6, <1>7, <4>2
      <4>4. PICK b, e, c, k, y, z, n :
              ReadingAt(reader, decoder, archive, i, j, l, t, M, b, e, c, k, y, z, n)
        BY <4>1 DEF Reading
      <4>5. n \in Nat /\ n <= M
        BY <4>2, <4>4, ReadingIs
      <4>6. reader.result = SubSeq(t, 1, n)
        BY <4>4 DEF ReadingAt, ItemAt
      <4> QED
        BY <4>3, <4>5, <4>6
    <3> QED
      BY <1>2, <1>10, <3>1, <3>2 DEF Reads, Busy
  <2>2. IsPrefix(reader.result, given)
    BY <1>8, <2>1, FirstItems
  <2> QED
    BY <1>5, <1>10, <2>2
<1> QED
  BY <1>9, <1>10

-----------------------------------------------------------------------------
(***************************************************************************)
(* The theorems.                                                           *)
(***************************************************************************)
\* TypeOK: every variable keeps its sort, in whatever order ArchiveWriter and
\* ArchiveReader are called; the encoder's buffer never overflows and the reader
\* stays within the file.
THEOREM TypeCorrect == Spec => []TypeOK
<1>1. Init => WriterInv /\ ReaderInv
  BY InvInit
<1>2. WriterInv /\ ReaderInv /\ [Next]_vars => (WriterInv /\ ReaderInv)'
  BY InvNext
<1>3. WriterInv /\ ReaderInv => TypeOK
  BY InvTypeOK
<1> QED
  BY <1>1, <1>2, <1>3, PTL DEF Spec

\* OnlyWholeArchives: the transaction makes a version file visible only once the
\* streams of the files, the objects and the manifest have ended, with the hash
\* of all that precedes the hash behind them, whatever fails before.
THEOREM WholeArchives == Spec => []OnlyWholeArchives
<1>1. Init => WriterInv
  BY WriterInvInit
<1>2. WriterInv /\ [Next]_vars => WriterInv'
  BY WriterInvNext
<1>3. WriterInv => OnlyWholeArchives
  BY WriterInvImplies
<1> QED
  BY <1>1, <1>2, <1>3, PTL DEF Spec

\* ArchivesAreReadable: the decoder never meets a unit that is no packed data, or
\* the end of what it may read before the end of its stream, in a file that the
\* transaction of ArchiveWriter has made visible.
THEOREM Readable == Spec => []ArchivesAreReadable
<1>1. Init => WriterInv /\ ReaderInv
  BY InvInit
<1>2. WriterInv /\ ReaderInv /\ [Next]_vars => (WriterInv /\ ReaderInv)'
  BY InvNext
<1>3. WriterInv /\ ReaderInv => ArchivesAreReadable
  BY InvReadable
<1> QED
  BY <1>1, <1>2, <1>3, PTL DEF Spec

\* ReadsBackWhatWasWritten: ReadBaseObjects gives the objects AddFso was given, and
\* Begin the files AddFile was given up to the last one wanted, each whole and
\* in order, however the compressor cuts the bytes into blocks and the reader
\* asks for them.
THEOREM ReadsBack == Spec => []ReadsBackWhatWasWritten
<1>1. Init => WriterInv /\ ReaderInv
  BY InvInit
<1>2. WriterInv /\ ReaderInv /\ [Next]_vars => (WriterInv /\ ReaderInv)'
  BY InvNext
<1>3. WriterInv /\ ReaderInv => ReadsBackWhatWasWritten
  BY InvReadsBack
<1> QED
  BY <1>1, <1>2, <1>3, PTL DEF Spec
=============================================================================
