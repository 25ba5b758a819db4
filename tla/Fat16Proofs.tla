----------------------------- MODULE Fat16Proofs -----------------------------
(***************************************************************************)
(* Proofs about reading a FAT16 volume, for every size of sectors,         *)
(* clusters and directories, every table and every set of volumes: where   *)
(* the clusters of a file are, what the disk stream delivers, how far the  *)
(* items of a directory are counted, and what a read returns.              *)
(***************************************************************************)
EXTENDS Fat16, SequenceTheorems, WellFoundedInduction, TLAPS

------------------------------------------------------------------------------
(* Numbers *)

PerSector == SectorSize \div ItemSize

\* Quotient and remainder.
LEMMA Division ==
  ASSUME NEW a \in Int, NEW d \in Nat \ {0}
  PROVE  /\ a \div d \in Int /\ a % d \in 0..(d-1)
         /\ a = d * (a \div d) + (a % d)
OBVIOUS

\* A number has one quotient and one remainder.
LEMMA Unique ==
  ASSUME NEW d \in Nat \ {0}, NEW q \in Int, NEW r \in 0..(d-1)
  PROVE  (d * q + r) \div d = q /\ (d * q + r) % d = r
<1> DEFINE a == d * q + r
           p == a \div d
           s == a % d
<1>1. a \in Int /\ p \in Int /\ s \in 0..(d-1) /\ a = d * p + s
  BY Division
<1>2. d * (p - q) = r - s
  BY <1>1
<1>3. p - q < 1
  <2> SUFFICES ASSUME p - q >= 1 PROVE FALSE
    BY <1>1
  <2>1. d * (p - q) >= d
    BY <1>1
  <2> QED BY <2>1, <1>2, <1>1
<1>4. p - q > -1
  <2> SUFFICES ASSUME q - p >= 1 PROVE FALSE
    BY <1>1
  <2>1. d * (q - p) >= d
    BY <1>1
  <2>2. d * (q - p) = s - r
    BY <1>1
  <2> QED BY <2>1, <2>2, <1>1
<1>5. p = q
  BY <1>1, <1>3, <1>4
<1> QED BY <1>1, <1>5

\* A multiple leaves no remainder.
LEMMA Multiple ==
  ASSUME NEW d \in Nat \ {0}, NEW q \in Int
  PROVE  (d * q) \div d = q /\ (d * q) % d = 0
<1>1. 0 \in 0..(d-1) /\ d * q = d * q + 0
  OBVIOUS
<1>2. (d * q + 0) \div d = q /\ (d * q + 0) % d = 0
  BY <1>1, Unique
<1> QED
  BY <1>1, <1>2

\* A product grows with its factor.
LEMMA Grows ==
  ASSUME NEW d \in Nat, NEW a \in Int, NEW b \in Int, a <= b
  PROVE  d * a <= d * b /\ a * d <= b * d
<1>1. d * (b - a) >= 0
  OBVIOUS
<1> QED
  BY <1>1

\* A set of numbers that is not empty has a least one.
LEMMA LeastNumber ==
  ASSUME NEW S, S \subseteq Nat, S # {}
  PROVE  \E x \in S : \A y \in S : x <= y
<1> DEFINE R == {ss \in Nat \X Nat : ss[1] < ss[2]}
<1>1. IsWellFoundedOn(R, Nat)
  BY NatLessThanWellFounded DEF OpToRel
<1>2. PICK x \in S : \A y \in S : ~(<<y, x>> \in R)
  <2> HIDE DEF R
  <2> QED BY <1>1, WFMin
<1>3. ASSUME NEW y \in S PROVE x <= y
  <2>1. ~(y < x)
    BY <1>2
  <2> QED BY <2>1
<1> QED
  BY <1>3

\* A sector holds a whole number of items, and more than one.
LEMMA ItemsPerSector ==
  /\ PerSector \in Nat /\ PerSector >= 2
  /\ SectorSize = PerSector * ItemSize
  /\ ItemSize \in Nat \ {0} /\ SectorSize \in Nat \ {0} /\ ItemSize < SectorSize
<1>1. /\ ItemSize \in Nat \ {0} /\ SectorSize \in Nat \ {0} /\ 2 * ItemSize <= SectorSize
      /\ SectorSize % ItemSize = 0
  BY Fat16Assumption, SectorAssumption
<1>2. PerSector \in Int /\ SectorSize = ItemSize * PerSector
  BY <1>1, Division DEF PerSector
<1>3. PerSector >= 2
  <2> SUFFICES ASSUME PerSector <= 1 PROVE FALSE
    BY <1>2
  <2>1. ItemSize * PerSector <= ItemSize * 1
    BY <1>1, <1>2, Grows
  <2> QED BY <1>1, <1>2, <2>1
<1> QED
  BY <1>1, <1>2, <1>3

------------------------------------------------------------------------------
(* The chain of clusters *)

\* fat16_get_cluster_for_offset: as many hops as a file has clusters before the offset
\* lead to its cluster there; behind the last there is none.
LEMMA HopsAlongChain ==
  ASSUME NEW i, LaidOut(i), NEW n \in Nat
  PROVE  Hops(i.cluster, n) = IF n < Len(i.chain) THEN i.chain[n + 1] ELSE EIO
<1> DEFINE c == i.chain
           Step(f, k) == IF k = 0 THEN i.cluster
                         ELSE IF f[k-1] = EIO \/ EndsChain(Fat[f[k-1]]) THEN EIO
                              ELSE Fat[f[k-1]]
           IsHop(f) == f = [k \in 0..n |-> Step(f, k)]
           w == [k \in 0..n |-> IF k < Len(c) THEN c[k + 1] ELSE EIO]
           h == CHOOSE f : IsHop(f)
<1>1. Hops(i.cluster, n) = h[n]
  BY DEF Hops
<1>2. /\ c \in Seq(Cluster) /\ Len(c) \in Nat \ {0} /\ i.cluster = c[1]
      /\ Fat[c[Len(c)]] = 65535 /\ EndsChain(65535)
      /\ \A k \in 1..Len(c)-1 : Fat[c[k]] = c[k + 1]
      /\ \A k \in 1..Len(c) : c[k] \in Cluster /\ c[k] # EIO /\ ~EndsChain(c[k])
  BY DEF LaidOut, Cluster, EndsChain, EIO
<1> HIDE DEF c
<1>3. \A k \in 0..n : w[k] = Step(w, k)
  <2> SUFFICES ASSUME NEW k \in 0..n PROVE w[k] = Step(w, k)
    OBVIOUS
  <2>1. CASE k = 0
    BY <1>2, <2>1
  <2>2. CASE k # 0
    <3>1. k-1 \in 0..n /\ k-1 \in Nat /\ k \in Nat
      BY <2>2
    <3>2. CASE k < Len(c)
      <4>1. w[k-1] = c[k] /\ w[k] = c[k+1]
        BY <3>1, <3>2, <1>2
      <4>2. Fat[c[k]] = c[k+1] /\ ~EndsChain(c[k+1]) /\ c[k] # EIO
        BY <3>2, <2>2, <1>2
      <4> QED
        BY <4>1, <4>2, <2>2
    <3>3. CASE k = Len(c)
      <4>1. w[k-1] = c[k] /\ w[k] = EIO
        BY <3>1, <3>3, <1>2
      <4> QED
        BY <4>1, <3>3, <2>2, <1>2
    <3>4. CASE k > Len(c)
      <4>1. w[k-1] = EIO /\ w[k] = EIO
        BY <3>1, <3>4, <1>2
      <4> QED
        BY <4>1, <2>2
    <3> QED
      BY <3>1, <3>2, <3>3, <3>4, <1>2
  <2> QED
    BY <2>1, <2>2
<1>4. IsHop(w)
  BY <1>3
<1>5. IsHop(h)
  <2> HIDE DEF IsHop, w
  <2> QED
    BY <1>4, Zenon
<1>6. h = [k \in 0..n |-> Step(h, k)]
  BY <1>5
<1> HIDE DEF w, h, IsHop
<1>7. \A k \in 0..n : h[k] = Step(h, k)
  BY <1>6
<1>8. \A k \in 0..n : h[k] = w[k]
  <2> SUFFICES ASSUME ~(\A k \in 0..n : h[k] = w[k]) PROVE FALSE
    OBVIOUS
  <2> DEFINE bad == {k \in 0..n : h[k] # w[k]}
  <2>1. bad \subseteq Nat /\ bad # {}
    OBVIOUS
  <2> HIDE DEF bad
  <2>2. PICK x \in bad : \A y \in bad : x <= y
    BY <2>1, LeastNumber
  <2>3. x \in 0..n /\ h[x] # w[x]
    BY <2>2 DEF bad
  <2>4. CASE x = 0
    BY <2>3, <2>4, <1>3, <1>7
  <2>5. CASE x # 0
    <3>1. x-1 \in 0..n /\ x-1 \notin bad
      BY <2>2, <2>3, <2>5
    <3>2. h[x-1] = w[x-1]
      BY <3>1 DEF bad
    <3> QED
      BY <2>3, <2>5, <3>1, <3>2, <1>3, <1>7
  <2> QED
    BY <2>4, <2>5
<1>9. h[n] = w[n] /\ n \in 0..n
  BY <1>8
<1> QED
  BY <1>1, <1>9 DEF w, c

\* A directory's first cluster is there (fat16_load_fat_directory reads from its start).
LEMMA NoHops ==
  ASSUME NEW first
  PROVE  Hops(first, 0) = first
<1> DEFINE Step(f, k) == IF k = 0 THEN first
                         ELSE IF f[k-1] = EIO \/ EndsChain(Fat[f[k-1]]) THEN EIO
                              ELSE Fat[f[k-1]]
           IsHop(f) == f = [k \in 0..0 |-> Step(f, k)]
           w == [k \in 0..0 |-> first]
           h == CHOOSE f : IsHop(f)
<1>1. Hops(first, 0) = h[0]
  BY DEF Hops
<1>2. IsHop(w)
  OBVIOUS
<1>3. IsHop(h)
  <2> HIDE DEF IsHop, w
  <2> QED
    BY <1>2, Zenon
<1>4. h = [k \in 0..0 |-> Step(h, k)]
  BY <1>3
<1> HIDE DEF h
<1> QED
  BY <1>1, <1>4

------------------------------------------------------------------------------
(* The disk stream *)

\* The bytes of the disk from a position on.
Bytes(base, n) == [k \in 1..n |-> base + k - 1]

\* Bytes that follow each other.
LEMMA BytesJoin ==
  ASSUME NEW base \in Int, NEW m \in Nat, NEW n \in Int
  PROVE  /\ Bytes(base, m) \in Seq(Int) /\ Len(Bytes(base, m)) = m
         /\ n >= 0 => Bytes(base, m) \o Bytes(base + m, n) = Bytes(base, m + n)
         /\ n <= 0 => Bytes(base, m) \o Bytes(base + m, n) = Bytes(base, m)
<1> DEFINE N == IF n >= 0 THEN n ELSE 0
           a == Bytes(base, m)
           b == Bytes(base + m, N)
           c == Bytes(base, m + N)
<1>0. 1..n = 1..N /\ Bytes(base + m, n) = b
  BY DEF Bytes
<1>1. N \in Nat
  OBVIOUS
<1>2. a \in Seq(Int) /\ Len(a) = m /\ b \in Seq(Int) /\ Len(b) = N
      /\ c \in Seq(Int) /\ Len(c) = m + N
  BY <1>1 DEF Bytes
<1>3. \A k \in 1..m : a[k] = base + k - 1
  BY DEF Bytes
<1>4. \A k \in 1..N : b[k] = base + m + k - 1
  BY <1>1 DEF Bytes
<1>5. \A k \in 1..m+N : c[k] = base + k - 1
  BY <1>1 DEF Bytes
<1>6. (n >= 0 => m + n = m + N) /\ (n <= 0 => m = m + N)
  OBVIOUS
<1> HIDE DEF N, a, b, c
<1>7. a \o b \in Seq(Int) /\ Len(a \o b) = m + N
  BY <1>1, <1>2, ConcatProperties
<1>8. \A k \in 1..m+N : (a \o b)[k] = c[k]
  <2> SUFFICES ASSUME NEW k \in 1..m+N PROVE (a \o b)[k] = c[k]
    OBVIOUS
  <2>1. (a \o b)[k] = IF k <= m THEN a[k] ELSE b[k - m]
    BY <1>1, <1>2, ConcatProperties
  <2>2. CASE k <= m
    BY <2>1, <2>2, <1>1, <1>3, <1>5
  <2>3. CASE k > m
    <3>1. k - m \in 1..N
      BY <1>1, <2>3
    <3> QED
      <4>1. b[k-m] = base + m + (k - m) - 1
        BY <3>1, <1>4
      <4>2. c[k] = base + k - 1 /\ (a \o b)[k] = b[k-m]
        BY <1>5, <2>1, <2>3
      <4> QED
        BY <4>1, <4>2, <1>1
  <2>4. k <= m \/ k > m
    BY <1>1
  <2> QED
    BY <2>2, <2>3, <2>4, Zenon
<1>9. a \o b = c
  BY <1>1, <1>2, <1>7, <1>8, SeqEqual
<1> QED
  BY <1>0, <1>1, <1>2, <1>6, <1>9 DEF a, c

\* A read of n bytes, begun where a sector begins, has copied whole sectors so far.
Running(r, base, n) ==
  \E m \in 0..n :
    /\ r.out = Bytes(base, m)
    /\ IF r.returned THEN m = n
       ELSE r.pos = base + m /\ r.total = n - m /\ m % SectorSize = 0

\* diskstreamer_read copies the bytes it is asked for, a sector at a time.
LEMMA StreamRuns ==
  ASSUME NEW q \in Int, NEW n \in Nat, NEW r, ~r.returned, Running(r, SectorSize * q, n)
  PROVE  Running(diskstreamer_read(r), SectorSize * q, n)
<1> DEFINE base == SectorSize * q
           s == diskstreamer_read(r)
<1>1. SectorSize \in Nat \ {0} /\ base \in Int
  BY ItemsPerSector
<1>2. PICK m \in 0..n : /\ r.out = Bytes(base, m) /\ r.pos = base + m /\ r.total = n - m
                        /\ m % SectorSize = 0
  BY DEF Running
<1> DEFINE j == m \div SectorSize
<1>3. j \in Int /\ m = SectorSize * j /\ r.pos = SectorSize * (q + j)
  <2>1. m \in Int /\ j \in Int /\ m = SectorSize * j + (m % SectorSize)
    BY <1>1, <1>2, Division
  <2>2. m = SectorSize * j
    BY <1>1, <1>2, <2>1
  <2> HIDE DEF j
  <2>3. SectorSize * q + SectorSize * j = SectorSize * (q + j)
    BY <1>1, <2>1
  <2> QED
    BY <1>2, <2>1, <2>2, <2>3
<1>4. Offset(r) = 0
  <2>1. q + j \in Int
    BY <1>3
  <2> QED
    BY <1>1, <1>3, <2>1, Multiple DEF Offset
<1>5. s.out = Bytes(base, m) \o Bytes(base + m, total_to_read(r))
      /\ s.pos = base + m + total_to_read(r) /\ s.total = (n - m) - SectorSize
      /\ s.returned = ~(Offset(r) + r.total >= SectorSize)
  BY <1>2 DEF diskstreamer_read, Copied, Bytes, Overflow
<1> HIDE DEF s, base, j
<1>6. CASE Offset(r) + r.total >= SectorSize
  <2>1. total_to_read(r) = SectorSize /\ n - m >= SectorSize
    BY <1>1, <1>2, <1>4, <1>6 DEF Overflow, total_to_read
  <2>2. s.out = Bytes(base, m + SectorSize) /\ m + SectorSize \in 0..n
    <3>1. Bytes(base, m) \o Bytes(base + m, SectorSize) = Bytes(base, m + SectorSize)
      <4>1. m \in Nat /\ SectorSize \in Int /\ SectorSize >= 0
        BY <1>1
      <4> QED
        BY <1>1, <4>1, BytesJoin
    <3> QED
      BY <1>1, <1>5, <2>1, <3>1
  <2>3. m + SectorSize = SectorSize * (j + 1) /\ j + 1 \in Int
    BY <1>1, <1>3
  <2>4. (m + SectorSize) % SectorSize = 0
    BY <1>1, <2>3, Multiple
  <2> QED
    <3>0. ~s.returned
      BY <1>5, <1>6, Zenon
    <3>1. s.pos = base + (m + SectorSize) /\ s.total = n - (m + SectorSize)
      BY <1>1, <1>5, <2>1
    <3>2. Running(s, base, n)
      BY <2>2, <2>4, <3>0, <3>1 DEF Running
    <3> QED
      BY <3>2 DEF s, base
<1>7. CASE ~(Offset(r) + r.total >= SectorSize)
  <2>1. total_to_read(r) = n - m
    BY <1>2, <1>7 DEF total_to_read, Overflow
  <2>2. s.out = Bytes(base, n)
    <3>1. n - m \in Int /\ n - m >= 0 /\ m + (n - m) = n /\ m \in Nat
      OBVIOUS
    <3>2. Bytes(base, m) \o Bytes(base + m, n - m) = Bytes(base, m + (n - m))
      BY <1>1, <3>1, BytesJoin
    <3> QED
      BY <1>5, <2>1, <3>1, <3>2
  <2> QED
    <3>0. s.returned
      BY <1>5, <1>7, Zenon
    <3>1. n \in 0..n
      OBVIOUS
    <3>2. Running(s, base, n)
      BY <2>2, <3>0, <3>1 DEF Running
    <3> QED
      BY <3>2 DEF s, base
<1> QED
  BY <1>6, <1>7

\* A read begins with nothing copied.
LEMMA StreamBegins ==
  ASSUME NEW q \in Int, NEW n \in Nat
  PROVE  Running(Begin(SectorSize * q, n), SectorSize * q, n)
<1>1. Bytes(SectorSize * q, 0) = <<>>
  BY DEF Bytes
<1>2. 0 % SectorSize = 0
  BY ItemsPerSector
<1> QED
  BY <1>1, <1>2, ItemsPerSector DEF Running, Begin, diskstreamer_seek

\* The item at a position of a sector is read with it; the last one of a sector takes a
\* second call, which moves the stream back to the sector's second item.
LEMMA ItemIsRead ==
  ASSUME NEW q \in Int, NEW n \in 0..PerSector-1
  PROVE  LET at == SectorSize * q + (n * ItemSize)
             one == diskstreamer_read(Begin(at, ItemSize))
             two == diskstreamer_read(one)
         IN IF n < PerSector - 1
            THEN one.returned /\ one.out = Bytes(at, ItemSize) /\ one.pos = at + ItemSize
            ELSE /\ ~one.returned /\ two.returned
                 /\ two.out = Bytes(at, ItemSize) /\ two.pos = SectorSize * q + ItemSize
<1> DEFINE base == SectorSize * q
           at == base + (n * ItemSize)
           zero == Begin(at, ItemSize)
           one == diskstreamer_read(zero)
           two == diskstreamer_read(one)
<1>1. /\ SectorSize \in Nat \ {0} /\ ItemSize \in Nat \ {0} /\ base \in Int /\ n * ItemSize \in Nat
      /\ PerSector \in Nat /\ SectorSize = PerSector * ItemSize /\ n \in Nat /\ ItemSize < SectorSize
  BY ItemsPerSector
<1>2. n * ItemSize <= (PerSector - 1) * ItemSize
      /\ (n < PerSector - 1 => (n + 1) * ItemSize <= (PerSector - 1) * ItemSize)
  BY <1>1, Grows
<1>3. /\ (PerSector - 1) * ItemSize = SectorSize - ItemSize
      /\ (n + 1) * ItemSize = n * ItemSize + ItemSize
  BY <1>1
<1>4. at % SectorSize = n * ItemSize
  <2>1. n * ItemSize \in 0..SectorSize-1
    BY <1>1, <1>2, <1>3
  <2> QED
    BY <1>1, <2>1, Unique
<1>5. zero.pos = at /\ zero.total = ItemSize /\ zero.out = <<>>
  BY DEF Begin, diskstreamer_seek
<1>6. Offset(zero) = n * ItemSize
  BY <1>4, <1>5 DEF Offset
<1>7. one.out = <<>> \o Bytes(at, total_to_read(zero)) /\ one.pos = at + total_to_read(zero)
      /\ one.total = ItemSize - SectorSize
      /\ one.returned = ~(Offset(zero) + zero.total >= SectorSize)
  BY <1>5 DEF diskstreamer_read, Copied, Bytes, Overflow
<1>8. two.out = one.out \o Bytes(one.pos, total_to_read(one)) /\ two.pos = one.pos + total_to_read(one)
      /\ two.returned = ~(Offset(one) + one.total >= SectorSize)
  BY DEF diskstreamer_read, Copied, Bytes, Overflow
<1>9. at \in Int /\ at = base + n * ItemSize /\ base = SectorSize * q
  BY <1>1
<1> SUFFICES IF n < PerSector - 1
             THEN one.returned /\ one.out = Bytes(at, ItemSize) /\ one.pos = at + ItemSize
             ELSE /\ ~one.returned /\ two.returned
                  /\ two.out = Bytes(at, ItemSize) /\ two.pos = base + ItemSize
  OBVIOUS
<1> HIDE DEF base, at, zero, one, two
<1>10. total_to_read(zero) = ItemSize /\ one.returned = (n < PerSector - 1)
  <2>1. Offset(zero) + zero.total = n * ItemSize + ItemSize
    BY <1>5, <1>6
  <2>2. CASE n < PerSector - 1
    BY <1>1, <1>2, <1>3, <1>5, <1>7, <2>1, <2>2 DEF total_to_read, Overflow
  <2>3. CASE n = PerSector - 1
    BY <1>1, <1>3, <1>5, <1>6, <1>7, <2>1, <2>3 DEF total_to_read, Overflow
  <2> QED
    BY <1>1, <2>2, <2>3
<1>11. one.out = Bytes(at, ItemSize)
  <2>1. Bytes(at, ItemSize) \in Seq(Int)
    BY <1>1, <1>9, BytesJoin
  <2> QED
    BY <1>7, <1>10, <2>1, ConcatEmptySeq
<1>12. CASE n < PerSector - 1
  BY <1>1, <1>7, <1>10, <1>11, <1>12
<1>13. CASE n = PerSector - 1
  <2>1. one.pos = SectorSize * (q + 1) /\ q + 1 \in Int /\ one.pos = at + ItemSize /\ one.pos = base + SectorSize
    BY <1>1, <1>3, <1>7, <1>9, <1>10, <1>13
  <2>2. Offset(one) = 0
    BY <1>1, <2>1, Multiple DEF Offset
  <2>3. total_to_read(one) = ItemSize - SectorSize /\ two.returned
    <3>1. ~(Offset(one) + one.total >= SectorSize) /\ one.total = ItemSize - SectorSize
      BY <1>1, <1>7, <2>2
    <3> QED
      BY <1>8, <3>1 DEF total_to_read, Overflow
  <2>4. two.out = Bytes(at, ItemSize)
    <3>1. ItemSize - SectorSize \in Int /\ ItemSize - SectorSize <= 0
      BY <1>1
    <3>2. Bytes(at, ItemSize) \o Bytes(at + ItemSize, ItemSize - SectorSize) = Bytes(at, ItemSize)
      BY <1>1, <1>9, <3>1, BytesJoin
    <3> QED
      BY <1>8, <1>11, <2>1, <2>3, <3>2
  <2>5. two.pos = base + ItemSize
    BY <1>1, <1>8, <2>1, <2>3
  <2> QED
    <3>1. ~(n < PerSector - 1)
      BY <1>1, <1>13
    <3>2. ~one.returned
      BY <1>10, <3>1, Zenon
    <3> QED
      BY <2>3, <2>4, <2>5, <3>1, <3>2, Zenon
<1> QED
  BY <1>1, <1>12, <1>13

------------------------------------------------------------------------------
(* The items of a directory on the disk *)

\* Where a directory may begin, and the space it has.
Places == {ROOT} \cup Cluster
Room(d) == IF d = ROOT THEN RootSize ELSE ClusterSize

\* The root directory and the clusters begin where a sector begins, and have whole ones.
LEMMA SectorsOf ==
  ASSUME NEW d \in Places
  PROVE  /\ d \in Nat /\ (d # ROOT => d >= 2)
         /\ Start(d) \in Nat /\ Room(d) \in Nat /\ SectorSize <= Room(d)
         /\ \E q \in Int : Start(d) = SectorSize * q
         /\ \E q \in Int : Room(d) = SectorSize * q
<1>1. /\ SectorSize \in Nat \ {0} /\ RootSize \in Nat \ {0} /\ ClusterSize \in Nat \ {0}
      /\ RootSize % SectorSize = 0 /\ ClusterSize % SectorSize = 0
  BY Fat16Assumption, ItemsPerSector
<1> DEFINE a == RootSize \div SectorSize
           b == ClusterSize \div SectorSize
<1>2. a \in Int /\ b \in Int /\ RootSize = SectorSize * a /\ ClusterSize = SectorSize * b
  BY <1>1, Division
<1> HIDE DEF a, b
<1>3. \A r \in Nat \ {0}, q \in Int : r = SectorSize * q => SectorSize <= r
  <2> SUFFICES ASSUME NEW r \in Nat \ {0}, NEW q \in Int, r = SectorSize * q
               PROVE  SectorSize <= r
    OBVIOUS
  <2>1. q >= 1
    <3> SUFFICES ASSUME q <= 0 PROVE FALSE
      OBVIOUS
    <3>1. SectorSize * q <= SectorSize * 0
      BY <1>1, Grows
    <3> QED
      BY <1>1, <3>1
  <2>2. SectorSize * 1 <= SectorSize * q
    BY <1>1, <2>1, Grows
  <2> QED
    BY <1>1, <2>2
<1>4. d \in Nat /\ (d # ROOT => d >= 2)
  BY DEF Places, Cluster, ROOT
<1>5. Room(d) \in Nat /\ SectorSize <= Room(d) /\ \E q \in Int : Room(d) = SectorSize * q
  BY <1>1, <1>2, <1>3 DEF Room
<1>6. CASE d = ROOT
  <2>1. Start(d) = 0 /\ 0 = SectorSize * 0
    BY <1>1, <1>6 DEF Start
  <2> QED
    BY <1>4, <1>5, <2>1
<1>7. CASE d # ROOT
  <2>1. d - 2 \in Nat
    BY <1>4, <1>7
  <2>2. Start(d) = RootSize + (d - 2) * ClusterSize
    BY <1>7 DEF Start, ClusterPosition
  <2>3. (d - 2) * ClusterSize \in Nat
    BY <1>1, <2>1
  <2>4. (d - 2) * ClusterSize = SectorSize * ((d - 2) * b)
    <3>1. \A x, y, z \in Int : x * (y * z) = y * (x * z)
      OBVIOUS
    <3>2. d - 2 \in Int /\ SectorSize \in Int /\ b \in Int
      BY <1>1, <1>2, <2>1
    <3>3. (d - 2) * (SectorSize * b) = SectorSize * ((d - 2) * b)
      BY <3>1, <3>2, Zenon
    <3> QED
      BY <1>2, <3>3
  <2>5. (d - 2) * b \in Int
    BY <1>2, <2>1
  <2>6. Start(d) = SectorSize * (a + (d - 2) * b) /\ a + (d - 2) * b \in Int
    BY <1>1, <1>2, <2>2, <2>4, <2>5
  <2> QED
    BY <1>1, <1>4, <1>5, <2>2, <2>3, <2>6
<1> QED
  BY <1>6, <1>7

\* A byte lies in one directory.
LEMMA OnePlace ==
  ASSUME NEW d \in Places, NEW e \in Places, NEW j \in Int, NEW k \in Int,
         0 <= j, j < Room(d), 0 <= k, k < Room(e), Start(d) + j = Start(e) + k
  PROVE  d = e
<1>1. RootSize \in Nat \ {0} /\ ClusterSize \in Nat \ {0}
  BY Fat16Assumption
<1>2. \A c \in Places : /\ c = ROOT => Start(c) = 0 /\ Room(c) = RootSize
                        /\ c # ROOT => /\ c - 2 \in Nat /\ Start(c) = RootSize + ClusterSize * (c - 2)
                                       /\ ClusterSize * (c - 2) \in Nat /\ Room(c) = ClusterSize
  <2> SUFFICES ASSUME NEW c \in Places
               PROVE  /\ c = ROOT => Start(c) = 0 /\ Room(c) = RootSize
                      /\ c # ROOT => /\ c - 2 \in Nat /\ Start(c) = RootSize + ClusterSize * (c - 2)
                                     /\ ClusterSize * (c - 2) \in Nat /\ Room(c) = ClusterSize
    OBVIOUS
  <2>1. c \in Nat /\ (c # ROOT => c - 2 \in Nat)
    BY SectorsOf
  <2>2. c # ROOT => (c - 2) * ClusterSize = ClusterSize * (c - 2) /\ ClusterSize * (c - 2) \in Nat
    BY <1>1, <2>1
  <2> QED
    BY <2>1, <2>2 DEF Start, ClusterPosition, Room
<1>3. CASE d = ROOT /\ e # ROOT
  BY <1>1, <1>2, <1>3
<1>4. CASE d # ROOT /\ e = ROOT
  BY <1>1, <1>2, <1>4
<1>5. CASE d # ROOT /\ e # ROOT
  <2>1. j \in 0..ClusterSize-1 /\ k \in 0..ClusterSize-1 /\ d - 2 \in Int /\ e - 2 \in Int
    BY <1>1, <1>2, <1>5
  <2>2. ClusterSize * (d - 2) + j = ClusterSize * (e - 2) + k
    BY <1>1, <1>2, <1>5, <2>1
  <2>3. d - 2 = e - 2
    <3>1. (ClusterSize * (d - 2) + j) \div ClusterSize = d - 2
      BY <1>1, <2>1, Unique
    <3>2. (ClusterSize * (e - 2) + k) \div ClusterSize = e - 2
      BY <1>1, <2>1, Unique
    <3> QED
      BY <2>2, <3>1, <3>2
  <2>4. d \in Nat /\ e \in Nat
    BY SectorsOf
  <2> QED
    BY <2>3, <2>4
<1> QED
  BY <1>3, <1>4, <1>5

\* The entries of a volume's directories.
LEMMA VolumeIs ==
  ASSUME volume \in Volumes, NEW d \in DOMAIN volume
  PROVE  /\ d \in Places /\ Len(volume[d]) \in Nat
         /\ Len(volume[d]) * ItemSize < Room(d)
         /\ \A k \in 1..Len(volume[d]) : volume[d][k] \in Entries(volume)
<1>1. /\ d \in {ROOT} \cup Cluster /\ volume[d] \in Seq(Entries(volume))
      /\ Len(volume[d]) * ItemSize < (IF d = ROOT THEN RootSize ELSE ClusterSize)
  BY VolumesAssumption
<1> QED
  BY <1>1 DEF Places, Room

\* What an entry is.
LEMMA EntryIs ==
  ASSUME volume \in Volumes, NEW i \in Entries(volume)
  PROVE  /\ i.kind \in {"file", "directory", "deleted"} /\ i # NULL /\ i.kind # "none"
         /\ i.kind = "directory" => i.cluster \in DOMAIN volume \ {ROOT}
         /\ i.kind = "file" => LaidOut(i)
<1>1. /\ i.kind \in {"file", "directory", "deleted"}
      /\ i.kind = "directory" => i.cluster \in DOMAIN volume \ {ROOT}
      /\ i.kind = "file" => LaidOut(i)
  BY VolumesAssumption
<1>2. NULL.kind = "none"
  BY DEF NULL
<1> QED
  BY <1>1, <1>2

\* The directory and the place in it that a byte belongs to.
LEMMA Holds ==
  ASSUME volume \in Volumes, NEW at \in Int, NEW d \in DOMAIN volume,
         at >= Start(d), (at - Start(d)) \div ItemSize < Len(volume[d])
  PROVE  /\ at - Start(d) \in Int /\ 0 <= at - Start(d) /\ at - Start(d) < Room(d)
         /\ ((at - Start(d)) \div ItemSize) + 1 \in 1..Len(volume[d])
<1>1. /\ d \in Places /\ Len(volume[d]) \in Nat /\ Len(volume[d]) * ItemSize < Room(d)
  BY VolumeIs
<1>2. Start(d) \in Nat /\ Room(d) \in Nat /\ ItemSize \in Nat \ {0}
  BY <1>1, SectorsOf, ItemsPerSector
<1> DEFINE z == at - Start(d)
           t == z \div ItemSize
           u == z % ItemSize
<1>3. z \in Int /\ 0 <= z /\ t < Len(volume[d])
  BY <1>2
<1> HIDE DEF z
<1>4. t \in Int /\ u \in 0..(ItemSize-1) /\ z = ItemSize * t + u
  BY <1>2, <1>3, Division
<1> HIDE DEF t, u
<1>5. t >= 0
  <2> SUFFICES ASSUME t <= -1 PROVE FALSE
    BY <1>4
  <2>1. ItemSize * t <= ItemSize * (-1)
    BY <1>2, <1>4, Grows
  <2> QED
    BY <1>2, <1>3, <1>4, <2>1
<1>6. (t + 1) * ItemSize <= Len(volume[d]) * ItemSize
  BY <1>1, <1>2, <1>3, <1>4, Grows
<1>7. z < (t + 1) * ItemSize
  BY <1>2, <1>4
<1>8. z < Room(d)
  BY <1>1, <1>2, <1>3, <1>4, <1>6, <1>7
<1> QED
  BY <1>1, <1>3, <1>4, <1>5, <1>8 DEF z, t

\* The item at the place of an entry, and behind the last there is none.
LEMMA ItemIsAt ==
  ASSUME volume \in Volumes, NEW d \in DOMAIN volume, NEW n \in Nat, n * ItemSize < Room(d)
  PROVE  ItemAt(Start(d) + (n * ItemSize)) =
           IF n < Len(volume[d]) THEN volume[d][n + 1] ELSE NULL
<1> DEFINE at == Start(d) + (n * ItemSize)
           holds(e) == at >= Start(e) /\ (at - Start(e)) \div ItemSize < Len(volume[e])
<1>1. Start(d) \in Nat /\ Room(d) \in Nat /\ ItemSize \in Nat \ {0} /\ n * ItemSize \in Nat
  BY VolumeIs, SectorsOf, ItemsPerSector
<1>2. at - Start(d) = n * ItemSize /\ at \in Int /\ at >= Start(d)
  BY <1>1
<1>3. (at - Start(d)) \div ItemSize = n
  <2>1. n * ItemSize = ItemSize * n
    BY <1>1
  <2> QED
    BY <1>1, <1>2, <2>1, Multiple
<1>4. ItemAt(at) = IF \E e \in DOMAIN volume : holds(e)
                   THEN LET e == CHOOSE e \in DOMAIN volume : holds(e)
                        IN volume[e][((at - Start(e)) \div ItemSize) + 1]
                   ELSE NULL
  BY DEF ItemAt
<1>5. ASSUME NEW e \in DOMAIN volume, holds(e) PROVE e = d
  <2>1. /\ at - Start(e) \in Int /\ 0 <= at - Start(e) /\ at - Start(e) < Room(e)
    BY <1>2, <1>5, Holds
  <2>2. e \in Places
    BY VolumeIs
  <2>3. Start(e) \in Nat /\ Start(e) + (at - Start(e)) = Start(d) + (n * ItemSize)
    BY <2>2, <1>1, <1>2, SectorsOf
  <2> QED
    BY <1>1, <2>1, <2>2, <2>3, VolumeIs, OnePlace
<1>6. CASE n < Len(volume[d])
  <2>1. holds(d)
    BY <1>1, <1>2, <1>3, <1>6
  <2> HIDE DEF holds
  <2>2. (CHOOSE e \in DOMAIN volume : holds(e)) = d
    BY <1>5, <2>1
  <2> QED
    BY <1>3, <1>4, <1>6, <2>1, <2>2
<1>7. CASE ~(n < Len(volume[d]))
  <2>1. ~holds(d)
    BY <1>3, <1>7
  <2> HIDE DEF holds
  <2>2. ~\E e \in DOMAIN volume : holds(e)
    BY <1>5, <2>1
  <2> QED
    BY <1>4, <1>7, <2>2
<1> QED
  BY <1>6, <1>7

\* Whatever byte an item begins with, it is an entry of the volume or none.
LEMMA ItemIsEntry ==
  ASSUME volume \in Volumes, NEW at \in Int
  PROVE  ItemAt(at) \in Entries(volume) \cup {NULL}
<1> DEFINE holds(e) == at >= Start(e) /\ (at - Start(e)) \div ItemSize < Len(volume[e])
           d == CHOOSE e \in DOMAIN volume : holds(e)
<1>1. CASE \E e \in DOMAIN volume : holds(e)
  <2>1. d \in DOMAIN volume /\ holds(d)
    BY <1>1
  <2>2. ItemAt(at) = volume[d][((at - Start(d)) \div ItemSize) + 1]
    BY <1>1 DEF ItemAt
  <2> HIDE DEF d
  <2>3. ((at - Start(d)) \div ItemSize) + 1 \in 1..Len(volume[d])
    BY <2>1, Holds
  <2> QED
    BY <2>1, <2>2, <2>3, VolumeIs
<1>2. CASE ~\E e \in DOMAIN volume : holds(e)
  BY <1>2 DEF ItemAt
<1> QED
  BY <1>1, <1>2

\* Whatever the bytes, the items in them are entries or none.
LEMMA ItemsAre ==
  ASSUME volume \in Volumes, NEW bytes \in Seq(Int)
  PROVE  /\ ItemsIn(bytes) \in Seq(Entries(volume) \cup {NULL})
         /\ Len(ItemsIn(bytes)) = Len(bytes) \div ItemSize
<1> DEFINE m == Len(bytes)
           n == m \div ItemSize
<1>1. m \in Nat /\ ItemSize \in Nat \ {0}
  BY ItemsPerSector
<1>2. n \in Int /\ ItemSize * n <= m /\ m < ItemSize * n + ItemSize
  <2>1. n \in Int /\ (m % ItemSize) \in 0..(ItemSize-1) /\ m = ItemSize * n + (m % ItemSize)
    BY <1>1, Division
  <2> QED
    BY <1>1, <2>1
<1> HIDE DEF n
<1>3. n \in Nat
  <2> SUFFICES ASSUME n <= -1 PROVE FALSE
    BY <1>2
  <2>1. ItemSize * n <= ItemSize * (-1)
    BY <1>1, <1>2, Grows
  <2> QED
    BY <1>1, <1>2, <2>1
<1>4. ASSUME NEW k \in 1..n PROVE ItemAt(bytes[((k - 1) * ItemSize) + 1]) \in Entries(volume) \cup {NULL}
  <2>1. k - 1 \in Nat /\ k \in Nat
    OBVIOUS
  <2>2. (k - 1) * ItemSize \in Nat /\ k * ItemSize <= n * ItemSize
        /\ (k - 1) * ItemSize + ItemSize = k * ItemSize /\ n * ItemSize = ItemSize * n
    BY <1>1, <1>2, <1>3, <2>1, Grows
  <2>3. ((k - 1) * ItemSize) + 1 \in 1..m
    BY <1>1, <1>2, <1>3, <2>1, <2>2
  <2>4. bytes[((k - 1) * ItemSize) + 1] \in Int
    BY <2>3
  <2> QED
    BY <2>4, ItemIsEntry
<1>5. ItemsIn(bytes) = [k \in 1..n |-> ItemAt(bytes[((k - 1) * ItemSize) + 1])]
  BY DEF ItemsIn, n
<1> QED
  BY <1>3, <1>4, <1>5 DEF n

------------------------------------------------------------------------------
(* What each loop has established *)

\* fat16_get_total_items_for_directory, behind the first n entries of a directory: only
\* those that were not deleted count, so that the first ones are all of them only if
\* none in use is behind a deleted one.
AllCounted(d, c, n) ==
  /\ c \in 0..n
  /\ (\A k \in 1..n : volume[d][k].kind # "deleted") => c = n
  /\ Tidy(d) => \A k \in 1..n : volume[d][k].kind # "deleted" => k <= c

\* The count goes on behind n items: the next one is about to be read, is the last of
\* its sector, or was read.  A directory that fills a sector is counted for ever.
CountAt(n) ==
  LET at == Start(cluster) + (n * ItemSize)
  IN /\ n <= Len(volume[cluster])
     /\ AllCounted(cluster, count, n) \/ Len(volume[cluster]) >= PerSector
     /\ \/ stream = Begin(at, ItemSize)
        \/ n = PerSector - 1 /\ stream = diskstreamer_read(Begin(at, ItemSize))
        \/ /\ stream.returned /\ stream.out[1] = at
           /\ stream.pos = Start(cluster) + ((IF n = PerSector - 1 THEN 1 ELSE n + 1) * ItemSize)

CountsItems ==
  pc = "count" =>
    /\ cluster \in DOMAIN volume
    /\ IF cluster = ROOT THEN item = NULL ELSE item.kind = "directory" /\ cluster = item.cluster
    /\ \E n \in 0..PerSector-1 : CountAt(n)

\* All items of a directory were counted.
AllOf(d, c) == Len(volume[d]) < PerSector /\ AllCounted(d, c, Len(volume[d]))

\* A directory in memory has the first entries of one on the disk.
Loaded(d, dir) ==
  /\ d \in DOMAIN volume /\ AllOf(d, dir.total)
  /\ dir.items \in Seq(Entries(volume) \cup {NULL}) /\ dir.total <= Len(dir.items)
  /\ \A k \in 1..dir.total : dir.items[k] = volume[d][k]

\* fat16_root_directory_setup reads the space of the root directory.
ReadsRoot ==
  pc = "root" => item = NULL /\ AllOf(ROOT, count) /\ Running(stream, 0, RootSize)

\* It is there for every path from then on.
RootIsLoaded ==
  ~(pc \in {"boot", "root"} \/ (pc = "count" /\ cluster = ROOT)) => Loaded(ROOT, root_directory)

Transfers == pc \in {"cluster", "stream", "done", "failed"}

\* fat16_load_fat_directory reads what it counted, from the first cluster.
ReadsDirectory ==
  Transfers /\ item.kind = "directory" =>
    /\ pc # "failed" /\ cluster = item.cluster /\ AllOf(cluster, count)
    /\ IF pc = "done" THEN out = Bytes(Start(cluster), count * ItemSize)
       ELSE offset = 0 /\ total = count * ItemSize /\ out = <<>>
    /\ pc = "stream" => Running(stream, Start(cluster), count * ItemSize)

\* fat16_read_internal_from_stream: what is left is behind what was read; a read that
\* began with a cluster goes on with one.
ReadsFile ==
  Transfers /\ item.kind = "file" =>
    /\ cluster = item.cluster /\ request.offset \in Nat /\ request.size \in Nat \ {0}
    /\ request.offset <= offset /\ offset + total = request.offset + request.size
    /\ pc \in {"cluster", "stream"} => total > 0
    /\ pc = "stream" => offset \div ClusterSize < Len(item.chain)
    /\ pc = "done" => total = 0
    /\ pc = "failed" => ~WithinFile
    /\ request.offset % ClusterSize = 0 =>
         /\ out = [k \in 1..offset - request.offset |-> FileByte(request.offset + k - 1)]
         /\ pc \in {"cluster", "stream"} => offset % ClusterSize = 0
         /\ pc = "done" => offset <= Len(item.chain) * ClusterSize
         /\ pc = "stream" =>
              Running(stream, ClusterPosition(item.chain[(offset \div ClusterSize) + 1]), OneCluster)

\* fat16_get_directory_entry looks a part up in the root directory, or in the one that
\* was found for the part before.
SearchesDirectory ==
  /\ pc = "find" =>
       /\ item = NULL \/ item.kind = "directory"
       /\ Loaded(IF item = NULL THEN ROOT ELSE item.cluster, directory)
  /\ pc = "found" /\ item.kind = "directory" => Loaded(item.cluster, directory)

FileTypes ==
  /\ volume \in Volumes
  /\ item \in Entries(volume) \cup {NULL}
  /\ count \in Nat /\ pos \in Nat /\ offset \in Nat /\ total \in Nat
  /\ pc = "boot" => item = NULL
  /\ pc = "ready" => item = NULL \/ item.kind = "file"
  /\ Transfers => item.kind \in {"file", "directory"}

FileInv ==
  /\ FileTypes /\ CountsItems /\ ReadsRoot /\ RootIsLoaded
  /\ ReadsDirectory /\ SearchesDirectory /\ ReadsFile

\* The volume does not change, nor what is loaded of it.
LEMMA StaysLoaded ==
  ASSUME volume' = volume, NEW d, NEW dir, Loaded(d, dir)
  PROVE  Loaded(d, dir)'
BY DEF Loaded, AllOf, AllCounted, Tidy, Entries

\* A greatest number of some.
LEMMA GreatestNumber ==
  ASSUME NEW n \in Nat, NEW S, S \subseteq 1..n, S # {}
  PROVE  \E x \in S : \A y \in S : y <= x
<1> DEFINE T == {n - y : y \in S}
<1>1. T \subseteq Nat /\ T # {}
  <2>1. ASSUME NEW t \in T PROVE t \in Nat
    <3>1. PICK y \in S : t = n - y
      OBVIOUS
    <3>2. y \in 1..n
      OBVIOUS
    <3> QED
      BY <3>1, <3>2
  <2>2. PICK y \in S : TRUE
    OBVIOUS
  <2>3. n - y \in T
    OBVIOUS
  <2> QED
    BY <2>1, <2>3
<1> HIDE DEF T
<1>2. PICK z \in T : \A t \in T : z <= t
  BY <1>1, LeastNumber
<1>3. PICK x \in S : z = n - x
  BY <1>2 DEF T
<1>4. ASSUME NEW y \in S PROVE y <= x
  <2>1. n - y \in T
    BY DEF T
  <2>2. n - x <= n - y
    BY <1>2, <1>3, <2>1
  <2>3. x \in 1..n /\ y \in 1..n
    OBVIOUS
  <2> QED
    BY <2>2, <2>3
<1> QED
  BY <1>4

\* fat16_find_item_in_directory: one of the items that count and have the name, or none.
LEMMA FoundIs ==
  ASSUME NEW d, NEW dir, Loaded(d, dir), volume \in Volumes, NEW name
  PROVE  LET found == fat16_find_item_in_directory(dir, name)
             has(k) == istrncmp(fat16_get_full_relative_filename(volume[d][k]), name)
         IN \/ found = NULL /\ \A k \in 1..dir.total : ~has(k)
            \/ \E k \in 1..dir.total : /\ k \in 1..Len(volume[d]) /\ found = volume[d][k] /\ has(k)
                                      /\ found \in Entries(volume)
<1> DEFINE has(k) == istrncmp(fat16_get_full_relative_filename(dir.items[k]), name)
           S == {k \in 1..dir.total : has(k)}
           x == CHOOSE k \in S : \A j \in S : j <= k
<1>1. /\ d \in DOMAIN volume /\ Len(volume[d]) \in Nat /\ dir.total \in 0..Len(volume[d])
      /\ \A k \in 1..dir.total : dir.items[k] = volume[d][k] /\ k \in 1..Len(volume[d])
      /\ \A k \in 1..Len(volume[d]) : volume[d][k] \in Entries(volume)
  BY VolumeIs DEF Loaded, AllOf, AllCounted
<1>2. fat16_find_item_in_directory(dir, name) = IF S = {} THEN NULL ELSE dir.items[x]
  BY DEF fat16_find_item_in_directory
<1>3. S # {} => x \in S
  <2> SUFFICES ASSUME S # {} PROVE x \in S
    OBVIOUS
  <2>1. S \subseteq 1..dir.total /\ dir.total \in Nat
    BY <1>1
  <2> HIDE DEF S
  <2>2. \E k \in S : \A j \in S : j <= k
    BY <2>1, GreatestNumber
  <2> QED
    BY <2>2
<1> HIDE DEF x
<1>4. CASE S = {}
  BY <1>1, <1>2, <1>4
<1>5. CASE S # {}
  BY <1>1, <1>2, <1>3, <1>5
<1> QED
  BY <1>4, <1>5

\* The items at the places of a sector have room in their directory.
LEMMA RoomForItems ==
  ASSUME volume \in Volumes, NEW d \in DOMAIN volume, NEW n \in 0..PerSector-1
  PROVE  /\ n \in Nat /\ n * ItemSize \in Nat /\ n * ItemSize < Room(d)
         /\ Start(d) \in Nat /\ \E q \in Int : Start(d) = SectorSize * q
         /\ ItemAt(Start(d) + (n * ItemSize)) =
              IF n < Len(volume[d]) THEN volume[d][n + 1] ELSE NULL
<1>1. /\ PerSector \in Nat /\ SectorSize = PerSector * ItemSize /\ ItemSize \in Nat \ {0}
      /\ SectorSize \in Nat
  BY ItemsPerSector
<1>2. d \in Places
  BY VolumeIs
<1>3. /\ Start(d) \in Nat /\ Room(d) \in Nat /\ SectorSize <= Room(d)
      /\ \E q \in Int : Start(d) = SectorSize * q
  BY <1>2, SectorsOf
<1>4. n \in Nat /\ n * ItemSize \in Nat /\ (n + 1) * ItemSize = n * ItemSize + ItemSize
  BY <1>1
<1>5. (n + 1) * ItemSize <= PerSector * ItemSize
  BY <1>1, <1>4, Grows
<1>6. n * ItemSize < Room(d)
  BY <1>1, <1>3, <1>4, <1>5
<1> QED
  BY <1>3, <1>4, <1>6, ItemIsAt

\* The bytes of an item begin where it is.
LEMMA FirstByte ==
  ASSUME NEW at \in Int
  PROVE  Bytes(at, ItemSize)[1] = at
<1>1. 1 \in 1..ItemSize
  BY ItemsPerSector
<1>2. Bytes(at, ItemSize)[1] = at + 1 - 1
  BY <1>1 DEF Bytes
<1> QED
  BY <1>2

\* fat16_get_total_items_for_directory: the stream delivers the item it is moved to.
LEMMA CountReads ==
  ASSUME FileInv, ReadSector, pc = "count"
  PROVE  CountsItems'
<1>1. /\ volume \in Volumes /\ cluster \in DOMAIN volume
      /\ IF cluster = ROOT THEN item = NULL ELSE item.kind = "directory" /\ cluster = item.cluster
      /\ \E n \in 0..PerSector-1 : CountAt(n)
  BY DEF FileInv, FileTypes, CountsItems
<1>2. /\ ~stream.returned /\ stream' = diskstreamer_read(stream)
      /\ UNCHANGED <<volume, pc, cluster, count, item>>
  BY DEF ReadSector, opening
<1>3. PICK n \in 0..PerSector-1 : CountAt(n)
  BY <1>1
<1> DEFINE at == Start(cluster) + (n * ItemSize)
<1>4. PICK q \in Int : Start(cluster) = SectorSize * q
  BY <1>1, RoomForItems
<1>5. at \in Int /\ SectorSize * q + (n * ItemSize) = at
  BY <1>1, <1>4, RoomForItems
<1>6. PerSector \in Nat /\ ItemSize \in Nat \ {0}
  BY ItemsPerSector
<1> DEFINE one == diskstreamer_read(Begin(at, ItemSize))
           two == diskstreamer_read(one)
<1>7. IF n < PerSector - 1
      THEN one.returned /\ one.out = Bytes(at, ItemSize) /\ one.pos = at + ItemSize
      ELSE /\ ~one.returned /\ two.returned
           /\ two.out = Bytes(at, ItemSize) /\ two.pos = SectorSize * q + ItemSize
  BY <1>5, ItemIsRead
<1>8. stream = Begin(at, ItemSize) \/ (n = PerSector - 1 /\ stream = one)
  BY <1>2, <1>3 DEF CountAt
<1>9. Bytes(at, ItemSize)[1] = at
  BY <1>5, FirstByte
<1>10. \/ n = PerSector - 1 /\ stream' = one
       \/ /\ stream'.returned /\ stream'.out[1] = at
          /\ stream'.pos = Start(cluster) + ((IF n = PerSector - 1 THEN 1 ELSE n + 1) * ItemSize)
  <2> HIDE DEF one, two, at
  <2>1. CASE n < PerSector - 1
    <3>1. stream' = one
      BY <1>2, <1>8, <2>1, <1>6 DEF one
    <3>2. at + ItemSize = Start(cluster) + ((n + 1) * ItemSize)
      BY <1>1, <1>6, RoomForItems DEF at
    <3>3. stream'.returned /\ stream'.out[1] = at /\ stream'.pos = at + ItemSize
      BY <3>1, <1>7, <1>9, <2>1
    <3>4. n # PerSector - 1
      BY <2>1, <1>6
    <3> QED
      BY <3>2, <3>3, <3>4
  <2>2. CASE n = PerSector - 1 /\ stream = Begin(at, ItemSize)
    BY <1>2, <2>2 DEF one
  <2>3. CASE n = PerSector - 1 /\ stream = one
    <3>1. stream' = two
      BY <1>2, <2>3 DEF two
    <3>2. ~(n < PerSector - 1)
      BY <2>3, <1>6
    <3>3. stream'.returned /\ stream'.out[1] = at /\ stream'.pos = SectorSize * q + ItemSize
      BY <3>1, <3>2, <1>7, <1>9
    <3>4. SectorSize * q + ItemSize = Start(cluster) + (1 * ItemSize)
      BY <1>4, <1>6
    <3> QED
      BY <3>3, <3>4, <2>3
  <2>4. n < PerSector - 1 \/ n = PerSector - 1
    BY <1>6
  <2> QED
    BY <1>8, <2>1, <2>2, <2>3, <2>4
<1>11. CountAt(n)'
  <2>1. at' = at /\ one' = one
    BY <1>2 DEF Start
  <2>2. /\ n <= Len(volume[cluster])
        /\ AllCounted(cluster, count, n) \/ Len(volume[cluster]) >= PerSector
    BY <1>3 DEF CountAt
  <2>3. /\ n <= Len(volume[cluster])'
        /\ AllCounted(cluster, count, n)' \/ Len(volume[cluster])' >= PerSector
    BY <1>2, <2>2 DEF AllCounted, Tidy
  <2> QED
    BY <1>2, <1>10, <2>3 DEF CountAt
<1> QED
  BY <1>1, <1>2, <1>11 DEF CountsItems

\* An item that was read: where it is, and whether it was the last.
LEMMA CountedItem ==
  ASSUME FileInv, Counted
  PROVE  /\ cluster \in DOMAIN volume
         /\ IF cluster = ROOT THEN item = NULL ELSE item.kind = "directory" /\ cluster = item.cluster
         /\ \E n \in 0..PerSector-1 :
              /\ n <= Len(volume[cluster])
              /\ AllCounted(cluster, count, n) \/ Len(volume[cluster]) >= PerSector
              /\ ItemAt(stream.out[1]) =
                   IF n < Len(volume[cluster]) THEN volume[cluster][n + 1] ELSE NULL
              /\ stream.pos = Start(cluster) + ((IF n = PerSector - 1 THEN 1 ELSE n + 1) * ItemSize)
<1>1. /\ volume \in Volumes /\ cluster \in DOMAIN volume
      /\ IF cluster = ROOT THEN item = NULL ELSE item.kind = "directory" /\ cluster = item.cluster
      /\ \E n \in 0..PerSector-1 : CountAt(n)
  BY DEF FileInv, FileTypes, CountsItems, Counted
<1>2. PICK n \in 0..PerSector-1 : CountAt(n)
  BY <1>1
<1> DEFINE at == Start(cluster) + (n * ItemSize)
<1>3. PICK q \in Int : Start(cluster) = SectorSize * q
  BY <1>1, RoomForItems
<1>4. at \in Int /\ SectorSize * q + (n * ItemSize) = at
  BY <1>1, <1>3, RoomForItems
<1>5. ~Begin(at, ItemSize).returned
  BY DEF Begin
<1>6. n = PerSector - 1 => ~diskstreamer_read(Begin(at, ItemSize)).returned
  <2>1. IF n < PerSector - 1
        THEN diskstreamer_read(Begin(at, ItemSize)).returned
        ELSE ~diskstreamer_read(Begin(at, ItemSize)).returned
    BY <1>4, ItemIsRead
  <2>2. n = PerSector - 1 => ~(n < PerSector - 1)
    BY ItemsPerSector
  <2> QED
    BY <2>1, <2>2, Zenon
<1>7. stream.returned
  BY DEF Counted
<1>8. /\ stream.out[1] = at
      /\ stream.pos = Start(cluster) + ((IF n = PerSector - 1 THEN 1 ELSE n + 1) * ItemSize)
  BY <1>2, <1>5, <1>6, <1>7 DEF CountAt
<1>9. ItemAt(at) = IF n < Len(volume[cluster]) THEN volume[cluster][n + 1] ELSE NULL
  BY <1>1, RoomForItems
<1> QED
  BY <1>1, <1>2, <1>8, <1>9 DEF CountAt

\* An item that is there is counted, unless it was deleted, and the next one is read.
LEMMA CountGoesOn ==
  ASSUME FileInv, CountItem
  PROVE  CountsItems'
<1>1. /\ Counted /\ ItemAt(stream.out[1]).kind # "none"
      /\ count' = IF ItemAt(stream.out[1]).kind = "deleted" \/ count = CountLimit
                  THEN count ELSE count + 1
      /\ stream' = Begin(stream.pos, ItemSize)
      /\ UNCHANGED <<volume, pc, cluster, item>>
  BY DEF CountItem
<1>2. /\ volume \in Volumes /\ cluster \in DOMAIN volume /\ count \in Nat
      /\ IF cluster = ROOT THEN item = NULL ELSE item.kind = "directory" /\ cluster = item.cluster
  BY <1>1, CountedItem DEF FileInv, FileTypes
<1> DEFINE L == Len(volume[cluster])
           kind(k) == volume[cluster][k].kind
<1>3. PICK n \in 0..PerSector-1 :
        /\ n <= L
        /\ AllCounted(cluster, count, n) \/ L >= PerSector
        /\ ItemAt(stream.out[1]) = IF n < L THEN volume[cluster][n + 1] ELSE NULL
        /\ stream.pos = Start(cluster) + ((IF n = PerSector - 1 THEN 1 ELSE n + 1) * ItemSize)
  BY <1>1, CountedItem
<1>4. L \in Nat /\ PerSector \in Nat /\ PerSector >= 2 /\ CountLimit >= PerSector
  BY <1>2, VolumeIs, ItemsPerSector, Fat16Assumption DEF PerSector
<1>5. n < L
  BY <1>1, <1>3 DEF NULL
<1> DEFINE next == IF n = PerSector - 1 THEN 1 ELSE n + 1
<1>6. next \in 0..PerSector-1 /\ next <= L
  BY <1>4, <1>5
<1>7. stream' = Begin(Start(cluster) + (next * ItemSize), ItemSize)
  BY <1>1, <1>3
<1>8. AllCounted(cluster, count', next) \/ L >= PerSector
  <2> SUFFICES ASSUME L < PerSector PROVE AllCounted(cluster, count', next)
    BY <1>4
  <2>1. next = n + 1 /\ AllCounted(cluster, count, n)
    BY <1>3, <1>4, <1>5
  <2>2. /\ count \in 0..n
        /\ (\A k \in 1..n : kind(k) # "deleted") => count = n
        /\ Tidy(cluster) => \A k \in 1..n : kind(k) # "deleted" => k <= count
    BY <2>1 DEF AllCounted
  <2>3. count' = IF kind(n + 1) = "deleted" THEN count ELSE count + 1
    BY <1>1, <1>3, <1>4, <1>5, <2>2
  <2>4. 1..(n + 1) = (1..n) \cup {n + 1}
    OBVIOUS
  <2>5. count' \in 0..(n + 1)
    BY <2>2, <2>3
  <2>6. (\A k \in 1..(n + 1) : kind(k) # "deleted") => count' = n + 1
    BY <2>2, <2>3, <2>4
  <2>7. ASSUME Tidy(cluster), NEW k \in 1..(n + 1), kind(k) # "deleted" PROVE k <= count'
    <3>1. CASE k = n + 1
      <4>1. \A j \in 1..n : kind(j) # "deleted"
        <5> SUFFICES ASSUME NEW j \in 1..n, kind(j) = "deleted" PROVE FALSE
          OBVIOUS
        <5>1. j \in 1..L /\ n + 1 \in 1..L /\ j < n + 1
          BY <1>4, <1>5
        <5> QED
          BY <5>1, <2>7, <3>1 DEF Tidy
      <4> QED
        BY <4>1, <2>2, <2>3, <2>7, <3>1
    <3>2. CASE k \in 1..n
      BY <2>2, <2>3, <2>7, <3>2
    <3> QED
      BY <2>4, <3>1, <3>2
  <2> QED
    BY <2>1, <2>5, <2>6, <2>7 DEF AllCounted
<1>9. CountAt(next)'
  <2> HIDE DEF next
  <2>1. next' = next
    BY <1>1, <1>2 DEF next
  <2>2. /\ next <= Len(volume[cluster])'
        /\ AllCounted(cluster, count, next)' \/ Len(volume[cluster])' >= PerSector
    <3>1. AllCounted(cluster, count', next) => AllCounted(cluster, count, next)'
      BY <1>1, <2>1 DEF AllCounted, Tidy
    <3> QED
      BY <1>1, <1>6, <1>8, <3>1
  <2>3. stream' = Begin(Start(cluster') + (next * ItemSize), ItemSize)
    BY <1>1, <1>7
  <2>4. Start(cluster)' = Start(cluster')
    BY DEF Start
  <2> QED
    BY <2>1, <2>2, <2>3, <2>4 DEF CountAt
<1> QED
  BY <1>1, <1>2, <1>6, <1>9 DEF CountsItems

\* The count ends where the items end.
LEMMA CountStops ==
  ASSUME FileInv, CountEnds
  PROVE  /\ cluster \in DOMAIN volume /\ AllOf(cluster, count)
         /\ IF cluster = ROOT THEN item = NULL ELSE item.kind = "directory" /\ cluster = item.cluster
<1>1. volume \in Volumes /\ Counted /\ ItemAt(stream.out[1]).kind = "none"
  BY DEF FileInv, FileTypes, CountEnds
<1>2. /\ cluster \in DOMAIN volume
      /\ IF cluster = ROOT THEN item = NULL ELSE item.kind = "directory" /\ cluster = item.cluster
  BY <1>1, CountedItem
<1>3. PICK n \in 0..PerSector-1 :
        /\ n <= Len(volume[cluster])
        /\ AllCounted(cluster, count, n) \/ Len(volume[cluster]) >= PerSector
        /\ ItemAt(stream.out[1]) =
             IF n < Len(volume[cluster]) THEN volume[cluster][n + 1] ELSE NULL
  BY <1>1, CountedItem
<1>4. Len(volume[cluster]) \in Nat /\ PerSector \in Nat
  BY <1>1, <1>2, VolumeIs, ItemsPerSector
<1>5. n < Len(volume[cluster]) => volume[cluster][n + 1].kind # "none"
  <2> SUFFICES ASSUME n < Len(volume[cluster]) PROVE volume[cluster][n + 1].kind # "none"
    OBVIOUS
  <2>1. n + 1 \in 1..Len(volume[cluster])
    BY <1>4
  <2>2. volume[cluster][n + 1] \in Entries(volume)
    BY <1>1, <1>2, <2>1, VolumeIs
  <2> QED
    BY <1>1, <2>2, EntryIs
<1>6. n = Len(volume[cluster])
  BY <1>1, <1>3, <1>4, <1>5
<1> QED
  BY <1>2, <1>3, <1>4, <1>6 DEF AllOf

\* The count begins with the first item.
LEMMA CountBegins ==
  ASSUME NEW d, volume' \in Volumes, d \in DOMAIN volume', CountFrom(d),
         IF d = ROOT THEN item' = NULL ELSE item'.kind = "directory" /\ d = item'.cluster
  PROVE  CountsItems'
<1>1. /\ pc' = "count" /\ cluster' = d /\ count' = 0 /\ stream' = Begin(Start(d), ItemSize)
  BY DEF CountFrom
<1>2. 0 \in 0..PerSector-1
  BY ItemsPerSector
<1>3. CountAt(0)'
  <2>1. Start(d) = Start(d) + (0 * ItemSize)
    <3>1. d \in Places /\ Len(volume'[d]) \in Nat
      BY VolumesAssumption DEF Places
    <3> QED
      BY <3>1, SectorsOf, ItemsPerSector
  <2>2. Len(volume'[d]) \in Nat
    BY VolumesAssumption
  <2>3. AllCounted(d, 0, 0)'
    BY DEF AllCounted
  <2>4. Start(cluster)' = Start(d)
    BY <1>1 DEF Start
  <2> QED
    BY <1>1, <2>1, <2>2, <2>3, <2>4 DEF CountAt
<1> QED
  BY <1>1, <1>2, <1>3 DEF CountsItems

------------------------------------------------------------------------------
(* The steps *)

\* What the root directory's bytes hold.
LEMMA BytesHoldItems ==
  ASSUME volume \in Volumes, NEW d \in DOMAIN volume, NEW c, AllOf(d, c), NEW n \in Nat,
         c * ItemSize <= n
  PROVE  LET items == ItemsIn(Bytes(Start(d), n))
         IN Loaded(d, [items |-> items, total |-> c])
<1> DEFINE bytes == Bytes(Start(d), n)
           items == ItemsIn(bytes)
<1>1. /\ Len(volume[d]) \in Nat /\ Len(volume[d]) < PerSector /\ c \in 0..Len(volume[d])
      /\ PerSector \in Nat /\ ItemSize \in Nat \ {0} /\ Start(d) \in Nat
  BY VolumeIs, SectorsOf, ItemsPerSector DEF AllOf, AllCounted
<1>0. n \in Nat /\ n \in Int /\ Start(d) \in Int
  BY <1>1
<1>2. bytes \in Seq(Int) /\ Len(bytes) = n
  BY <1>0, BytesJoin
<1> HIDE DEF bytes
<1>3. items \in Seq(Entries(volume) \cup {NULL}) /\ Len(items) = n \div ItemSize
  BY <1>2, ItemsAre
<1> DEFINE t == n \div ItemSize
<1>4. t \in Int /\ n < ItemSize * t + ItemSize
  <2>1. t \in Int /\ (n % ItemSize) \in 0..(ItemSize-1) /\ n = ItemSize * t + (n % ItemSize)
    BY <1>0, <1>1, Division
  <2> QED
    BY <1>0, <1>1, <2>1
<1>5. c <= t
  <2> SUFFICES ASSUME t + 1 <= c PROVE FALSE
    BY <1>1, <1>4
  <2> HIDE DEF t
  <2>1. (t + 1) * ItemSize <= c * ItemSize
    BY <1>1, <1>4, Grows
  <2>2. (t + 1) * ItemSize = ItemSize * t + ItemSize
    BY <1>1, <1>4
  <2>3. c * ItemSize \in Nat
    BY <1>1
  <2> QED
    BY <1>1, <1>4, <2>1, <2>2, <2>3
<1>6. c <= Len(items)
  BY <1>3, <1>5
<1>7. ASSUME NEW k \in 1..c PROVE items[k] = volume[d][k]
  <2>1. k - 1 \in 0..PerSector-1 /\ k - 1 < Len(volume[d]) /\ (k - 1) + 1 = k
    BY <1>1
  <2>2. ItemAt(Start(d) + ((k - 1) * ItemSize)) = volume[d][k]
    <3>1. ItemAt(Start(d) + ((k - 1) * ItemSize)) =
            IF k - 1 < Len(volume[d]) THEN volume[d][(k - 1) + 1] ELSE NULL
      BY <2>1, RoomForItems
    <3> QED
      BY <2>1, <3>1
  <2>3. (k - 1) * ItemSize \in Nat /\ (k - 1) * ItemSize + ItemSize = k * ItemSize
        /\ k * ItemSize <= c * ItemSize /\ c * ItemSize \in Nat
    BY <1>1, Grows
  <2>4. ((k - 1) * ItemSize) + 1 \in 1..n
    BY <1>1, <2>3
  <2>5. bytes[((k - 1) * ItemSize) + 1] = Start(d) + ((k - 1) * ItemSize)
    BY <1>1, <2>3, <2>4 DEF bytes, Bytes
  <2>6. items = [j \in 1..t |-> ItemAt(bytes[((j - 1) * ItemSize) + 1])]
    BY <1>2 DEF ItemsIn
  <2>7. k \in 1..t
    <3>1. k \in Int /\ 1 <= k /\ k <= c
      BY <1>1
    <3> HIDE DEF t
    <3> QED
      BY <1>1, <1>4, <1>5, <3>1
  <2> QED
    BY <2>2, <2>5, <2>6, <2>7
<1> HIDE DEF items
<1>8. Loaded(d, [items |-> items, total |-> c])
  BY <1>3, <1>6, <1>7 DEF Loaded
<1> QED
  BY <1>8 DEF items, bytes

\* One sector of the root directory, or of a cluster.
LEMMA StreamGoesOn ==
  ASSUME FileInv, ReadSector, pc # "count"
  PROVE  FileInv'
<1>1. /\ ~stream.returned /\ stream' = diskstreamer_read(stream) /\ pc \in {"root", "stream"}
      /\ UNCHANGED <<volume, pc, cluster, offset, total, out, root_directory, directory, path,
                     asked, item, count, pos, request>>
  BY DEF ReadSector, opening, file
<1>2. FileTypes'
  BY <1>1 DEF FileInv, FileTypes, Transfers, Entries
<1>3. CountsItems'
  BY <1>1 DEF CountsItems
<1>4. \A d \in Places, n \in Nat : Running(stream, Start(d), n) => Running(stream', Start(d), n)
  <2> SUFFICES ASSUME NEW d \in Places, NEW n \in Nat, Running(stream, Start(d), n)
               PROVE  Running(stream', Start(d), n)
    OBVIOUS
  <2>1. PICK q \in Int : Start(d) = SectorSize * q
    BY SectorsOf
  <2>2. Running(stream, SectorSize * q, n)
    BY <2>1
  <2>3. Running(diskstreamer_read(stream), SectorSize * q, n)
    BY <1>1, <2>2, StreamRuns
  <2> QED
    BY <1>1, <2>1, <2>3
<1>5. ReadsRoot'
  <2> SUFFICES ASSUME pc = "root" PROVE ReadsRoot'
    BY <1>1 DEF ReadsRoot
  <2>1. item = NULL /\ AllOf(ROOT, count) /\ Running(stream, 0, RootSize)
    BY DEF FileInv, ReadsRoot
  <2>2. Start(ROOT) = 0 /\ ROOT \in Places /\ RootSize \in Nat
    BY Fat16Assumption DEF Start, Places
  <2>3. Running(stream', 0, RootSize)
    BY <1>4, <2>1, <2>2
  <2>4. AllOf(ROOT, count)'
    BY <1>1, <2>1 DEF AllOf, AllCounted, Tidy
  <2>5. Running(stream, 0, RootSize)'
    BY <2>3 DEF Running
  <2> QED
    BY <1>1, <2>1, <2>4, <2>5 DEF ReadsRoot
<1>6. RootIsLoaded'
  BY <1>1, StaysLoaded DEF FileInv, RootIsLoaded
<1>7. ReadsDirectory'
  <2> SUFFICES ASSUME pc = "stream", item.kind = "directory" PROVE ReadsDirectory'
    BY <1>1 DEF ReadsDirectory, Transfers
  <2>1. /\ cluster = item.cluster /\ AllOf(cluster, count) /\ offset = 0 /\ total = count * ItemSize
        /\ out = <<>> /\ Running(stream, Start(cluster), count * ItemSize) /\ count \in Nat
    BY DEF FileInv, FileTypes, ReadsDirectory, Transfers
  <2>2. cluster \in Places /\ count * ItemSize \in Nat
    <3>1. cluster \in DOMAIN volume
      BY <2>1, EntryIs DEF FileInv, FileTypes, NULL
    <3> QED
      BY <2>1, <3>1, VolumeIs, ItemsPerSector DEF FileInv, FileTypes
  <2>3. Running(stream', Start(cluster), count * ItemSize)
    BY <1>4, <2>1, <2>2
  <2>4. Running(stream, Start(cluster), count * ItemSize)'
    BY <1>1, <2>3 DEF Running, Start
  <2>5. AllOf(cluster, count)'
    BY <1>1, <2>1 DEF AllOf, AllCounted, Tidy
  <2> QED
    BY <1>1, <2>1, <2>4, <2>5 DEF ReadsDirectory, Transfers
<1>9. SearchesDirectory'
  BY <1>1 DEF SearchesDirectory
<1>8. ReadsFile'
  <2> SUFFICES ASSUME pc = "stream", item.kind = "file" PROVE ReadsFile'
    BY <1>1 DEF ReadsFile, Transfers
  <2> DEFINE c == item.chain[(offset \div ClusterSize) + 1]
  <2>1. /\ cluster = item.cluster /\ request.offset \in Nat /\ request.size \in Nat \ {0}
        /\ request.offset <= offset /\ offset + total = request.offset + request.size
        /\ total > 0 /\ offset \div ClusterSize < Len(item.chain)
        /\ request.offset % ClusterSize = 0 =>
             /\ out = [k \in 1..offset - request.offset |-> FileByte(request.offset + k - 1)]
             /\ offset % ClusterSize = 0 /\ Running(stream, ClusterPosition(c), OneCluster)
    BY DEF FileInv, ReadsFile, Transfers
  <2>2. offset \in Nat /\ total \in Nat /\ ClusterSize \in Nat \ {0}
    BY Fat16Assumption DEF FileInv, FileTypes
  <2>3. c \in Places /\ ClusterPosition(c) = Start(c)
    <3>1. LaidOut(item)
      BY EntryIs DEF FileInv, FileTypes, NULL
    <3>2. item.chain \in Seq(Cluster)
      BY <3>1 DEF LaidOut
    <3>3. (offset \div ClusterSize) + 1 \in 1..Len(item.chain)
      <4>1. offset \div ClusterSize \in Nat
        BY <2>2
      <4> QED
        BY <2>1, <3>2, <4>1
    <3>4. c \in Cluster
      BY <3>2, <3>3
    <3> QED
      BY <3>4 DEF Places, Start, Cluster, ROOT
  <2>4. OneCluster \in Nat
    BY <2>2 DEF OneCluster
  <2>5. request.offset % ClusterSize = 0 => Running(stream', ClusterPosition(c), OneCluster)
    BY <1>4, <2>1, <2>3, <2>4
  <2>6. request.offset % ClusterSize = 0 => Running(stream, ClusterPosition(c), OneCluster)'
    BY <1>1, <2>5 DEF Running, ClusterPosition, OneCluster
  <2> HIDE DEF c
  <2>7. c' = c
    BY <1>1 DEF c
  <2>8. \A f : FileByte(f)' = FileByte(f)
    BY <1>1 DEF FileByte, ClusterPosition
  <2> QED
    BY <1>1, <2>1, <2>6, <2>7, <2>8 DEF ReadsFile, Transfers, c, FileByte, ClusterPosition
<1> QED
  BY <1>2, <1>3, <1>5, <1>6, <1>7, <1>8, <1>9 DEF FileInv

\* A step that neither counts nor transfers.
LEMMA Quiet ==
  ASSUME FileInv, volume' = volume, root_directory' = root_directory,
         pc \notin {"boot", "root"}, ~(pc = "count" /\ cluster = ROOT),
         pc' \in {"ready", "find", "found", "opened", "undefined"},
         FileTypes', SearchesDirectory'
  PROVE  FileInv'
<1>1. RootIsLoaded'
  BY StaysLoaded DEF FileInv, RootIsLoaded
<1>2. CountsItems' /\ ReadsRoot' /\ ReadsDirectory' /\ ReadsFile'
  BY DEF CountsItems, ReadsRoot, ReadsDirectory, ReadsFile, Transfers
<1> QED
  BY <1>1, <1>2 DEF FileInv

\* fat16_open, fat16_close and fat16_seek change what is in memory only.
LEMMA QuietSteps ==
  ASSUME FileInv,
         \/ \E p \in Paths : Open(p)
         \/ NextPart \/ NextPartOfNothing \/ Opened \/ Refused \/ Accepted \/ Close
         \/ \E mode \in {"SEEK_SET", "SEEK_CUR"}, o \in SeekOffsets : Seek(mode, o)
  PROVE  FileInv'
<1>0. FileTypes /\ NULL.kind = "none"
  BY DEF FileInv, NULL
<1>1. ASSUME NEW p \in Paths, Open(p) PROVE FileInv'
  <2>1. /\ pc = "ready" /\ item = NULL /\ pc' = "find" /\ directory' = root_directory
        /\ UNCHANGED <<volume, root_directory, item, count, pos, offset, total>>
    BY <1>1 DEF Open, reading, file
  <2>2. Loaded(ROOT, root_directory)
    BY <2>1 DEF FileInv, RootIsLoaded
  <2>3. SearchesDirectory'
    <3>1. Loaded(ROOT, root_directory)'
      BY <2>1, <2>2, StaysLoaded
    <3>2. Loaded(ROOT, directory)'
      BY <2>1, <3>1
    <3> QED
      BY <2>1, <3>2 DEF SearchesDirectory
  <2>4. FileTypes'
    BY <1>0, <2>1 DEF FileTypes, Transfers, Entries
  <2> QED
    BY <2>1, <2>3, <2>4, Quiet
<1>2. ASSUME NextPart PROVE FileInv'
  <2>1. /\ pc = "found" /\ item # NULL
        /\ IF item.kind = "directory" THEN pc' = "find" /\ item' = item
                                      ELSE pc' = "found" /\ item' = NULL
        /\ UNCHANGED <<volume, root_directory, directory, count, pos, offset, total>>
    BY <1>2 DEF NextPart, reading, file
  <2>2. item.kind = "directory" => Loaded(item.cluster, directory)'
    BY <2>1, StaysLoaded DEF FileInv, SearchesDirectory
  <2>3. SearchesDirectory'
    BY <1>0, <2>1, <2>2 DEF SearchesDirectory
  <2>4. FileTypes'
    BY <1>0, <2>1 DEF FileTypes, Transfers, Entries
  <2> QED
    BY <2>1, <2>3, <2>4, Quiet
<1>3. ASSUME NextPartOfNothing PROVE FileInv'
  <2>1. /\ pc = "found" /\ item = NULL /\ pc' \in {"found", "undefined"}
        /\ UNCHANGED <<volume, root_directory, item, count, pos, offset, total>>
    BY <1>3 DEF NextPartOfNothing, reading, file
  <2>2. SearchesDirectory' /\ FileTypes'
    BY <1>0, <2>1 DEF SearchesDirectory, FileTypes, Transfers, Entries
  <2> QED
    BY <2>1, <2>2, Quiet
<1>4. ASSUME Opened \/ Refused \/ Accepted \/ Close PROVE FileInv'
  <2>1. /\ pc \in {"found", "opened", "ready"} /\ pc' \in {"opened", "ready"}
        /\ item' \in {item, NULL} /\ (pc' = "ready" => item' = NULL \/ item'.kind = "file")
        /\ pos' \in {0, pos}
        /\ UNCHANGED <<volume, root_directory, count, offset, total>>
    BY <1>0, <1>4 DEF Opened, Refused, Accepted, Close, reading, file, FileTypes
  <2>2. SearchesDirectory' /\ FileTypes'
    BY <1>0, <2>1 DEF SearchesDirectory, FileTypes, Transfers, Entries
  <2> QED
    BY <2>1, <2>2, Quiet
<1>5. ASSUME NEW mode \in {"SEEK_SET", "SEEK_CUR"}, NEW o \in SeekOffsets, Seek(mode, o)
      PROVE  FileInv'
  <2>1. /\ pc = "ready" /\ pc' = "ready" /\ pos' \in {o, pos + o}
        /\ UNCHANGED <<volume, root_directory, item, count, offset, total>>
    BY <1>5 DEF Seek, reading, opening
  <2>2. o \in Nat
    BY Fat16Assumption
  <2>3. SearchesDirectory' /\ FileTypes'
    BY <1>0, <2>1, <2>2 DEF SearchesDirectory, FileTypes, Transfers, Entries
  <2> QED
    BY <2>1, <2>3, Quiet
<1> QED
  BY <1>1, <1>2, <1>3, <1>4, <1>5

\* fat16_get_total_items_for_directory, one step of its loop.
LEMMA CountSteps ==
  ASSUME FileInv, CountItem \/ (ReadSector /\ pc = "count")
  PROVE  FileInv'
<1>1. /\ pc = "count" /\ pc' = "count" /\ count' \in {count, count + 1}
      /\ UNCHANGED <<volume, cluster, offset, total, root_directory, item, pos>>
  BY DEF CountItem, Counted, ReadSector, opening, file
<1>2. CountsItems'
  BY CountGoesOn, CountReads
<1>3. FileTypes'
  BY <1>1 DEF FileInv, FileTypes, Transfers, Entries
<1>4. RootIsLoaded'
  BY <1>1, StaysLoaded DEF FileInv, RootIsLoaded
<1>5. ReadsRoot' /\ ReadsDirectory' /\ SearchesDirectory' /\ ReadsFile'
  BY <1>1 DEF ReadsRoot, ReadsDirectory, SearchesDirectory, ReadsFile, Transfers
<1> QED
  BY <1>2, <1>3, <1>4, <1>5 DEF FileInv

\* fat16_resolve and fat16_root_directory_setup.
LEMMA RootSteps ==
  ASSUME FileInv, Resolve \/ RootCounted \/ RootRead
  PROVE  FileInv'
<1>0. FileTypes
  BY DEF FileInv
<1>1. CASE Resolve
  <2>1. /\ pc = "boot" /\ CountFrom(ROOT)
        /\ UNCHANGED <<volume, offset, total, root_directory, item, pos>>
    BY <1>1 DEF Resolve, file
  <2>2. pc' = "count" /\ cluster' = ROOT /\ count' = 0 /\ item' = NULL
    BY <1>0, <2>1 DEF CountFrom, FileTypes
  <2>3. ROOT \in DOMAIN volume' /\ volume' \in Volumes
    BY <1>0, <2>1, VolumesAssumption DEF FileTypes
  <2>4. CountsItems'
    BY <2>1, <2>2, <2>3, CountBegins
  <2>5. FileTypes'
    BY <1>0, <2>1, <2>2 DEF FileTypes, Transfers, Entries
  <2> QED
    BY <2>2, <2>4, <2>5 DEF FileInv, RootIsLoaded, ReadsRoot, ReadsDirectory,
       SearchesDirectory, ReadsFile, Transfers
<1>2. CASE RootCounted
  <2>1. /\ CountEnds /\ cluster = ROOT /\ pc' = "root" /\ stream' = Begin(0, RootSize)
        /\ UNCHANGED <<volume, offset, total, item, count, pos>>
    BY <1>2 DEF RootCounted, opening, file
  <2>2. AllOf(ROOT, count) /\ item = NULL
    BY <2>1, CountStops
  <2>3. Running(Begin(0, RootSize), 0, RootSize)
    <3>1. 0 \in Int /\ SectorSize * 0 = 0 /\ RootSize \in Nat
      BY ItemsPerSector, Fat16Assumption
    <3>2. Running(Begin(SectorSize * 0, RootSize), SectorSize * 0, RootSize)
      BY <3>1, StreamBegins
    <3> QED
      BY <3>1, <3>2
  <2>4. ReadsRoot'
    <3>1. AllOf(ROOT, count)'
      BY <2>1, <2>2 DEF AllOf, AllCounted, Tidy
    <3>2. Running(stream, 0, RootSize)'
      BY <2>1, <2>3 DEF Running
    <3> QED
      BY <2>1, <2>2, <3>1, <3>2 DEF ReadsRoot
  <2>5. FileTypes'
    BY <1>0, <2>1 DEF FileTypes, Transfers, Entries
  <2> QED
    BY <2>1, <2>4, <2>5 DEF FileInv, RootIsLoaded, CountsItems, ReadsDirectory,
       SearchesDirectory, ReadsFile, Transfers
<1>3. CASE RootRead
  <2>1. /\ pc = "root" /\ stream.returned /\ pc' = "ready" /\ count' = 0
        /\ root_directory' = [items |-> ItemsIn(stream.out), total |-> count]
        /\ UNCHANGED <<volume, offset, total, item, pos>>
    BY <1>3 DEF RootRead, file
  <2>2. item = NULL /\ AllOf(ROOT, count) /\ Running(stream, 0, RootSize)
    BY <2>1 DEF FileInv, ReadsRoot
  <2>3. stream.out = Bytes(Start(ROOT), RootSize)
    BY <2>1, <2>2 DEF Running, Start
  <2>4. /\ volume \in Volumes /\ ROOT \in DOMAIN volume /\ RootSize \in Nat
        /\ count * ItemSize <= RootSize
    <3>1. volume \in Volumes /\ ROOT \in DOMAIN volume /\ RootSize \in Nat
      BY <1>0, VolumesAssumption, Fat16Assumption DEF FileTypes
    <3>2. Len(volume[ROOT]) \in Nat /\ Len(volume[ROOT]) * ItemSize < RootSize
      BY <3>1, VolumeIs DEF Room
    <3>3. count \in 0..Len(volume[ROOT])
      BY <2>2 DEF AllOf, AllCounted
    <3>4. count * ItemSize <= Len(volume[ROOT]) * ItemSize
      BY <3>2, <3>3, ItemsPerSector, Grows
    <3>5. count * ItemSize \in Nat /\ Len(volume[ROOT]) * ItemSize \in Nat
      BY <3>2, <3>3, ItemsPerSector
    <3> QED
      BY <3>1, <3>2, <3>4, <3>5
  <2>5. Loaded(ROOT, [items |-> ItemsIn(Bytes(Start(ROOT), RootSize)), total |-> count])
    BY <2>2, <2>4, BytesHoldItems
  <2>6. Loaded(ROOT, root_directory')
    BY <2>1, <2>3, <2>5
  <2>7. RootIsLoaded'
    <3>1. Loaded(ROOT, root_directory)'
      BY <2>1, <2>6 DEF Loaded, AllOf, AllCounted, Tidy, Entries
    <3> QED
      BY <3>1 DEF RootIsLoaded
  <2>8. FileTypes'
    BY <1>0, <2>1, <2>2 DEF FileTypes, Transfers, Entries
  <2> QED
    BY <2>1, <2>7, <2>8 DEF FileInv, ReadsRoot, CountsItems, ReadsDirectory,
       SearchesDirectory, ReadsFile, Transfers
<1> QED
  BY <1>1, <1>2, <1>3

\* A directory that is found.
LEMMA DirectoryIs ==
  ASSUME FileTypes, item.kind = "directory"
  PROVE  /\ item \in Entries(volume) /\ item.cluster \in DOMAIN volume \ {ROOT}
         /\ item.cluster \in Cluster /\ item.cluster \in Nat /\ item.cluster # EIO
         /\ Start(item.cluster) = ClusterPosition(item.cluster)
         /\ \A c : AllOf(item.cluster, c) => c \in Nat /\ c * ItemSize \in Nat /\ c * ItemSize < ClusterSize
<1>1. /\ volume \in Volumes /\ item \in Entries(volume)
      /\ item.cluster \in DOMAIN volume \ {ROOT}
  BY EntryIs DEF FileTypes, NULL
<1>2. item.cluster \in Cluster
  BY <1>1, VolumesAssumption
<1>3. Start(item.cluster) = ClusterPosition(item.cluster)
  BY <1>1 DEF Start
<1>4. ASSUME NEW c, AllOf(item.cluster, c)
      PROVE  c \in Nat /\ c * ItemSize \in Nat /\ c * ItemSize < ClusterSize
  <2> DEFINE n == Len(volume[item.cluster])
  <2>1. n \in Nat /\ n * ItemSize < ClusterSize
    BY <1>1, VolumeIs DEF Room
  <2>2. c \in 0..n
    BY <1>4 DEF AllOf, AllCounted
  <2> HIDE DEF n
  <2>3. c * ItemSize <= n * ItemSize
    BY <2>1, <2>2, ItemsPerSector, Grows
  <2>4. c * ItemSize \in Nat /\ n * ItemSize \in Nat /\ ClusterSize \in Nat
    BY <2>1, <2>2, ItemsPerSector, Fat16Assumption
  <2> QED
    BY <2>1, <2>2, <2>3, <2>4
<1> QED
  BY <1>1, <1>2, <1>3, <1>4 DEF Cluster, EIO

\* fat16_get_directory_entry, and fat16_load_fat_directory up to its read.
LEMMA DirectorySteps ==
  ASSUME FileInv, Find \/ DirectoryCounted \/ DirectoryRead
  PROVE  FileInv'
<1>0. FileTypes
  BY DEF FileInv
<1>1. CASE Find
  <2> DEFINE found == fat16_find_item_in_directory(directory, path[1])
             d == IF item = NULL THEN ROOT ELSE item.cluster
  <2>1. /\ pc = "find" /\ item' = found
        /\ IF found.kind = "directory" THEN CountFrom(found.cluster)
           ELSE pc' = "found" /\ UNCHANGED <<cluster, count, stream>>
        /\ UNCHANGED <<volume, offset, total, root_directory, pos>>
    BY <1>1 DEF Find, file
  <2>2. Loaded(d, directory)
    BY <2>1 DEF FileInv, SearchesDirectory
  <2> HIDE DEF d
  <2>3. found \in Entries(volume) \cup {NULL}
    BY <1>0, <2>2, FoundIs DEF FileTypes
  <2> HIDE DEF found
  <2>4. found.kind = "directory" => found.cluster \in DOMAIN volume \ {ROOT}
    BY <1>0, <2>3, EntryIs DEF FileTypes, NULL
  <2>5. Loaded(ROOT, root_directory)'
    BY <2>1, StaysLoaded DEF FileInv, RootIsLoaded
  <2>6. CASE found.kind = "directory"
    <3>1. CountFrom(found.cluster) /\ pc' = "count" /\ count' = 0
      BY <2>1, <2>6 DEF CountFrom
    <3>2. CountsItems'
      BY <1>0, <2>1, <2>4, <2>6, <3>1, CountBegins DEF FileTypes
    <3>3. FileTypes'
      BY <1>0, <2>1, <2>3, <3>1 DEF FileTypes, Transfers, Entries
    <3> QED
      BY <2>5, <3>1, <3>2, <3>3 DEF FileInv, RootIsLoaded, ReadsRoot, ReadsDirectory,
         SearchesDirectory, ReadsFile, Transfers
  <2>7. CASE found.kind # "directory"
    <3>1. FileTypes'
      BY <1>0, <2>1, <2>3, <2>7 DEF FileTypes, Transfers, Entries
    <3> QED
      BY <2>1, <2>5, <2>7, <3>1 DEF FileInv, RootIsLoaded, ReadsRoot, ReadsDirectory, CountsItems,
         SearchesDirectory, ReadsFile, Transfers
  <2> QED
    BY <2>6, <2>7
<1>2. CASE DirectoryCounted
  <2>1. /\ CountEnds /\ cluster # ROOT /\ pc = "count"
        /\ pc' = "cluster" /\ offset' = 0 /\ total' = count * ItemSize /\ out' = <<>>
        /\ UNCHANGED <<volume, cluster, root_directory, item, count, pos>>
    BY <1>2 DEF DirectoryCounted, CountEnds, Counted, opening, file
  <2>2. AllOf(cluster, count) /\ item.kind = "directory" /\ cluster = item.cluster
    BY <2>1, CountStops
  <2>3. count * ItemSize \in Nat
    BY <1>0, <2>2, DirectoryIs
  <2>4. ReadsDirectory'
    <3>1. AllOf(cluster, count)'
      BY <2>1, <2>2 DEF AllOf, AllCounted, Tidy
    <3> QED
      BY <2>1, <2>2, <3>1 DEF ReadsDirectory
  <2>5. RootIsLoaded'
    BY <2>1, StaysLoaded DEF FileInv, RootIsLoaded
  <2>6. FileTypes'
    BY <1>0, <2>1, <2>2, <2>3 DEF FileTypes, Transfers, Entries
  <2> QED
    BY <2>1, <2>2, <2>4, <2>5, <2>6 DEF FileInv, ReadsRoot, CountsItems,
       SearchesDirectory, ReadsFile, Transfers
<1>3. CASE DirectoryRead
  <2>1. /\ pc = "done" /\ item.kind = "directory"
        /\ directory' = [items |-> ItemsIn(out), total |-> count]
        /\ pc' = "found" /\ offset' = 0 /\ count' = 0
        /\ UNCHANGED <<volume, total, root_directory, item, pos>>
    BY <1>3 DEF DirectoryRead, file
  <2>2. /\ cluster = item.cluster /\ AllOf(cluster, count)
        /\ out = Bytes(Start(cluster), count * ItemSize)
    BY <2>1 DEF FileInv, ReadsDirectory, Transfers
  <2>3. /\ volume \in Volumes /\ cluster \in DOMAIN volume /\ count * ItemSize \in Nat
        /\ count * ItemSize <= count * ItemSize
    BY <1>0, <2>1, <2>2, DirectoryIs DEF FileTypes
  <2>4. Loaded(cluster, [items |-> ItemsIn(Bytes(Start(cluster), count * ItemSize)), total |-> count])
    <3> DEFINE n == count * ItemSize
    <3>1. n \in Nat /\ count * ItemSize <= n
      BY <2>3
    <3> HIDE DEF n
    <3>2. Loaded(cluster, [items |-> ItemsIn(Bytes(Start(cluster), n)), total |-> count])
      BY <2>2, <2>3, <3>1, BytesHoldItems
    <3> QED
      BY <3>2 DEF n
  <2>5. Loaded(cluster, directory')
    BY <2>1, <2>2, <2>4
  <2>6. SearchesDirectory'
    <3>1. Loaded(item.cluster, directory)'
      BY <2>1, <2>2, <2>5 DEF Loaded, AllOf, AllCounted, Tidy, Entries
    <3> QED
      BY <2>1, <3>1 DEF SearchesDirectory
  <2>7. FileTypes'
    BY <1>0, <2>1 DEF FileTypes, Transfers, Entries
  <2> QED
    BY <2>1, <2>6, <2>7, Quiet
<1> QED
  BY <1>1, <1>2, <1>3

\* fat16_read, and the clusters of a file or a directory up to the stream's read.
LEMMA ReadSteps ==
  ASSUME FileInv, (\E n \in Sizes : Read(n)) \/ ReadCluster \/ ReadFails
  PROVE  FileInv'
<1>0. FileTypes /\ NULL.kind = "none" /\ ClusterSize \in Nat \ {0}
  BY Fat16Assumption DEF FileInv, NULL
<1>1. ASSUME NEW n \in Sizes, Read(n) PROVE FileInv'
  <2>1. /\ pc = "ready" /\ item # NULL /\ pc' = "cluster"
        /\ request' = [offset |-> pos, size |-> n] /\ cluster' = item.cluster
        /\ offset' = pos /\ total' = n /\ out' = <<>>
        /\ UNCHANGED <<volume, root_directory, item, count, pos>>
    BY <1>1 DEF Read, opening
  <2>2. item.kind = "file" /\ pos \in Nat /\ n \in Nat \ {0}
    BY <1>0, <2>1, Fat16Assumption DEF FileTypes
  <2>3. ReadsFile'
    <3>1. offset' - request'.offset = 0 /\ 1..0 = {}
      BY <2>1, <2>2
    <3>2. out' = [k \in 1..offset' - request'.offset |-> FileByte(request.offset + k - 1)']
      BY <2>1, <3>1
    <3>3. out' = [k \in 1..offset - request.offset |-> FileByte(request.offset + k - 1)]'
      BY <3>2
    <3> QED
      BY <2>1, <2>2, <3>3 DEF ReadsFile
  <2>4. FileTypes'
    BY <1>0, <2>1, <2>2 DEF FileTypes, Transfers, Entries
  <2>5. RootIsLoaded'
    BY <2>1, StaysLoaded DEF FileInv, RootIsLoaded
  <2> QED
    BY <2>1, <2>2, <2>3, <2>4, <2>5 DEF FileInv, ReadsRoot, CountsItems, ReadsDirectory,
       SearchesDirectory
<1>2. ASSUME pc = "cluster", item.kind = "directory"
      PROVE  /\ fat16_get_cluster_for_offset(cluster, offset) = cluster /\ cluster # EIO
             /\ cluster = item.cluster /\ AllOf(cluster, count) /\ offset = 0 /\ out = <<>>
             /\ total = count * ItemSize /\ total \in Nat /\ total < ClusterSize
             /\ OneCluster = total /\ Start(cluster) = ClusterPosition(cluster)
  <2>1. /\ cluster = item.cluster /\ AllOf(cluster, count) /\ offset = 0 /\ out = <<>>
        /\ total = count * ItemSize
    BY <1>2 DEF FileInv, ReadsDirectory, Transfers
  <2>2. /\ cluster # EIO /\ total \in Nat /\ total < ClusterSize
        /\ Start(cluster) = ClusterPosition(cluster)
    BY <1>0, <1>2, <2>1, DirectoryIs
  <2>3. offset \div ClusterSize = 0
    <3>1. 0 = ClusterSize * 0
      BY <1>0
    <3>2. (ClusterSize * 0) \div ClusterSize = 0
      BY <1>0, Multiple
    <3> QED
      BY <2>1, <3>1, <3>2
  <2>4. fat16_get_cluster_for_offset(cluster, offset) = cluster
    BY <2>3, NoHops DEF fat16_get_cluster_for_offset
  <2> QED
    BY <1>0, <2>1, <2>2, <2>4 DEF OneCluster
<1>3. ASSUME pc = "cluster", item.kind = "file"
      PROVE  /\ offset \div ClusterSize \in Nat /\ Len(item.chain) \in Nat
             /\ fat16_get_cluster_for_offset(cluster, offset) =
                  IF offset \div ClusterSize < Len(item.chain)
                  THEN item.chain[(offset \div ClusterSize) + 1] ELSE EIO
             /\ \A k \in 1..Len(item.chain) : item.chain[k] \in Cluster /\ item.chain[k] # EIO
  <2>1. cluster = item.cluster
    BY <1>3 DEF FileInv, ReadsFile, Transfers
  <2>2. LaidOut(item)
    BY <1>0, <1>3, EntryIs DEF FileTypes
  <2>3. offset \in Nat
    BY <1>0 DEF FileTypes
  <2>4. offset \div ClusterSize \in Nat
    BY <1>0, <2>3
  <2>5. item.chain \in Seq(Cluster)
    BY <2>2 DEF LaidOut
  <2>6. Len(item.chain) \in Nat
        /\ \A k \in 1..Len(item.chain) : item.chain[k] \in Cluster /\ item.chain[k] # EIO
    BY <2>5 DEF Cluster, EIO
  <2>7. fat16_get_cluster_for_offset(cluster, offset) =
          IF offset \div ClusterSize < Len(item.chain)
          THEN item.chain[(offset \div ClusterSize) + 1] ELSE EIO
    BY <2>1, <2>2, <2>4, HopsAlongChain DEF fat16_get_cluster_for_offset
  <2> QED
    BY <2>4, <2>6, <2>7
<1>4. CASE ReadCluster
  <2> DEFINE from == fat16_get_cluster_for_offset(cluster, offset)
  <2>1. /\ pc = "cluster" /\ from # EIO /\ pc' = "stream"
        /\ stream' = Begin(ClusterPosition(from) + (offset % ClusterSize), OneCluster)
        /\ UNCHANGED <<volume, cluster, offset, total, out, root_directory, item, count, pos, request>>
    BY <1>4 DEF ReadCluster, opening, file
  <2>2. offset \in Nat /\ total \in Nat /\ OneCluster \in Nat
    BY <1>0 DEF FileTypes, OneCluster
  <2>3. ASSUME NEW d \in Places, d # ROOT, from = d, offset % ClusterSize = 0
        PROVE  Running(stream', ClusterPosition(d), OneCluster)
    <3>1. Start(d) = ClusterPosition(d) /\ Start(d) \in Nat
      BY <2>3, SectorsOf DEF Start
    <3>2. PICK q \in Int : Start(d) = SectorSize * q
      BY SectorsOf
    <3>3. stream' = Begin(SectorSize * q, OneCluster)
      BY <2>1, <2>3, <3>1, <3>2
    <3>4. Running(Begin(SectorSize * q, OneCluster), SectorSize * q, OneCluster)
      BY <2>2, StreamBegins
    <3> QED
      BY <3>1, <3>2, <3>3, <3>4
  <2>4. ReadsDirectory'
    <3> SUFFICES ASSUME item.kind = "directory" PROVE ReadsDirectory'
      BY <2>1 DEF ReadsDirectory
    <3>1. cluster \in Places /\ cluster # ROOT
      BY <1>0, <1>2, <2>1, DirectoryIs DEF Places
    <3>2. offset % ClusterSize = 0
      <4>1. (ClusterSize * 0) % ClusterSize = 0 /\ ClusterSize * 0 = 0
        BY <1>0, Multiple
      <4> QED
        BY <4>1, <1>2, <2>1
    <3>3. Running(stream', Start(cluster), count * ItemSize)
      BY <1>2, <2>1, <2>3, <3>1, <3>2
    <3>4. Running(stream, Start(cluster), count * ItemSize)'
      BY <2>1, <3>3 DEF Running, Start
    <3>5. AllOf(cluster, count)'
      BY <1>2, <2>1 DEF AllOf, AllCounted, Tidy
    <3> QED
      BY <1>2, <2>1, <3>4, <3>5 DEF ReadsDirectory
  <2>5. ReadsFile'
    <3> SUFFICES ASSUME item.kind = "file" PROVE ReadsFile'
      BY <2>1 DEF ReadsFile
    <3> DEFINE c == item.chain[(offset \div ClusterSize) + 1]
    <3>1. /\ cluster = item.cluster /\ request.offset \in Nat /\ request.size \in Nat \ {0}
          /\ request.offset <= offset /\ offset + total = request.offset + request.size
          /\ total > 0
          /\ request.offset % ClusterSize = 0 =>
               /\ out = [k \in 1..offset - request.offset |-> FileByte(request.offset + k - 1)]
               /\ offset % ClusterSize = 0
      BY <2>1 DEF FileInv, ReadsFile, Transfers
    <3>2. offset \div ClusterSize < Len(item.chain) /\ from = c
      BY <1>3, <2>1
    <3>3. c \in Places /\ c # ROOT
      <4>1. (offset \div ClusterSize) + 1 \in 1..Len(item.chain)
        BY <1>3, <2>1, <3>2
      <4>2. c \in Cluster
        BY <1>3, <2>1, <4>1
      <4> QED
        BY <4>2 DEF Places, Cluster, ROOT
    <3>4. request.offset % ClusterSize = 0 => Running(stream', ClusterPosition(c), OneCluster)
      BY <2>3, <3>1, <3>2, <3>3
    <3>5. request.offset % ClusterSize = 0 => Running(stream, ClusterPosition(c), OneCluster)'
      BY <2>1, <3>4 DEF Running, ClusterPosition, OneCluster
    <3> HIDE DEF c
    <3>6. c' = c
      BY <2>1 DEF c
    <3>7. \A f : FileByte(f)' = FileByte(f)
      BY <2>1 DEF FileByte, ClusterPosition
    <3> QED
      BY <2>1, <3>1, <3>2, <3>5, <3>6, <3>7 DEF ReadsFile, c, FileByte, ClusterPosition
  <2>6. FileTypes'
    BY <1>0, <2>1 DEF FileTypes, Transfers, Entries
  <2>7. RootIsLoaded'
    BY <2>1, StaysLoaded DEF FileInv, RootIsLoaded
  <2> QED
    BY <2>1, <2>4, <2>5, <2>6, <2>7 DEF FileInv, ReadsRoot, CountsItems, SearchesDirectory
<1>5. CASE ReadFails
  <2>1. /\ pc = "cluster" /\ fat16_get_cluster_for_offset(cluster, offset) = EIO /\ pc' = "failed"
        /\ UNCHANGED <<volume, cluster, offset, total, out, root_directory, item, count, pos, request>>
    BY <1>5 DEF ReadFails, reading, opening, file
  <2>2. item.kind = "file"
    BY <1>0, <1>2, <2>1 DEF FileTypes, Transfers
  <2>3. /\ cluster = item.cluster /\ request.offset \in Nat /\ request.size \in Nat \ {0}
        /\ request.offset <= offset /\ offset + total = request.offset + request.size
        /\ total > 0
        /\ request.offset % ClusterSize = 0 =>
             out = [k \in 1..offset - request.offset |-> FileByte(request.offset + k - 1)]
    BY <2>1, <2>2 DEF FileInv, ReadsFile, Transfers
  <2>4. ~WithinFile
    <3> DEFINE j == offset \div ClusterSize
               L == Len(item.chain)
    <3>1. j \in Nat /\ L \in Nat /\ ~(j < L)
      <4>1. j < L => j + 1 \in 1..L
        BY <1>3, <2>1, <2>2
      <4> QED
        BY <1>3, <2>1, <2>2, <4>1
    <3>2. offset \in Nat /\ total \in Nat
      BY <1>0 DEF FileTypes
    <3>3. (offset % ClusterSize) \in 0..ClusterSize-1
          /\ offset = ClusterSize * j + (offset % ClusterSize)
      BY <1>0, <3>2, Division
    <3> HIDE DEF j, L
    <3>4. L * ClusterSize <= j * ClusterSize /\ j * ClusterSize = ClusterSize * j
          /\ j * ClusterSize \in Nat /\ L * ClusterSize \in Nat
      BY <1>0, <3>1, Grows
    <3>5. L * ClusterSize <= offset
      BY <1>0, <3>2, <3>3, <3>4
    <3> QED
      BY <2>3, <3>2, <3>4, <3>5 DEF WithinFile, L
  <2>5. ReadsFile'
    <3>1. \A f : FileByte(f)' = FileByte(f)
      BY <2>1 DEF FileByte, ClusterPosition
    <3>2. ~WithinFile'
      BY <2>1, <2>4 DEF WithinFile
    <3> QED
      BY <2>1, <2>2, <2>3, <3>1, <3>2 DEF ReadsFile, FileByte, ClusterPosition
  <2>6. FileTypes'
    BY <1>0, <2>1 DEF FileTypes, Transfers, Entries
  <2>7. RootIsLoaded'
    BY <2>1, StaysLoaded DEF FileInv, RootIsLoaded
  <2> QED
    BY <2>1, <2>2, <2>5, <2>6, <2>7 DEF FileInv, ReadsRoot, CountsItems, SearchesDirectory, ReadsDirectory
<1> QED
  BY <1>1, <1>4, <1>5

\* The bytes of a file that a cluster holds follow each other on the disk.
LEMMA FileBytesJoin ==
  ASSUME NEW from \in Nat, NEW to \in Nat, from <= to, NEW n \in Nat,
         ClusterSize \in Nat \ {0}, to % ClusterSize = 0, n <= ClusterSize,
         ClusterPosition(item.chain[(to \div ClusterSize) + 1]) \in Int
  PROVE  [k \in 1..to - from |-> FileByte(from + k - 1)]
           \o Bytes(ClusterPosition(item.chain[(to \div ClusterSize) + 1]), n)
         = [k \in 1..(to + n) - from |-> FileByte(from + k - 1)]
<1> DEFINE j == to \div ClusterSize
           base == ClusterPosition(item.chain[j + 1])
           m == to - from
           a == [k \in 1..m |-> FileByte(from + k - 1)]
           b == Bytes(base, n)
           c == [k \in 1..m + n |-> FileByte(from + k - 1)]
           S == {FileByte(f) : f \in Nat} \cup Int
<1>1. j \in Int /\ to = ClusterSize * j /\ m \in Nat
  BY Division
<1>2. \A k \in 1..n : b[k] = base + k - 1
  BY DEF Bytes
<1>3. ASSUME NEW k \in 1..n PROVE FileByte(to + (k - 1)) = base + (k - 1)
  <2>1. k - 1 \in 0..ClusterSize-1
    OBVIOUS
  <2>2. (ClusterSize * j + (k - 1)) \div ClusterSize = j
        /\ (ClusterSize * j + (k - 1)) % ClusterSize = k - 1
    BY <1>1, <2>1, Unique
  <2>3. (to + (k - 1)) \div ClusterSize = j /\ (to + (k - 1)) % ClusterSize = k - 1
    BY <1>1, <2>2
  <2> HIDE DEF j
  <2> QED
    BY <2>3 DEF FileByte
<1>4. a \in Seq(S) /\ Len(a) = m
  <2>1. \A k \in 1..m : from + k - 1 \in Nat
    OBVIOUS
  <2> HIDE DEF m
  <2> QED
    BY <1>1, <2>1
<1>5. b \in Seq(S) /\ Len(b) = n
  <2>1. b \in Seq(Int) /\ Len(b) = n
    <3>1. base \in Int /\ n \in Int
      OBVIOUS
    <3> HIDE DEF base
    <3> QED
      BY <3>1, BytesJoin
  <2> QED
    BY <2>1
<1>6. c \in Seq(S) /\ Len(c) = m + n
  <2>1. \A k \in 1..m + n : from + k - 1 \in Nat
    BY <1>1
  <2> HIDE DEF m
  <2> QED
    BY <1>1, <2>1
<1>7. \A k \in 1..m : a[k] = FileByte(from + k - 1)
  OBVIOUS
<1>8. \A k \in 1..m+n : c[k] = FileByte(from + k - 1)
  OBVIOUS
<1>9. to = from + m
  BY <1>1
<1>10. (to + n) - from = m + n
  BY <1>1
<1>11. base \in Int
  OBVIOUS
<1> HIDE DEF m, a, b, c, S, base, j
<1>12. a \o b \in Seq(S) /\ Len(a \o b) = m + n
  BY <1>1, <1>4, <1>5, ConcatProperties
<1>13. \A k \in 1..m+n : (a \o b)[k] = c[k]
  <2> SUFFICES ASSUME NEW k \in 1..m+n PROVE (a \o b)[k] = c[k]
    OBVIOUS
  <2>1. (a \o b)[k] = IF k <= m THEN a[k] ELSE b[k - m]
    BY <1>1, <1>4, <1>5, ConcatProperties
  <2>2. CASE k <= m
    <3>1. k \in 1..m
      BY <1>1, <2>2
    <3> QED
      BY <2>1, <2>2, <3>1, <1>7, <1>8
  <2>3. CASE k > m
    <3>1. k - m \in 1..n /\ ~(k <= m)
      BY <1>1, <2>3
    <3>2. b[k - m] = FileByte(to + ((k - m) - 1))
      <4>1. b[k - m] = base + (k - m) - 1
        BY <3>1, <1>2
      <4>2. FileByte(to + ((k - m) - 1)) = base + ((k - m) - 1)
        BY <3>1, <1>3
      <4> QED
        BY <1>1, <1>11, <4>1, <4>2
    <3>3. to + ((k - m) - 1) = from + k - 1
      BY <1>1, <1>9
    <3> QED
      BY <2>1, <3>1, <3>2, <3>3, <1>8
  <2>4. k <= m \/ k > m
    BY <1>1
  <2> QED
    BY <2>2, <2>3, <2>4
<1>14. a \o b = c
  BY <1>12, <1>6, <1>13, SeqEqual
<1> QED
  BY <1>10, <1>14 DEF a, b, c, m, base, j

\* fat16_read_internal_from_stream: a cluster's bytes are copied behind those before.
LEMMA ClusterStep ==
  ASSUME FileInv, ClusterDone
  PROVE  FileInv'
<1>0. FileTypes /\ NULL.kind = "none" /\ ClusterSize \in Nat \ {0}
  BY Fat16Assumption DEF FileInv, NULL
<1>1. /\ pc = "stream" /\ stream.returned
      /\ out' = out \o [k \in 1..OneCluster |->
                         IF k \in DOMAIN stream.out THEN stream.out[k] ELSE Untouched]
      /\ total' = total - OneCluster /\ offset' = offset + OneCluster
      /\ pc' = IF total' > 0 THEN "cluster" ELSE "done"
      /\ UNCHANGED <<volume, cluster, root_directory, item, count, pos, request>>
  BY DEF ClusterDone, opening, file
<1>2. offset \in Nat /\ total \in Nat /\ OneCluster \in Nat /\ OneCluster <= ClusterSize
      /\ OneCluster <= total /\ (total > OneCluster => OneCluster = ClusterSize)
  BY <1>0 DEF FileTypes, OneCluster
<1>3. pc' \in {"cluster", "done"} /\ total' \in Nat /\ offset' \in Nat
  BY <1>1, <1>2
<1>4. FileTypes'
  BY <1>0, <1>1, <1>3 DEF FileTypes, Transfers, Entries
<1>5. RootIsLoaded'
  BY <1>1, StaysLoaded DEF FileInv, RootIsLoaded
<1>6. ASSUME NEW base \in Int, Running(stream, base, OneCluster)
      PROVE  [k \in 1..OneCluster |-> IF k \in DOMAIN stream.out THEN stream.out[k] ELSE Untouched]
               = Bytes(base, OneCluster)
  <2>1. stream.out = Bytes(base, OneCluster)
    BY <1>1, <1>6 DEF Running
  <2>2. DOMAIN stream.out = 1..OneCluster /\ \A k \in 1..OneCluster : stream.out[k] = base + k - 1
    BY <2>1 DEF Bytes
  <2> QED
    BY <2>2 DEF Bytes
<1>7. ReadsDirectory'
  <2> SUFFICES ASSUME item.kind = "directory" PROVE ReadsDirectory'
    BY <1>1 DEF ReadsDirectory
  <2>1. /\ cluster = item.cluster /\ AllOf(cluster, count) /\ offset = 0 /\ total = count * ItemSize
        /\ out = <<>> /\ Running(stream, Start(cluster), count * ItemSize)
    BY <1>1 DEF FileInv, ReadsDirectory, Transfers
  <2>2. /\ count * ItemSize \in Nat /\ count * ItemSize < ClusterSize /\ Start(cluster) \in Int
    <3>1. cluster \in Places
      BY <1>0, <2>1, DirectoryIs DEF Places
    <3> QED
      BY <1>0, <2>1, <3>1, DirectoryIs, SectorsOf
  <2>3. OneCluster = count * ItemSize
    BY <1>0, <2>1, <2>2 DEF OneCluster
  <2>4. out' = Bytes(Start(cluster), count * ItemSize)
    <3>1. out' = <<>> \o Bytes(Start(cluster), OneCluster)
      BY <1>1, <1>6, <2>1, <2>2, <2>3
    <3>2. Bytes(Start(cluster), OneCluster) \in Seq(Int)
      BY <1>2, <2>2, BytesJoin
    <3> QED
      BY <2>3, <3>1, <3>2, ConcatEmptySeq
  <2>5. total' = 0
    BY <1>1, <2>1, <2>2, <2>3
  <2>6. AllOf(cluster, count)' /\ Start(cluster)' = Start(cluster)
    BY <1>1, <2>1 DEF AllOf, AllCounted, Tidy, Start
  <2>7. pc' = "done"
    <3>1. ~(total' > 0)
      BY <2>5
    <3> QED
      BY <1>1, <3>1
  <2>8. out' = Bytes(Start(cluster)', count' * ItemSize)
    BY <1>1, <2>4, <2>6
  <2> QED
    BY <1>1, <2>1, <2>6, <2>7, <2>8 DEF ReadsDirectory, Bytes
<1>8. ReadsFile'
  <2> SUFFICES ASSUME item.kind = "file" PROVE ReadsFile'
    BY <1>1 DEF ReadsFile
  <2> DEFINE j == offset \div ClusterSize
             L == Len(item.chain)
             base == ClusterPosition(item.chain[j + 1])
  <2>1. /\ cluster = item.cluster /\ request.offset \in Nat /\ request.size \in Nat \ {0}
        /\ request.offset <= offset /\ offset + total = request.offset + request.size
        /\ total > 0 /\ j < L
        /\ request.offset % ClusterSize = 0 =>
             /\ out = [k \in 1..offset - request.offset |-> FileByte(request.offset + k - 1)]
             /\ offset % ClusterSize = 0
             /\ Running(stream, base, OneCluster)
    BY <1>1 DEF FileInv, ReadsFile, Transfers
  <2>2. j \in Nat /\ L \in Nat /\ base \in Int
    <3>1. LaidOut(item)
      BY <1>0, EntryIs DEF FileTypes
    <3>2. item.chain \in Seq(Cluster) /\ L \in Nat
      BY <3>1 DEF LaidOut
    <3>3. j \in Nat
      BY <1>0, <1>2
    <3>4. j + 1 \in 1..L
      BY <2>1, <3>2, <3>3
    <3>5. item.chain[j + 1] \in Cluster
      BY <3>2, <3>4
    <3>6. item.chain[j + 1] \in Places /\ Start(item.chain[j + 1]) = base
      BY <3>5 DEF Places, Start, Cluster, ROOT
    <3> QED
      BY <3>2, <3>3, <3>6, SectorsOf
  <2>3. request.offset <= offset' /\ offset' + total' = request.offset + request.size
        /\ (pc' = "cluster" => total' > 0) /\ (pc' = "done" => total' = 0)
    BY <1>1, <1>2, <1>3, <2>1
  <2>4. request.offset % ClusterSize = 0 =>
          out' = [k \in 1..offset' - request.offset |-> FileByte(request.offset + k - 1)]
    <3> SUFFICES ASSUME request.offset % ClusterSize = 0
                 PROVE  out' = [k \in 1..offset' - request.offset |-> FileByte(request.offset + k - 1)]
      OBVIOUS
    <3>1. out' = [k \in 1..offset - request.offset |-> FileByte(request.offset + k - 1)]
                   \o Bytes(base, OneCluster)
      BY <1>1, <1>6, <2>1, <2>2
    <3>2. /\ request.offset \in Nat /\ offset \in Nat /\ request.offset <= offset
          /\ OneCluster \in Nat /\ ClusterSize \in Nat \ {0} /\ offset % ClusterSize = 0
          /\ OneCluster <= ClusterSize
          /\ ClusterPosition(item.chain[(offset \div ClusterSize) + 1]) \in Int
      BY <1>0, <1>2, <2>1, <2>2
    <3>3. [k \in 1..offset - request.offset |-> FileByte(request.offset + k - 1)]
            \o Bytes(base, OneCluster)
          = [k \in 1..(offset + OneCluster) - request.offset |-> FileByte(request.offset + k - 1)]
      BY <3>2, FileBytesJoin, Zenon
    <3> QED
      BY <1>1, <3>1, <3>3
  <2>10. request.offset % ClusterSize = 0 => offset = ClusterSize * j
    <3>1. offset \in Int /\ offset = ClusterSize * j + (offset % ClusterSize) /\ j \in Int
      BY <1>0, <1>2, Division
    <3>2. request.offset % ClusterSize = 0 => offset % ClusterSize = 0
      BY <2>1
    <3> HIDE DEF j
    <3> QED
      BY <1>0, <3>1, <3>2
  <2>5. request.offset % ClusterSize = 0 /\ pc' = "cluster" => offset' % ClusterSize = 0
    <3> SUFFICES ASSUME request.offset % ClusterSize = 0, pc' = "cluster"
                 PROVE  offset' % ClusterSize = 0
      OBVIOUS
    <3>1. OneCluster = ClusterSize
      BY <1>1, <1>2, <1>3
    <3>2. offset = ClusterSize * j
      BY <2>10
    <3> HIDE DEF j
    <3>3. offset' = ClusterSize * (j + 1)
      BY <1>0, <1>1, <2>2, <3>1, <3>2
    <3> QED
      BY <1>0, <2>2, <3>3, Multiple
  <2>6. request.offset % ClusterSize = 0 => offset' <= L * ClusterSize
    <3> SUFFICES ASSUME request.offset % ClusterSize = 0 PROVE offset' <= L * ClusterSize
      OBVIOUS
    <3>1. offset = ClusterSize * j
      BY <2>10
    <3> HIDE DEF j, L
    <3>3. j + 1 <= L /\ j + 1 \in Int /\ L \in Int
      BY <2>1, <2>2
    <3>2. (j + 1) * ClusterSize <= L * ClusterSize /\ L * ClusterSize \in Nat
          /\ (j + 1) * ClusterSize = ClusterSize * j + ClusterSize
      BY <1>0, <2>2, <3>3, Grows
    <3>4. offset' <= ClusterSize * j + ClusterSize /\ ClusterSize * j \in Nat
      BY <1>0, <1>1, <1>2, <2>2, <3>1
    <3> QED
      BY <1>0, <1>3, <3>2, <3>4
  <2>7. \A f : FileByte(f)' = FileByte(f)
    BY <1>1 DEF FileByte, ClusterPosition
  <2> HIDE DEF L, j, base
  <2>8. /\ pc' \in {"cluster", "done"} /\ item' = item /\ request' = request /\ cluster' = cluster
    BY <1>1, <1>3
  <2>9. Len(item'.chain) = L
    BY <2>8 DEF L
  <2> QED
    BY <2>1, <2>3, <2>4, <2>5, <2>6, <2>7, <2>8, <2>9 DEF ReadsFile, FileByte, ClusterPosition
<1> QED
  BY <1>3, <1>4, <1>5, <1>7, <1>8 DEF FileInv, ReadsRoot, CountsItems, SearchesDirectory

\* The result goes to the program.
LEMMA ReturnStep ==
  ASSUME FileInv, Return
  PROVE  FileInv'
<1>1. /\ pc \in {"done", "failed"} /\ pc' = "ready" /\ item.kind = "file" /\ pos' \in {offset, pos}
      /\ offset' = 0 /\ total' = 0
      /\ UNCHANGED <<volume, root_directory, item, count>>
  BY DEF Return, opening
<1>2. FileTypes' /\ SearchesDirectory'
  BY <1>1 DEF FileInv, FileTypes, SearchesDirectory, Transfers, Entries
<1> QED
  BY <1>1, <1>2, Quiet

\* A step that changes nothing.
LEMMA Stutters ==
  ASSUME FileInv, UNCHANGED vars
  PROVE  FileInv'
<1>1. UNCHANGED <<volume, pc, stream, cluster, offset, total, out, root_directory, directory, path,
                  asked, item, count, pos, request>>
  BY DEF vars, reading, opening, file
<1>2. FileTypes'
  BY <1>1 DEF FileInv, FileTypes, Transfers, Entries
<1>3. CountsItems'
  BY <1>1 DEF FileInv, CountsItems, CountAt, AllCounted, Tidy, Start
<1>4. ReadsRoot' /\ ReadsDirectory'
  BY <1>1 DEF FileInv, ReadsRoot, ReadsDirectory, Running, AllOf, AllCounted, Tidy, Transfers, Start
<1>5. RootIsLoaded' /\ SearchesDirectory'
  BY <1>1, StaysLoaded DEF FileInv, RootIsLoaded, SearchesDirectory
<1>6. ReadsFile'
  BY <1>1 DEF FileInv, ReadsFile, Transfers, WithinFile, FileByte, ClusterPosition, Running, OneCluster
<1> QED
  BY <1>2, <1>3, <1>4, <1>5, <1>6 DEF FileInv

------------------------------------------------------------------------------
(* Theorems *)

\* What each loop of fat16.c has established holds at every step: an item that is read
\* is the one its place names, the items in memory are those of the directory, and what
\* a read has copied are the bytes up to where it is.
THEOREM FileInvariant == Spec => []FileInv
<1>1. Init => FileInv
  <2> SUFFICES ASSUME Init PROVE FileInv
    OBVIOUS
  <2>1. /\ volume \in Volumes /\ pc = "boot" /\ item = NULL /\ count = 0 /\ pos = 0
        /\ offset = 0 /\ total = 0
    BY DEF Init
  <2>2. FileTypes
    BY <2>1 DEF FileTypes, Transfers
  <2> QED
    BY <2>1, <2>2 DEF FileInv, CountsItems, ReadsRoot, RootIsLoaded, ReadsDirectory,
       SearchesDirectory, ReadsFile, Transfers
<1>2. FileInv /\ [Next]_vars => FileInv'
  <2> SUFFICES ASSUME FileInv, [Next]_vars PROVE FileInv'
    OBVIOUS
  <2>1. CASE ReadSector \/ CountItem
    BY <2>1, CountSteps, StreamGoesOn
  <2>2. CASE Resolve \/ RootCounted \/ RootRead
    BY <2>2, RootSteps
  <2>3. CASE Find \/ DirectoryCounted \/ DirectoryRead
    BY <2>3, DirectorySteps
  <2>4. CASE NextPart \/ NextPartOfNothing \/ Opened \/ Refused \/ Accepted
    BY <2>4, QuietSteps
  <2>5. CASE ReadCluster \/ ReadFails
    BY <2>5, ReadSteps
  <2>6. CASE ClusterDone
    BY <2>6, ClusterStep
  <2>7. CASE Return
    BY <2>7, ReturnStep
  <2>8. CASE \E p \in Paths : Open(p)
    BY <2>8, QuietSteps
  <2>9. CASE Close
    BY <2>9, QuietSteps
  <2>10. CASE \E mode \in {"SEEK_SET", "SEEK_CUR"}, o \in SeekOffsets : Seek(mode, o)
    BY <2>10, QuietSteps
  <2>11. CASE \E n \in Sizes : Read(n)
    BY <2>11, ReadSteps
  <2>12. CASE Undefined \/ UNCHANGED vars
    BY <2>12, Stutters DEF Undefined
  <2> QED
    BY <2>1, <2>2, <2>3, <2>4, <2>5, <2>6, <2>7, <2>8, <2>9, <2>10, <2>11, <2>12
    DEF Next, Work, Calls
<1> QED
  BY <1>1, <1>2, PTL DEF Spec

\* fat16.c:596: a read that succeeds, and begins where a cluster begins, lies in the
\* clusters of the file and has copied its bytes in their order.
THEOREM ReadsDeliverTheFile == Spec => []ReadsTheFile
<1>1. FileInv => ReadsTheFile
  <2> SUFFICES ASSUME FileInv, pc = "done", item.kind = "file", request.offset % ClusterSize = 0
               PROVE  WithinFile /\ out = [k \in 1..request.size |-> FileByte(request.offset + k - 1)]
    BY DEF ReadsTheFile
  <2>1. /\ request.offset \in Nat /\ request.size \in Nat
        /\ offset + total = request.offset + request.size /\ total = 0
        /\ out = [k \in 1..offset - request.offset |-> FileByte(request.offset + k - 1)]
        /\ offset <= Len(item.chain) * ClusterSize /\ offset \in Nat
    BY DEF FileInv, FileTypes, ReadsFile, Transfers
  <2>2. offset - request.offset = request.size /\ offset = request.offset + request.size
    BY <2>1
  <2> QED
    BY <2>1, <2>2 DEF WithinFile
<1> QED
  BY <1>1, FileInvariant, PTL

\* fat16_get_cluster_for_offset: a read fails only where the file has no cluster for all
\* of the request, and reading a directory never fails.
THEOREM ReadsFailOnlyPastEnd == Spec => []FailsOnlyPastEnd
<1>1. FileInv => FailsOnlyPastEnd
  BY DEF FileInv, FileTypes, ReadsFile, ReadsDirectory, Transfers, FailsOnlyPastEnd
<1> QED
  BY <1>1, FileInvariant, PTL

------------------------------------------------------------------------------
(* The entry that a path means *)

\* The entry of a directory that has a name, and what the first n parts of a path mean,
\* of a volume.
EntryIn(v, d, name) ==
  LET called == {k \in 1..Len(v[d]) : /\ v[d][k].kind # "deleted"
                                      /\ istrncmp(v[d][k].called, name)}
  IN IF called = {} THEN NULL ELSE v[d][CHOOSE k \in called : TRUE]

MeantIn(v, p, n) ==
  LET meant[k \in 1..Len(p)] ==
        IF k = 1 THEN EntryIn(v, ROOT, p[1])
        ELSE IF meant[k - 1].kind = "directory" THEN EntryIn(v, meant[k - 1].cluster, p[k]) ELSE NULL
  IN meant[n]

\* fat16_get_directory_entry: the parts that are left are the last ones of the path, and
\* what was found for those before is what they mean, unless nothing was found and a
\* directory is untidy.
LookedUp == Len(asked) - Len(path)

Opening ==
  \/ pc \in {"find", "found", "opened"}
  \/ pc = "count" /\ cluster # ROOT
  \/ Transfers /\ item.kind = "directory"

Untidy == \E d \in DOMAIN volume : ~Tidy(d)

FollowsPath ==
  Opening =>
    /\ asked \in Paths /\ path \in Seq(Parts) /\ Len(path) <= Len(asked)
    /\ \A k \in 1..Len(path) : path[k] = asked[LookedUp + k]
    /\ IF pc = "find" /\ item = NULL THEN LookedUp = 0
       ELSE LookedUp > 0 /\ (item = MeantIn(volume, asked, LookedUp) \/ (item = NULL /\ Untidy))
    /\ pc = "find" => path # <<>>
    /\ pc = "opened" => path = <<>>

\* A string has a length.
LEMMA StringIs ==
  ASSUME NEW s, IsString(s)
  PROVE  Len(s) \in Nat /\ DOMAIN s = 1..Len(s) /\ (s # <<>> => Len(s) # 0)
<1> DEFINE C == {s[k] : k \in DOMAIN s}
<1>1. s \in Seq(C)
  BY DEF IsString
<1> HIDE DEF C
<1> QED
  BY <1>1

\* fat16_to_proper_string takes the spaces off that fill a name up.
LEMMA ProperString ==
  ASSUME NEW s, NEW n \in 0..Len(s), FilledUp(s, n)
  PROVE  fat16_to_proper_string(s) = SubSeq(s, 1, n)
<1> DEFINE P(m) == /\ m = Len(s) \/ s[m + 1] = " "
                   /\ \A i \in 1..m : s[i] # " "
           x == CHOOSE m \in 0..Len(s) : P(m)
<1>0. Len(s) \in Nat /\ n \in Int
  <2>1. Len(s) \in Nat
    BY StringIs DEF FilledUp
  <2> QED
    BY <2>1
<1>1. \A k \in 1..Len(s) : s[k] = " " <=> k > n
  BY DEF FilledUp
<1>2. P(n)
  <2>1. n = Len(s) \/ n + 1 \in 1..Len(s)
    BY <1>0
  <2>2. n + 1 > n /\ \A i \in 1..n : i \in 1..Len(s) /\ ~(i > n)
    BY <1>0
  <2> QED
    BY <1>1, <2>1, <2>2
<1>3. x \in 0..Len(s) /\ P(x)
  BY <1>2
<1>4. ASSUME NEW m \in 0..Len(s), P(m) PROVE m = n
  <2>1. CASE m < n
    <3>1. m + 1 \in 1..Len(s) /\ m # Len(s) /\ ~(m + 1 > n)
      BY <1>0, <2>1
    <3>2. s[m + 1] = " "
      BY <1>4, <3>1
    <3> QED
      BY <1>1, <3>1, <3>2
  <2>2. CASE m > n
    <3>1. n + 1 \in 1..Len(s) /\ n + 1 > n /\ n + 1 \in 1..m
      BY <1>0, <2>2
    <3>2. s[n + 1] # " "
      BY <1>4, <3>1
    <3> QED
      BY <1>1, <3>1, <3>2
  <2>3. m \in Int
    BY <1>0
  <2> QED
    BY <1>0, <2>1, <2>2, <2>3
<1>5. x = n
  BY <1>3, <1>4
<1>6. fat16_to_proper_string(s) = SubSeq(s, 1, x)
  BY DEF fat16_to_proper_string
<1> HIDE DEF x
<1> QED
  BY <1>5, <1>6

\* The characters before the spaces are a string.
LEMMA FrontOf ==
  ASSUME NEW s, NEW n \in 0..Len(s), IsString(s)
  PROVE  /\ SubSeq(s, 1, n) \in Seq({s[k] : k \in DOMAIN s}) /\ Len(SubSeq(s, 1, n)) = n
         /\ n > 0 => SubSeq(s, 1, n)[1] = s[1]
<1> DEFINE C == {s[k] : k \in DOMAIN s}
<1>1. s \in Seq(C) /\ Len(s) \in Nat
  BY DEF IsString
<1> HIDE DEF C
<1>2. SubSeq(s, 1, n) \in Seq(C) /\ Len(SubSeq(s, 1, n)) = n
  BY <1>1
<1>3. n > 0 => SubSeq(s, 1, n)[1] = s[1]
  BY <1>1
<1> QED
  BY <1>2, <1>3 DEF C

\* fat16_get_full_relative_filename: the name an entry is called by, or, of one that was
\* deleted, one that begins with the byte 0xE5.
LEMMA FullName ==
  ASSUME NEW i, NamedAs(i)
  PROVE  LET full == fat16_get_full_relative_filename(i)
         IN /\ \E C : full \in Seq(C)
            /\ IF i.kind = "deleted" THEN full # <<>> /\ full[1] = "E5"
               ELSE IsString(i.called) /\ istrncmp(i.called, full)
<1> DEFINE full == fat16_get_full_relative_filename(i)
<1>1. PICK m \in 0..Len(i.base), n \in 0..Len(i.ext) :
        /\ FilledUp(i.base, m) /\ FilledUp(i.ext, n)
        /\ LET name == SubSeq(i.base, 1, m)
           IN IF i.kind = "deleted" THEN i.base[1] = "E5"
              ELSE /\ IsString(i.called)
                   /\ istrncmp(i.called, IF n = 0 THEN name ELSE name \o <<".">> \o SubSeq(i.ext, 1, n))
  BY DEF NamedAs
<1> DEFINE name == SubSeq(i.base, 1, m)
           ext == SubSeq(i.ext, 1, n)
<1>2. fat16_to_proper_string(i.base) = name /\ fat16_to_proper_string(i.ext) = ext
  BY <1>1, ProperString
<1>3. /\ IsString(i.base) /\ IsString(i.ext) /\ i.base # <<>> /\ i.ext # <<>>
      /\ Len(i.base) \in Nat \ {0} /\ Len(i.ext) \in Nat \ {0}
      /\ (i.base[1] = " " <=> 1 > m) /\ (i.ext[1] = " " <=> 1 > n)
  <2>1. IsString(i.base) /\ IsString(i.ext) /\ i.base # <<>> /\ i.ext # <<>>
    BY <1>1 DEF FilledUp
  <2>2. Len(i.base) \in Nat \ {0} /\ Len(i.ext) \in Nat \ {0}
    BY <2>1, StringIs
  <2>3. 1 \in 1..Len(i.base) /\ 1 \in 1..Len(i.ext)
    BY <2>2
  <2> QED
    BY <1>1, <2>1, <2>2, <2>3 DEF FilledUp
<1>8. m \in Nat /\ n \in Nat
  <2>1. m \in 0..Len(i.base) /\ n \in 0..Len(i.ext)
    BY <1>1
  <2>2. \A k, j : j \in Nat /\ k \in 0..j => k \in Nat
    OBVIOUS
  <2>3. Len(i.base) \in Nat /\ Len(i.ext) \in Nat
    BY <1>3
  <2> QED
    BY <2>1, <2>2, <2>3, Zenon
<1>4. full = IF n = 0 THEN name ELSE name \o <<".">> \o ext
  <2>1. i.ext[1] = " " <=> n = 0
    <3>1. n \in Nat
      BY <1>8
    <3>2. 1 > n <=> n = 0
      BY <3>1
    <3> QED
      BY <1>3, <3>2
  <2>2. full = name \o (IF n = 0 THEN <<>> ELSE <<".">> \o ext)
    BY <1>2, <2>1 DEF fat16_get_full_relative_filename
  <2>3. name \o <<>> = name
    BY <1>3, FrontOf, ConcatEmptySeq
  <2>4. name \o (<<".">> \o ext) = (name \o <<".">>) \o ext
    <3> DEFINE B == {i.base[k] : k \in DOMAIN i.base}
               E == {i.ext[k] : k \in DOMAIN i.ext}
               A == B \cup E \cup {"."}
    <3>1. name \in Seq(B) /\ ext \in Seq(E)
      BY <1>3, FrontOf
    <3> HIDE DEF name, ext, B, E
    <3>2. name \in Seq(A) /\ ext \in Seq(A) /\ <<".">> \in Seq(A)
      BY <3>1
    <3> HIDE DEF A
    <3> QED
      BY <3>2, ConcatAssociative
  <2> HIDE DEF full, name, ext
  <2> QED
    BY <2>2, <2>3, <2>4
<1>5. /\ \E C : full \in Seq(C)
      /\ m > 0 => full # <<>> /\ full[1] = i.base[1]
  <2> DEFINE B == {i.base[k] : k \in DOMAIN i.base}
             E == {i.ext[k] : k \in DOMAIN i.ext}
             A == B \cup E \cup {"."}
  <2>1. name \in Seq(B) /\ ext \in Seq(E) /\ Len(name) = m /\ (m > 0 => name[1] = i.base[1])
    BY <1>3, FrontOf
  <2> HIDE DEF name, ext, B, E, full
  <2>2. name \in Seq(A) /\ ext \in Seq(A) /\ <<".">> \in Seq(A)
    BY <2>1
  <2> HIDE DEF A
  <2>3. name \o <<".">> \o ext \in Seq(A)
    BY <2>2
  <2>4. full \in Seq(A)
    BY <1>4, <2>2, <2>3
  <2>5. m > 0 => full # <<>> /\ full[1] = name[1]
    <3> SUFFICES ASSUME m > 0 PROVE full # <<>> /\ full[1] = name[1]
      OBVIOUS
    <3>1. CASE n = 0
      BY <1>4, <2>1, <2>2, <3>1
    <3>2. CASE n # 0
      <4>1. name \o <<".">> \in Seq(A) /\ Len(name \o <<".">>) = m + 1 /\ (name \o <<".">>)[1] = name[1]
        BY <2>1, <2>2
      <4>2. full = (name \o <<".">>) \o ext
        BY <1>4, <3>2
      <4> HIDE DEF full
      <4>3. Len(full) = (m + 1) + Len(ext) /\ Len(ext) \in Nat /\ m \in Nat
        <5>1. Len(full) = Len(name \o <<".">>) + Len(ext) /\ Len(ext) \in Nat
          BY <2>2, <4>1, <4>2, ConcatProperties
        <5>2. m \in Nat
          BY <1>8
        <5> QED
          BY <4>1, <5>1, <5>2
      <4>4. 1 \in 1..Len(name \o <<".">>) + Len(ext) /\ 1 <= Len(name \o <<".">>)
        BY <4>1, <4>3
      <4>5. full[1] = (name \o <<".">>)[1]
        BY <2>2, <4>1, <4>2, <4>4, ConcatProperties
      <4>6. full # <<>>
        BY <4>3
      <4> QED
        BY <4>1, <4>5, <4>6
    <3> QED
      BY <3>1, <3>2
  <2> QED
    BY <2>1, <2>4, <2>5
<1>6. CASE i.kind = "deleted"
  <2>1. i.base[1] = "E5"
    BY <1>1, <1>6
  <2>2. ~(1 > m)
    BY <1>3, <2>1
  <2>3. m > 0
    BY <1>8, <2>2
  <2> HIDE DEF full
  <2>4. (\E C : full \in Seq(C)) /\ full # <<>> /\ full[1] = "E5"
    BY <1>5, <2>1, <2>3
  <2> QED
    BY <1>6, <2>4 DEF full
<1>7. CASE i.kind # "deleted"
  <2>1. IsString(i.called) /\ istrncmp(i.called, IF n = 0 THEN name ELSE name \o <<".">> \o ext)
    BY <1>1, <1>7
  <2> HIDE DEF full, name, ext
  <2>2. (\E C : full \in Seq(C)) /\ IsString(i.called) /\ istrncmp(i.called, full)
    BY <1>4, <1>5, <2>1
  <2> QED
    BY <1>7, <2>2 DEF full
<1> QED
  BY <1>6, <1>7

\* The name of a file and a part of a path are compared as the names that were meant are;
\* a deleted entry has none of them.
LEMMA SameName ==
  ASSUME NEW i, NamedAs(i), NEW part \in Parts
  PROVE  istrncmp(fat16_get_full_relative_filename(i), part)
           <=> i.kind # "deleted" /\ istrncmp(i.called, part)
<1> DEFINE full == fat16_get_full_relative_filename(i)
<1>1. PICK C : full \in Seq(C)
  BY FullName
<1>2. /\ IF i.kind = "deleted" THEN full # <<>> /\ full[1] = "E5"
         ELSE IsString(i.called) /\ istrncmp(i.called, full)
  BY FullName
<1>3. IsString(part) /\ \A k \in DOMAIN part : part[k] # "E5"
  BY NamesAssumption
<1> HIDE DEF full
<1>4. /\ Len(full) \in Nat /\ DOMAIN full = 1..Len(full)
      /\ Len(part) \in Nat /\ DOMAIN part = 1..Len(part)
  BY <1>1, <1>3, StringIs
<1>5. CASE i.kind = "deleted"
  <2>1. Len(full) # 0
    BY <1>1, <1>2, <1>5
  <2>2. ASSUME istrncmp(full, part) PROVE FALSE
    <3>1. 1 \in DOMAIN full /\ 1 \in DOMAIN part
      BY <1>4, <2>1, <2>2 DEF istrncmp
    <3>2. tolower("E5") = tolower(part[1]) /\ part[1] # "E5"
      BY <1>2, <1>3, <1>5, <2>2, <3>1 DEF istrncmp
    <3> QED
      BY <3>2 DEF tolower, Lower
  <2> QED
    BY <1>5, <2>2 DEF full
<1>6. CASE i.kind # "deleted"
  <2>1. IsString(i.called) /\ istrncmp(i.called, full)
    BY <1>2, <1>6
  <2>2. /\ Len(i.called) = Len(full) /\ DOMAIN i.called = 1..Len(full)
        /\ \A k \in 1..Len(full) : tolower(i.called[k]) = tolower(full[k])
    BY <2>1, StringIs DEF istrncmp
  <2>3. istrncmp(full, part) <=> istrncmp(i.called, part)
    BY <1>4, <2>2 DEF istrncmp
  <2> QED
    BY <1>6, <2>3 DEF full
<1> QED
  BY <1>5, <1>6

\* Names that are the same as a part are the same.
LEMMA SamePart ==
  ASSUME NEW s, NEW t, NEW part, IsString(s), IsString(t), istrncmp(s, part), istrncmp(t, part)
  PROVE  istrncmp(s, t)
BY StringIs DEF istrncmp

\* fat16_find_item_in_directory finds the entry that is meant, or none where one in use is
\* behind a deleted one.
LEMMA FindsEntry ==
  ASSUME NEW d, NEW dir, Loaded(d, dir), volume \in Volumes, NEW part \in Parts
  PROVE  LET found == fat16_find_item_in_directory(dir, part)
         IN found = EntryIn(volume, d, part) \/ (found = NULL /\ ~Tidy(d))
<1> DEFINE found == fat16_find_item_in_directory(dir, part)
           has(k) == istrncmp(fat16_get_full_relative_filename(volume[d][k]), part)
           meant(k) == volume[d][k].kind # "deleted" /\ istrncmp(volume[d][k].called, part)
           called == {k \in 1..Len(volume[d]) : /\ volume[d][k].kind # "deleted"
                                                /\ istrncmp(volume[d][k].called, part)}
<1>1. \/ found = NULL /\ \A k \in 1..dir.total : ~has(k)
      \/ \E k \in 1..dir.total : k \in 1..Len(volume[d]) /\ found = volume[d][k] /\ has(k)
  BY FoundIs
<1>2. /\ d \in DOMAIN volume /\ Len(volume[d]) \in Nat /\ dir.total \in 0..Len(volume[d])
      /\ \A k \in 1..Len(volume[d]) : volume[d][k] \in Entries(volume)
      /\ Tidy(d) => \A k \in 1..Len(volume[d]) : volume[d][k].kind # "deleted" => k <= dir.total
  BY VolumeIs DEF Loaded, AllOf, AllCounted
<1>3. \A k \in 1..Len(volume[d]) : NamedAs(volume[d][k]) /\ (has(k) <=> meant(k))
  BY <1>2, SameName, NamesAssumption
<1>4. \A k \in 1..Len(volume[d]) : k \in called <=> has(k)
  BY <1>3
<1>5. ASSUME NEW j \in called, NEW k \in called PROVE j = k
  <2>1. IsString(volume[d][j].called) /\ IsString(volume[d][k].called)
    BY <1>3, FullName
  <2>2. istrncmp(volume[d][j].called, volume[d][k].called)
    BY <2>1, SamePart
  <2>3. NamedOnce(volume, d)
    BY <1>2, NamesAssumption
  <2> QED
    BY <2>2, <2>3 DEF NamedOnce
<1>6. EntryIn(volume, d, part) = IF called = {} THEN NULL ELSE volume[d][CHOOSE k \in called : TRUE]
  BY DEF EntryIn
<1>7. called \subseteq 1..Len(volume[d])
  OBVIOUS
<1> HIDE DEF found, has, meant, called
<1>8. CASE found = NULL /\ \A k \in 1..dir.total : ~has(k)
  <2>1. CASE called = {}
    BY <1>6, <1>8, <2>1 DEF found
  <2>2. CASE called # {}
    <3>1. PICK k \in called : TRUE
      BY <2>2
    <3>2. k \in 1..Len(volume[d]) /\ has(k) /\ k \notin 1..dir.total
      BY <1>4, <1>7, <1>8, <3>1
    <3>3. volume[d][k].kind # "deleted"
      BY <1>3, <3>2 DEF meant
    <3>4. ~(k <= dir.total)
      BY <1>2, <3>2
    <3> QED
      BY <1>2, <1>8, <3>2, <3>3, <3>4 DEF found
  <2> QED
    BY <2>1, <2>2
<1>9. ASSUME NEW k \in 1..dir.total, k \in 1..Len(volume[d]), found = volume[d][k], has(k)
      PROVE  found = EntryIn(volume, d, part)
  <2>1. k \in called
    BY <1>4, <1>9
  <2>2. (CHOOSE j \in called : TRUE) = k
    BY <1>5, <2>1
  <2> QED
    BY <1>6, <1>9, <2>1, <2>2
<1> QED
  BY <1>1, <1>8, <1>9 DEF found

\* The parts of a path mean entries one after the other.
LEMMA MeantOf ==
  ASSUME NEW v, NEW p, Len(p) \in Nat \ {0}, NEW n \in 1..Len(p)
  PROVE  MeantIn(v, p, n) =
           IF n = 1 THEN EntryIn(v, ROOT, p[1])
           ELSE IF MeantIn(v, p, n - 1).kind = "directory"
                THEN EntryIn(v, MeantIn(v, p, n - 1).cluster, p[n]) ELSE NULL
<1> DEFINE L == Len(p)
           Step(f, k) == IF k = 1 THEN EntryIn(v, ROOT, p[1])
                         ELSE IF f[k - 1].kind = "directory"
                              THEN EntryIn(v, f[k - 1].cluster, p[k]) ELSE NULL
           Is(f, m) == f = [k \in 1..m |-> Step(f, k)]
           h == CHOOSE f : Is(f, L)
<1>1. \A k : MeantIn(v, p, k) = h[k]
  BY DEF MeantIn
<1>2. \E f : Is(f, L)
  <2> SUFFICES ASSUME ~\E f : Is(f, L) PROVE FALSE
    OBVIOUS
  <2> DEFINE bad == {m \in 1..L : ~\E f : Is(f, m)}
  <2>1. bad \subseteq Nat /\ bad # {}
    OBVIOUS
  <2> HIDE DEF bad
  <2>2. PICK m \in bad : \A y \in bad : m <= y
    BY <2>1, LeastNumber
  <2>3. m \in 1..L /\ ~\E f : Is(f, m)
    BY <2>2 DEF bad
  <2>4. CASE m = 1
    <3> DEFINE g == [k \in 1..1 |-> EntryIn(v, ROOT, p[1])]
    <3>1. Is(g, 1)
      OBVIOUS
    <3> QED
      BY <2>3, <2>4, <3>1
  <2>5. CASE m # 1
    <3>1. m - 1 \in 1..L /\ m - 1 \notin bad
      BY <2>2, <2>3, <2>5
    <3>2. PICK f : Is(f, m - 1)
      BY <3>1 DEF bad
    <3> DEFINE g == [k \in 1..m |-> IF k = m THEN Step(f, m) ELSE f[k]]
    <3>3. f = [k \in 1..m-1 |-> Step(f, k)]
      BY <3>2
    <3>4. \A k \in 1..m : g[k] = Step(g, k)
      <4> SUFFICES ASSUME NEW k \in 1..m PROVE g[k] = Step(g, k)
        OBVIOUS
      <4>0. \A j \in 1..m : g[j] = IF j = m THEN Step(f, m) ELSE f[j]
        OBVIOUS
      <4>6. m \in Nat
        BY <2>3
      <4> HIDE DEF g, Step
      <4>1. k # 1 => k - 1 \in 1..m /\ k - 1 # m /\ g[k-1] = f[k-1]
        BY <4>0, <4>6
      <4>2. Step(g, k) = Step(f, k)
        BY <4>1 DEF Step
      <4>3. CASE k = m
        BY <4>0, <4>2, <4>3
      <4>4. CASE k # m
        <5>1. k \in 1..m-1 /\ g[k] = f[k]
          BY <4>0, <4>4, <4>6
        <5>2. f[k] = Step(f, k)
          BY <3>3, <5>1
        <5> QED
          BY <4>2, <5>1, <5>2
      <4> QED
        BY <4>3, <4>4
    <3>5. Is(g, m)
      <4>1. g = [k \in 1..m |-> g[k]]
        OBVIOUS
      <4> HIDE DEF g, Step
      <4> QED
        BY <3>4, <4>1
    <3> QED
      <4> HIDE DEF g, Is
      <4> QED
        BY <2>3, <3>5
  <2> QED
    BY <2>4, <2>5
<1>3. Is(h, L)
  <2> HIDE DEF Is
  <2> QED
    BY <1>2, Zenon
<1> HIDE DEF h
<1>4. h = [k \in 1..L |-> Step(h, k)]
  BY <1>3
<1>5. h[n] = Step(h, n)
  <2> HIDE DEF Step
  <2> QED
    BY <1>4
<1> QED
  BY <1>1, <1>5

\* Behind a part that means no directory, a path means nothing.
LEMMA NothingBeyond ==
  ASSUME NEW v, NEW p, Len(p) \in Nat \ {0}, NEW a \in 1..Len(p), MeantIn(v, p, a).kind # "directory",
         NEW n \in 1..Len(p), a < n
  PROVE  MeantIn(v, p, n) = NULL
<1> SUFFICES ASSUME MeantIn(v, p, n) # NULL PROVE FALSE
  OBVIOUS
<1> DEFINE bad == {m \in 1..Len(p) : a < m /\ MeantIn(v, p, m) # NULL}
<1>1. bad \subseteq Nat /\ bad # {}
  OBVIOUS
<1> HIDE DEF bad
<1>2. PICK m \in bad : \A y \in bad : m <= y
  BY <1>1, LeastNumber
<1>3. m \in 1..Len(p) /\ a < m /\ MeantIn(v, p, m) # NULL
  BY <1>2 DEF bad
<1>4. m - 1 \in 1..Len(p) /\ m # 1 /\ m - 1 \notin bad
  BY <1>2, <1>3
<1>5. MeantIn(v, p, m - 1).kind # "directory"
  <2>1. CASE m - 1 = a
    BY <2>1
  <2>2. CASE m - 1 # a
    <3>1. MeantIn(v, p, m - 1) = NULL
      BY <1>3, <1>4, <2>2 DEF bad
    <3> QED
      BY <3>1 DEF NULL
  <2> QED
    BY <2>1, <2>2
<1> QED
  BY <1>3, <1>4, <1>5, MeantOf

\* Nothing is looked up while a directory is counted or read.
LEMMA KeepsPath ==
  ASSUME FollowsPath, UNCHANGED <<volume, path, asked, item>>, Opening' => Opening,
         pc # "find", pc' # "find", pc' = "opened" => path = <<>>
  PROVE  FollowsPath'
<1> SUFFICES ASSUME Opening PROVE FollowsPath'
  BY DEF FollowsPath
<1>1. /\ asked \in Paths /\ path \in Seq(Parts) /\ Len(path) <= Len(asked)
      /\ \A k \in 1..Len(path) : path[k] = asked[LookedUp + k]
      /\ LookedUp > 0 /\ (item = MeantIn(volume, asked, LookedUp) \/ (item = NULL /\ Untidy))
  BY DEF FollowsPath
<1>2. LookedUp' = LookedUp /\ (Untidy => Untidy')
  BY DEF LookedUp, Untidy, Tidy
<1> QED
  BY <1>1, <1>2 DEF FollowsPath

\* fat16_open begins with the root directory and the whole path.
LEMMA OpenBegins ==
  ASSUME NEW p \in Paths, Open(p)
  PROVE  FollowsPath'
<1>1. pc' = "find" /\ path' = p /\ asked' = p /\ item' = NULL
  BY DEF Open
<1>2. p \in Seq(Parts) /\ p # <<>> /\ Len(p) \in Nat
  BY NamesAssumption
<1>3. LookedUp' = 0
  BY <1>1, <1>2 DEF LookedUp
<1>4. \A k \in 1..Len(p) : p[k] = p[0 + k]
  BY <1>2
<1> QED
  BY <1>1, <1>2, <1>3, <1>4 DEF FollowsPath

\* A part is looked up in the directory that the parts before it mean.
LEMMA FindFollows ==
  ASSUME FileInv, FollowsPath, Find
  PROVE  FollowsPath'
<1> DEFINE found == fat16_find_item_in_directory(directory, path[1])
           d == IF item = NULL THEN ROOT ELSE item.cluster
           n == LookedUp + 1
<1>1. /\ pc = "find" /\ item' = found /\ path' = Tail(path) /\ pc' \in {"count", "found"}
      /\ UNCHANGED <<volume, asked>>
  BY DEF Find, CountFrom
<1>2. /\ asked \in Paths /\ path \in Seq(Parts) /\ Len(path) <= Len(asked) /\ path # <<>>
      /\ \A k \in 1..Len(path) : path[k] = asked[LookedUp + k]
      /\ IF item = NULL THEN LookedUp = 0
         ELSE LookedUp > 0 /\ item = MeantIn(volume, asked, LookedUp)
  BY <1>1 DEF FollowsPath, Opening
<1>3. /\ Loaded(d, directory) /\ (item # NULL => item.kind = "directory")
      /\ volume \in Volumes /\ d \in DOMAIN volume
  BY <1>1 DEF FileInv, FileTypes, SearchesDirectory, Loaded
<1>4. /\ Len(path) \in Nat \ {0} /\ Len(asked) \in Nat \ {0} /\ LookedUp = Len(asked) - Len(path)
      /\ LookedUp \in Nat /\ n \in 1..Len(asked)
  <2>1. asked \in Seq(Parts)
    BY <1>2, NamesAssumption
  <2>2. Len(asked) \in Nat /\ Len(path) \in Nat \ {0}
    BY <1>2, <2>1
  <2> QED
    BY <1>2, <2>2 DEF LookedUp
<1>5. path[1] = asked[n] /\ path[1] \in Parts
  BY <1>2, <1>4
<1>6. found = EntryIn(volume, d, asked[n]) \/ (found = NULL /\ ~Tidy(d))
  BY <1>3, <1>5, FindsEntry
<1> HIDE DEF found
<1>7. MeantIn(volume, asked, n) = EntryIn(volume, d, asked[n])
  <2>1. CASE item = NULL
    <3>1. n = 1 /\ d = ROOT
      BY <1>2, <2>1
    <3> HIDE DEF n, d
    <3> QED
      BY <1>4, <3>1, MeantOf
  <2>2. CASE item # NULL
    <3>1. n # 1 /\ n - 1 = LookedUp /\ d = item.cluster
      BY <1>2, <1>4, <2>2
    <3>2. MeantIn(volume, asked, n - 1) = item /\ item.kind = "directory"
      BY <1>2, <1>3, <2>2, <3>1
    <3> HIDE DEF n, d
    <3> QED
      BY <1>4, <3>1, <3>2, MeantOf
  <2> QED
    BY <2>1, <2>2
<1>8. item' = MeantIn(volume, asked, n) \/ (item' = NULL /\ Untidy)
  BY <1>1, <1>3, <1>6, <1>7 DEF Untidy
<1>9. /\ path' \in Seq(Parts) /\ Len(path') = Len(path) - 1
      /\ \A k \in 1..Len(path') : path'[k] = path[k + 1]
  BY <1>1, <1>2, <1>4
<1>10. LookedUp' = n /\ (Untidy => Untidy')
  BY <1>1, <1>4, <1>9 DEF LookedUp, Untidy, Tidy
<1>11. ASSUME NEW k \in 1..Len(path') PROVE path'[k] = asked[n + k]
  <2>1. k + 1 \in 1..Len(path) /\ LookedUp + (k + 1) = n + k
    BY <1>4, <1>9
  <2> QED
    BY <1>2, <1>9, <2>1
<1>12. Len(path') <= Len(asked) /\ n > 0
  BY <1>2, <1>4, <1>9
<1> HIDE DEF n, d
<1> QED
  BY <1>1, <1>2, <1>8, <1>9, <1>10, <1>11, <1>12 DEF FollowsPath

\* Where there is no next part to look up, the path means nothing.
LEMMA NextFollows ==
  ASSUME FollowsPath, NextPart \/ NextPartOfNothing
  PROVE  FollowsPath'
<1>1. pc = "found" /\ path # <<>> /\ UNCHANGED <<volume, asked>>
  BY DEF NextPart, NextPartOfNothing
<1>2. /\ asked \in Paths /\ path \in Seq(Parts) /\ Len(path) <= Len(asked)
      /\ \A k \in 1..Len(path) : path[k] = asked[LookedUp + k]
      /\ LookedUp > 0 /\ (item = MeantIn(volume, asked, LookedUp) \/ (item = NULL /\ Untidy))
  BY <1>1 DEF FollowsPath, Opening
<1>3. /\ Len(path) \in Nat \ {0} /\ Len(asked) \in Nat \ {0} /\ LookedUp = Len(asked) - Len(path)
      /\ LookedUp \in 1..Len(asked) /\ LookedUp < Len(asked) /\ Len(asked) \in 1..Len(asked)
  <2>1. asked \in Seq(Parts)
    BY <1>2, NamesAssumption
  <2>2. Len(asked) \in Nat /\ Len(path) \in Nat \ {0}
    BY <1>1, <1>2, <2>1
  <2> QED
    BY <1>2, <2>2 DEF LookedUp
<1>4. Untidy => Untidy'
  BY <1>1 DEF Untidy, Tidy
<1>5. ASSUME item.kind # "directory", item' = NULL, path' = <<>>, pc' # "find"
      PROVE  FollowsPath'
  <2>1. Len(path') = 0 /\ path' \in Seq(Parts) /\ LookedUp' = Len(asked)
    BY <1>1, <1>3, <1>5 DEF LookedUp
  <2>2. MeantIn(volume, asked, Len(asked)) = NULL \/ Untidy
    <3> SUFFICES ASSUME ~Untidy PROVE MeantIn(volume, asked, Len(asked)) = NULL
      OBVIOUS
    <3>1. MeantIn(volume, asked, LookedUp).kind # "directory"
      BY <1>2, <1>5
    <3> QED
      BY <1>3, <3>1, NothingBeyond
  <2>3. /\ asked' \in Paths /\ Len(path') <= Len(asked') /\ LookedUp' > 0
        /\ \A k \in 1..Len(path') : path'[k] = asked'[LookedUp' + k]
    BY <1>1, <1>2, <1>3, <2>1
  <2>4. item' = MeantIn(volume', asked', LookedUp') \/ (item' = NULL /\ Untidy')
    BY <1>1, <1>4, <1>5, <2>1, <2>2
  <2> QED
    BY <1>5, <2>1, <2>3, <2>4 DEF FollowsPath
<1>6. CASE NextPart /\ item.kind = "directory"
  <2>1. item # NULL /\ pc' = "find" /\ UNCHANGED <<item, path>>
    BY <1>6 DEF NextPart
  <2>2. LookedUp' = LookedUp
    BY <1>1, <2>1 DEF LookedUp
  <2> QED
    BY <1>1, <1>2, <1>4, <2>1, <2>2 DEF FollowsPath
<1>7. CASE NextPart /\ item.kind # "directory"
  BY <1>5, <1>7 DEF NextPart
<1>8. CASE NextPartOfNothing
  BY <1>5, <1>8 DEF NextPartOfNothing, NULL
<1> QED
  BY <1>6, <1>7, <1>8

\* What was found so far is what the path means so far.
THEOREM LookupFollowsThePath == Spec => []FollowsPath
<1>1. Init => FollowsPath
  BY DEF Init, FollowsPath, Opening, Transfers
<1>2. FileInv /\ FollowsPath /\ [Next]_vars => FollowsPath'
  <2> SUFFICES ASSUME FileInv, FollowsPath, [Next]_vars PROVE FollowsPath'
    OBVIOUS
  <2>1. CASE ReadSector \/ CountItem \/ DirectoryCounted \/ DirectoryRead \/ ReadCluster
             \/ ReadFails \/ ClusterDone \/ Opened
    <3>1. UNCHANGED <<volume, path, asked, item>>
      BY <2>1 DEF ReadSector, CountItem, DirectoryCounted, DirectoryRead, ReadCluster, ReadFails,
         ClusterDone, Opened, opening, file
    <3>2. pc # "find" /\ pc' # "find" /\ (pc' = "opened" => path = <<>>)
      BY <2>1 DEF ReadSector, CountItem, Counted, CountEnds, DirectoryCounted, DirectoryRead,
         ReadCluster, ReadFails, ClusterDone, Opened
    <3>3. Opening' => Opening
      BY <2>1 DEF Opening, Transfers, ReadSector, CountItem, Counted, CountEnds, DirectoryCounted,
         DirectoryRead, ReadCluster, ReadFails, ClusterDone, Opened, opening, reading
    <3> QED
      BY <3>1, <3>2, <3>3, KeepsPath
  <2>2. CASE Resolve \/ RootCounted \/ RootRead \/ Refused \/ Accepted \/ Close \/ Return
             \/ Undefined \/ \E mode \in {"SEEK_SET", "SEEK_CUR"}, o \in SeekOffsets : Seek(mode, o)
    <3>1. \/ pc' \in {"root", "ready", "undefined"}
          \/ pc' = "count" /\ cluster' = ROOT
      BY <2>2 DEF Resolve, CountFrom, RootCounted, RootRead, Refused, Accepted, Close, Return,
         Undefined, Seek, vars
    <3> QED
      BY <3>1 DEF FollowsPath, Opening, Transfers
  <2>3. CASE \E n \in Sizes : Read(n)
    <3>1. pc' = "cluster" /\ item'.kind = "file"
      BY <2>3 DEF Read, opening, FileInv, FileTypes
    <3> QED
      BY <3>1 DEF FollowsPath, Opening
  <2>4. CASE \E p \in Paths : Open(p)
    BY <2>4, OpenBegins
  <2>5. CASE Find
    BY <2>5, FindFollows
  <2>6. CASE NextPart \/ NextPartOfNothing
    BY <2>6, NextFollows
  <2>7. CASE UNCHANGED vars
    <3>1. UNCHANGED <<volume, pc, cluster, path, asked, item>>
      BY <2>7 DEF vars, reading, opening
    <3>2. LookedUp' = LookedUp /\ (Opening' => Opening) /\ (Untidy => Untidy')
      BY <3>1 DEF LookedUp, Opening, Transfers, Untidy, Tidy
    <3> QED
      BY <3>1, <3>2 DEF FollowsPath
  <2> QED
    BY <2>1, <2>2, <2>3, <2>4, <2>5, <2>6, <2>7 DEF Next, Work, Calls
<1> QED
  BY <1>1, <1>2, FileInvariant, PTL DEF Spec

\* fat16_open: the entry a path opens is the one it means, in any case of its letters, or
\* none; none where there is one only if a directory is untidy.
THEOREM OpensMeantEntry == Spec => []OpensWhatIsMeant
<1>1. \A p : Meant(p) = MeantIn(volume, p, Len(p))
  BY DEF Meant, MeantIn, Entry, EntryIn
<1>2. FollowsPath => OpensWhatIsMeant
  <2> SUFFICES ASSUME FollowsPath, pc = "opened"
               PROVE  item = Meant(asked) \/ (item = NULL /\ Untidy)
    BY DEF OpensWhatIsMeant, Untidy
  <2>1. /\ path = <<>> /\ asked \in Paths
        /\ item = MeantIn(volume, asked, LookedUp) \/ (item = NULL /\ Untidy)
    BY DEF FollowsPath, Opening
  <2>2. asked \in Seq(Parts)
    BY <2>1, NamesAssumption
  <2>3. LookedUp = Len(asked)
    BY <2>1, <2>2 DEF LookedUp
  <2> QED
    BY <1>1, <2>1, <2>3
<1> QED
  BY <1>2, LookupFollowsThePath, PTL

==============================================================================
