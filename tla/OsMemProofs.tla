----------------------------- MODULE OsMemProofs -----------------------------
(***************************************************************************)
(* The allocator's heap stays tiled by its blocks, and these stay what the *)
(* caller's pointers stand for, whatever is called and however the prev    *)
(* pointers and list_tail grow stale.                                      *)
(***************************************************************************)
EXTENDS OsMem, SequenceTheorems, SetLemmas, TLAPS

(* Multiples of the alignment.                                             *)
LEMMA RemainderIs ==
  ASSUME NEW q \in Int, NEW r \in Int, NEW n \in Nat \ {0}, 0 <= r, r < n
  PROVE  (n * q + r) % n = r
OBVIOUS

LEMMA MultipleIs == ASSUME NEW q \in Int, NEW n \in Nat \ {0} PROVE (n * q) % n = 0
OBVIOUS

LEMMA Quotient ==
  ASSUME NEW a \in Int, NEW n \in Nat \ {0}
  PROVE  \E q \in Int : n * q \in Int /\ a % n = a - n * q
<1> DEFINE q == a \div n
           p == n * q
<1>1. q \in Int /\ p \in Int
  OBVIOUS
<1>2. p <= a /\ a < p + n
  OBVIOUS
<1>3. p = n * q
  OBVIOUS
<1> HIDE DEF q, p
<1>4. a = p + (a - p) /\ a - p \in Int /\ 0 <= a - p /\ a - p < n
  BY <1>1, <1>2
<1>5. a % n = a - p
  <2> DEFINE r == a - p
  <2>1. r \in Int /\ 0 <= r /\ r < n /\ a = p + r
    BY <1>4
  <2> HIDE DEF r
  <2>2. (n * q + r) % n = r
    BY <2>1, <1>1, RemainderIs
  <2>3. a % n = r
    BY <2>1, <2>2, <1>3, Zenon
  <2> QED  BY <2>3 DEF r
<1> QED  BY <1>1, <1>3, <1>5, Zenon

LEMMA Multiple ==
  ASSUME NEW a \in Int, NEW n \in Nat \ {0}, a % n = 0 PROVE \E q \in Int : a = n * q
<1>1. PICK q \in Int : n * q \in Int /\ a % n = a - n * q
  BY Quotient, Zenon
<1>2. a - n * q = 0
  BY <1>1, Zenon
<1>3. ASSUME NEW x \in Int, NEW y \in Int, x - y = 0 PROVE x = y
  BY <1>3
<1>4. a = n * q
  BY <1>1, <1>2, <1>3, Zenon
<1> QED  BY <1>1, <1>4, Zenon

LEMMA SumIsMultiple ==
  ASSUME NEW a \in Int, NEW b \in Int, NEW n \in Nat \ {0}, a % n = 0, b % n = 0
  PROVE  (a + b) % n = 0 /\ (a - b) % n = 0
<1>1. PICK p \in Int : a = n * p
  BY Multiple, Zenon
<1>2. PICK q \in Int : b = n * q
  BY Multiple, Zenon
<1>3. /\ n * p + n * q = n * (p + q) /\ n * p - n * q = n * (p - q)
      /\ p + q \in Int /\ p - q \in Int
  BY <1>1, <1>2
<1>4. a + b = n * (p + q) /\ a - b = n * (p - q)
  BY <1>1, <1>2, <1>3, Zenon
<1>5. (n * (p + q)) % n = 0 /\ (n * (p - q)) % n = 0
  BY <1>3, MultipleIs
<1> QED  BY <1>4, <1>5, Zenon

LEMMA PaddedIs ==
  ASSUME NEW a \in Nat
  PROVE  Padded(a) \in Nat /\ a <= Padded(a) /\ Padded(a) < a + Align /\ Padded(a) % Align = 0
<1>1. Align \in Nat \ {0} /\ a \in Int
  BY MemAssumption
<1>2. PICK q \in Int : Align * q \in Int /\ a % Align = a - Align * q
  BY <1>1, Quotient, Zenon
<1>3. a % Align \in 0..(Align - 1)
  BY <1>1
<1>4. CASE a % Align = 0
  BY <1>1, <1>4 DEF Padded, padding
<1>5. CASE a % Align # 0
  <2>1. Padded(a) = a + (Align - (a % Align))
    BY <1>5 DEF Padded, padding
  <2>2. ASSUME NEW y \in Int PROVE a + (Align - (a - y)) = y + Align
    BY <1>1
  <2>3. Padded(a) = Align * q + Align
    BY <1>2, <2>1, <2>2, Zenon
  <2>4. Align * q + Align = Align * (q + 1) /\ q + 1 \in Int
    BY <1>1, <1>2
  <2>5. (Align * (q + 1)) % Align = 0
    BY <1>1, <2>4, MultipleIs
  <2>6. Padded(a) % Align = 0
    BY <2>3, <2>4, <2>5, Zenon
  <2>7. Padded(a) \in Nat /\ a <= Padded(a) /\ Padded(a) < a + Align
    <3> DEFINE r == a % Align
    <3>1. r \in 0..(Align - 1) /\ r # 0 /\ Padded(a) = a + (Align - r)
      BY <1>3, <1>5, <2>1
    <3> HIDE DEF r
    <3> QED  BY <3>1, <1>1
  <2> QED  BY <2>6, <2>7
<1> QED  BY <1>4, <1>5

LEMMA HeaderIs == Header \in Nat \ {0} /\ Header % Align = 0 /\ Header < MmapThreshold
<1>1. MetaSize \in Nat \ {0} /\ Align \in Nat \ {0} /\ MetaSize + Align <= MmapThreshold /\ MmapThreshold \in Nat
  BY MemAssumption
<1>2. Header = Padded(MetaSize)
  BY DEF Header, Padded
<1>3. Padded(MetaSize) \in Nat /\ MetaSize <= Padded(MetaSize) /\ Padded(MetaSize) < MetaSize + Align
      /\ Padded(MetaSize) % Align = 0
  BY <1>1, PaddedIs
<1> HIDE DEF Header
<1> QED  BY <1>1, <1>2, <1>3

-----------------------------------------------------------------------------
(* The list without one block, and with one more.                          *)
LEMMA RemoveAtIs ==
  ASSUME NEW T, NEW l \in Seq(T), NEW i \in 1..Len(l)
  PROVE  /\ RemoveAt(l, i) \in Seq(T) /\ Len(RemoveAt(l, i)) = Len(l) - 1
         /\ \A j \in 1..(Len(l) - 1) : RemoveAt(l, i)[j] = IF j < i THEN l[j] ELSE l[j + 1]
<1> DEFINE a == SubSeq(l, 1, i - 1)
           b == SubSeq(l, i + 1, Len(l))
<1>1. Len(l) \in Nat /\ i \in Nat /\ 1 <= i /\ i <= Len(l)
  OBVIOUS
<1>2. a \in Seq(T) /\ Len(a) = i - 1 /\ \A j \in 1..(i - 1) : a[j] = l[j]
  BY <1>1, SubSeqProperties
<1>3. b \in Seq(T) /\ Len(b) = Len(l) - i /\ \A j \in 1..(Len(l) - i) : b[j] = l[i + j]
  BY <1>1, SubSeqProperties
<1>4. RemoveAt(l, i) = a \o b
  BY DEF RemoveAt
<1> HIDE DEF a, b
<1>5. a \o b \in Seq(T) /\ Len(a \o b) = Len(l) - 1
  <2>1. a \o b \in Seq(T) /\ Len(a \o b) = Len(a) + Len(b)
    BY <1>2, <1>3, ConcatProperties
  <2>2. (i - 1) + (Len(l) - i) = Len(l) - 1
    BY <1>1
  <2> QED  BY <2>1, <2>2, <1>2, <1>3
<1>6. ASSUME NEW j \in 1..(Len(l) - 1) PROVE (a \o b)[j] = IF j < i THEN l[j] ELSE l[j + 1]
  <2>1. CASE j < i
    BY <2>1, <1>1, <1>2, <1>3
  <2>2. CASE ~(j < i)
    <3>1. j - (i - 1) \in 1..(Len(l) - i) /\ i + (j - (i - 1)) = j + 1
      BY <2>2, <1>1
    <3>2. (a \o b)[j] = b[j - (i - 1)]
      BY <2>2, <3>1, <1>1, <1>2, <1>3
    <3> QED  BY <2>2, <3>1, <3>2, <1>3
  <2> QED  BY <2>1, <2>2
<1> QED  BY <1>4, <1>5, <1>6

LEMMA InsertAtIs ==
  ASSUME NEW l \in Seq(BlockType), NEW i \in 1..(Len(l) + 1), NEW e \in BlockType
  PROVE  /\ InsertAt(l, i, e) \in Seq(BlockType) /\ Len(InsertAt(l, i, e)) = Len(l) + 1
         /\ InsertAt(l, i, e)[i] = e
         /\ \A j \in 1..(i - 1) : InsertAt(l, i, e)[j] = l[j]
         /\ \A j \in (i + 1)..(Len(l) + 1) : InsertAt(l, i, e)[j] = l[j - 1]
<1> DEFINE a == SubSeq(l, 1, i - 1)
           b == SubSeq(l, i, Len(l))
           c == a \o <<e>>
<1>1. Len(l) \in Nat /\ i \in Nat /\ 1 <= i /\ i <= Len(l) + 1
  OBVIOUS
<1>2. a \in Seq(BlockType) /\ Len(a) = i - 1 /\ \A j \in 1..(i - 1) : a[j] = l[j]
  BY <1>1, SubSeqProperties
<1>3. b \in Seq(BlockType) /\ Len(b) = Len(l) - i + 1 /\ \A j \in 1..(Len(l) - i + 1) : b[j] = l[i + j - 1]
  BY <1>1, SubSeqProperties
<1>4. InsertAt(l, i, e) = c \o b
  BY DEF InsertAt
<1> HIDE DEF a, b
<1>5. c \in Seq(BlockType) /\ Len(c) = i /\ c[i] = e /\ \A j \in 1..(i - 1) : c[j] = l[j]
  BY <1>1, <1>2
<1> HIDE DEF c
<1>6. c \o b \in Seq(BlockType) /\ Len(c \o b) = Len(l) + 1
  BY <1>1, <1>3, <1>5
<1>7. ASSUME NEW j \in 1..i PROVE (c \o b)[j] = c[j]
  BY <1>1, <1>3, <1>5
<1>8. ASSUME NEW j \in (i + 1)..(Len(l) + 1) PROVE (c \o b)[j] = l[j - 1]
  <2>1. j - i \in 1..(Len(l) - i + 1) /\ i + (j - i) - 1 = j - 1
    BY <1>1
  <2>2. (c \o b)[j] = b[j - i]
    BY <2>1, <1>1, <1>3, <1>5
  <2> QED  BY <2>1, <2>2, <1>3
<1>9. ASSUME NEW j \in 1..(i - 1) PROVE (c \o b)[j] = l[j]
  BY <1>1, <1>5, <1>7
<1>10. (c \o b)[i] = e
  BY <1>1, <1>5, <1>7
<1> QED  BY <1>4, <1>6, <1>8, <1>9, <1>10

-----------------------------------------------------------------------------
(* A list l of blocks, up to their prev pointers.  Highest: x is where the *)
(* last of the first n blocks ends that is on the heap, 0 if none is.      *)
OnHeap(b) == b.status \in {"FREE", "ALLOC"}
Used(b) == b.status \in {"ALLOC", "MAPPED"}
Over(b) == b.addr + Header + b.size
Sound(b) == b.addr % Align = 0 /\ b.size % Align = 0 /\ b.size > 0

Highest(l, n, x) ==
  /\ \A j \in 1..n : OnHeap(l[j]) => Over(l[j]) <= x
  /\ x = 0 \/ \E j \in 1..n : OnHeap(l[j]) /\ Over(l[j]) = x

Tiled(l, top) ==
  /\ \A i \in 1..Len(l) : OnHeap(l[i]) => Sound(l[i]) /\ Highest(l, i - 1, l[i].addr)
  /\ Highest(l, Len(l), top)

(* The mappings have addresses of their own.                               *)
Away(l) ==
  \A i \in 1..Len(l) : ~OnHeap(l[i]) =>
    /\ l[i].addr \in MapAddrs
    /\ \A j \in 1..Len(l) : ~OnHeap(l[j]) /\ l[j].addr = l[i].addr => j = i

(* A block in use at the address a has room for n bytes.                   *)
Holds(l, a, n) == \E i \in 1..Len(l) : Used(l[i]) /\ l[i].addr = a /\ n <= l[i].size

Like(b, c) == b.addr = c.addr /\ b.size = c.size /\ b.status = c.status

LEMMA BlockIs ==
  ASSUME NEW b \in BlockType
  PROVE  /\ b.addr \in Nat /\ b.size \in Nat /\ Over(b) \in Nat /\ b.addr < Over(b)
         /\ b.status \in Statuses
  BY HeaderIs DEF BlockType, Over

LEMMA LikeIs ==
  ASSUME NEW b, NEW c, Like(b, c)
  PROVE  /\ OnHeap(b) <=> OnHeap(c)
         /\ Used(b) <=> Used(c)
         /\ Over(b) = Over(c) /\ b.addr = c.addr /\ b.size = c.size
         /\ Sound(b) <=> Sound(c)
  BY DEF Like, OnHeap, Used, Over, Sound

LEMMA TopIsMultiple ==
  ASSUME NEW l \in Seq(BlockType), NEW top \in Nat, Tiled(l, top)
  PROVE  top % Align = 0
<1>1. Align \in Nat \ {0} /\ Header \in Nat /\ Header % Align = 0
  BY MemAssumption, HeaderIs
<1>2. 0 % Align = 0
  BY <1>1
<1>3. ASSUME NEW i \in 1..Len(l), OnHeap(l[i]) PROVE Over(l[i]) % Align = 0
  <2>1. l[i] \in BlockType
    OBVIOUS
  <2>2. Sound(l[i])
    BY <1>3 DEF Tiled
  <2>3. l[i].addr \in Int /\ l[i].size \in Int /\ Header \in Int
    BY <2>1, <1>1, BlockIs
  <2>4. ASSUME NEW x \in Int, NEW y \in Int, NEW z \in Int, x % Align = 0, y % Align = 0, z % Align = 0
        PROVE  (x + y + z) % Align = 0
    <3>1. (x + y) % Align = 0
      BY <1>1, <2>4, SumIsMultiple, Zenon
    <3>2. x + y \in Int
      OBVIOUS
    <3> QED  BY <3>1, <3>2, <1>1, <2>4, SumIsMultiple, Zenon
  <2> QED  BY <1>1, <2>2, <2>3, <2>4 DEF Over, Sound
<1> QED  BY <1>2, <1>3 DEF Tiled, Highest

(* Blocks on the heap are in the order of their addresses.                 *)
LEMMA HeapInOrder ==
  ASSUME NEW l \in Seq(BlockType), NEW top \in Nat, Tiled(l, top),
         NEW i \in 1..Len(l), OnHeap(l[i])
  PROVE  /\ \A j \in 1..Len(l) : j < i /\ OnHeap(l[j]) => Over(l[j]) <= l[i].addr
         /\ Over(l[i]) <= top
<1>1. ASSUME NEW j \in 1..Len(l), j < i, OnHeap(l[j]) PROVE Over(l[j]) <= l[i].addr
  <2>1. j \in 1..(i - 1)
    BY <1>1
  <2> QED  BY <1>1, <2>1 DEF Tiled, Highest
<1> QED  BY <1>1 DEF Tiled, Highest

LEMMA AddressesDiffer ==
  ASSUME NEW l \in Seq(BlockType), NEW top \in 0..MaxBrk, Tiled(l, top), Away(l),
         NEW i \in 1..Len(l), NEW j \in 1..Len(l), l[i].addr = l[j].addr
  PROVE  i = j
<1>1. top \in Nat /\ MaxBrk \in Nat /\ \A a \in MapAddrs : a > MaxBrk /\ a \in Nat
  BY MemAssumption
<1>2. l[i] \in BlockType /\ l[j] \in BlockType
  OBVIOUS
<1>3. ASSUME NEW m \in 1..Len(l), NEW n \in 1..Len(l), OnHeap(l[m]), OnHeap(l[n]), m < n
      PROVE  l[m].addr < l[n].addr
  <2>1. Over(l[m]) <= l[n].addr
    BY <1>1, <1>3, HeapInOrder
  <2>2. l[m] \in BlockType /\ l[n] \in BlockType
    OBVIOUS
  <2> QED  BY <2>1, <2>2, BlockIs, SMTT(30)
<1>4. ASSUME NEW m \in 1..Len(l), OnHeap(l[m]) PROVE l[m].addr < top /\ l[m].addr \notin MapAddrs
  <2>1. Over(l[m]) <= top /\ l[m] \in BlockType
    BY <1>1, <1>4, HeapInOrder
  <2>2. l[m].addr < top
    BY <2>1, <1>1, BlockIs
  <2> QED  BY <2>1, <2>2, <1>1, BlockIs
<1>5. CASE OnHeap(l[i]) /\ OnHeap(l[j])
  <2>1. l[i].addr \in Nat
    BY <1>2, BlockIs
  <2> QED  BY <2>1, <1>3, <1>5
<1>6. CASE ~OnHeap(l[i]) \/ ~OnHeap(l[j])
  BY <1>4, <1>6 DEF Away
<1> QED  BY <1>5, <1>6

-----------------------------------------------------------------------------
(* The changes of the list, each with what it leaves tiled.                *)

(* Another status or prev, but on the heap as before.                      *)
SameShape(l, l2) ==
  /\ Len(l2) = Len(l)
  /\ \A i \in 1..Len(l) : /\ l2[i].addr = l[i].addr /\ l2[i].size = l[i].size
                          /\ OnHeap(l2[i]) <=> OnHeap(l[i])

LEMMA SameShapeTiled ==
  ASSUME NEW l \in Seq(BlockType), NEW l2 \in Seq(BlockType), SameShape(l, l2),
         NEW top, Tiled(l, top), Away(l)
  PROVE  Tiled(l2, top) /\ Away(l2)
<1>1. Len(l2) = Len(l) /\ Len(l) \in Nat
  BY DEF SameShape
<1>2. ASSUME NEW i \in 1..Len(l)
      PROVE  /\ l2[i].addr = l[i].addr /\ l2[i].size = l[i].size
             /\ OnHeap(l2[i]) <=> OnHeap(l[i])
             /\ Over(l2[i]) = Over(l[i])
             /\ Sound(l2[i]) <=> Sound(l[i])
  BY DEF SameShape, Over, Sound
<1>3. ASSUME NEW n \in 0..Len(l), NEW x, Highest(l, n, x) PROVE Highest(l2, n, x)
  <2>1. \A j \in 1..n : j \in 1..Len(l)
    BY <1>1
  <2> QED  BY <2>1, <1>2, <1>3 DEF Highest
<1>4. \A i \in 1..Len(l) : i - 1 \in 0..Len(l)
  BY <1>1
<1>5. Len(l) \in 0..Len(l)
  BY <1>1
<1>6. Tiled(l2, top)
  BY <1>1, <1>2, <1>3, <1>4, <1>5 DEF Tiled
<1>7. Away(l2)
  BY <1>1, <1>2 DEF Away
<1> QED  BY <1>6, <1>7

(* A new mapping behind the list.                                          *)
LEMMA AppendedMapping ==
  ASSUME NEW l \in Seq(BlockType), NEW b \in BlockType, ~OnHeap(b), b.addr \in MapAddrs,
         \A i \in 1..Len(l) : ~OnHeap(l[i]) => l[i].addr # b.addr,
         NEW top, Tiled(l, top), Away(l)
  PROVE  Tiled(Append(l, b), top) /\ Away(Append(l, b))
<1> DEFINE l2 == Append(l, b)
<1>1. Len(l) \in Nat /\ Len(l2) = Len(l) + 1 /\ l2[Len(l) + 1] = b
  OBVIOUS
<1>2. \A i \in 1..Len(l) : l2[i] = l[i]
  OBVIOUS
<1> HIDE DEF l2
<1>3. ASSUME NEW n \in 0..Len(l), NEW x, Highest(l, n, x) PROVE Highest(l2, n, x)
  <2>1. \A j \in 1..n : j \in 1..Len(l)
    BY <1>1
  <2> QED  BY <2>1, <1>2, <1>3 DEF Highest
<1>4. \A i \in 1..Len(l2) : i \in 1..Len(l) \/ i = Len(l) + 1
  BY <1>1
<1>5. Highest(l2, Len(l2), top)
  <2>1. Highest(l2, Len(l), top)
    BY <1>1, <1>3 DEF Tiled
  <2> QED  BY <2>1, <1>1, <1>4 DEF Highest
<1>6. \A i \in 1..Len(l) : i - 1 \in 0..Len(l)
  BY <1>1
<1>7. Tiled(l2, top)
  <2>1. ASSUME NEW i \in 1..Len(l2), OnHeap(l2[i]) PROVE Sound(l2[i]) /\ Highest(l2, i - 1, l2[i].addr)
    <3>1. i \in 1..Len(l)
      BY <2>1, <1>1, <1>4
    <3>2. Sound(l[i]) /\ Highest(l, i - 1, l[i].addr)
      BY <3>1, <2>1, <1>2 DEF Tiled
    <3> QED  BY <3>1, <3>2, <1>2, <1>3, <1>6
  <2> QED  BY <2>1, <1>5 DEF Tiled
<1>8. Away(l2)
  BY <1>1, <1>2, <1>4 DEF Away
<1> QED  BY <1>7, <1>8 DEF l2

(* A new block at the program break.                                       *)
LEMMA AppendedBlock ==
  ASSUME NEW l \in Seq(BlockType), NEW b \in BlockType, OnHeap(b), Sound(b),
         NEW top \in Nat, b.addr = top, Tiled(l, top), Away(l)
  PROVE  Tiled(Append(l, b), Over(b)) /\ Away(Append(l, b))
<1> DEFINE l2 == Append(l, b)
<1>1. Len(l) \in Nat /\ Len(l2) = Len(l) + 1 /\ l2[Len(l) + 1] = b
  OBVIOUS
<1>2. \A i \in 1..Len(l) : l2[i] = l[i]
  OBVIOUS
<1> HIDE DEF l2
<1>3. ASSUME NEW n \in 0..Len(l), NEW x, Highest(l, n, x) PROVE Highest(l2, n, x)
  <2>1. \A j \in 1..n : j \in 1..Len(l)
    BY <1>1
  <2> QED  BY <2>1, <1>2, <1>3 DEF Highest
<1>4. \A i \in 1..Len(l2) : i \in 1..Len(l) \/ i = Len(l) + 1
  BY <1>1
<1>5. Highest(l2, Len(l2), Over(b))
  <2>1. ASSUME NEW j \in 1..Len(l), OnHeap(l2[j]) PROVE Over(l2[j]) <= Over(b)
    <3>1. Over(l[j]) <= top
      BY <2>1, <1>2 DEF Tiled, Highest
    <3>2. l[j] \in BlockType
      OBVIOUS
    <3> QED  BY <3>1, <3>2, <1>2, BlockIs
  <2>2. Over(b) <= Over(b)
    BY BlockIs
  <2> QED  BY <2>1, <2>2, <1>1, <1>4 DEF Highest
<1>6. \A i \in 1..Len(l) : i - 1 \in 0..Len(l)
  BY <1>1
<1>7. Tiled(l2, Over(b))
  <2>1. ASSUME NEW i \in 1..Len(l), OnHeap(l2[i]) PROVE Sound(l2[i]) /\ Highest(l2, i - 1, l2[i].addr)
    <3>2. Sound(l[i]) /\ Highest(l, i - 1, l[i].addr)
      BY <2>1, <1>2 DEF Tiled
    <3> QED  BY <3>2, <1>2, <1>3, <1>6
  <2>2. Highest(l2, (Len(l) + 1) - 1, top)
    <3>1. Highest(l2, Len(l), top)
      BY <1>1, <1>3 DEF Tiled
    <3>2. (Len(l) + 1) - 1 = Len(l)
      BY <1>1
    <3> QED  BY <3>1, <3>2
  <2> QED  BY <2>1, <2>2, <1>1, <1>4, <1>5 DEF Tiled
<1>8. Away(l2)
  BY <1>1, <1>2, <1>4 DEF Away
<1> QED  BY <1>7, <1>8 DEF l2

(* Without the mapping i.                                                  *)
After(i, j) == IF j < i THEN j ELSE j + 1

LEMMA AfterIs ==
  ASSUME NEW i \in Nat, NEW j \in Nat
  PROVE  /\ After(i, j) \in Nat /\ After(i, j) # i /\ j <= After(i, j) /\ After(i, j) <= j + 1
         /\ j < i => After(i, j) = j
         /\ i <= j => After(i, j) = j + 1
         /\ \A k \in Nat : After(i, j) = After(i, k) => j = k
  BY DEF After

LEMMA Deleted ==
  ASSUME NEW l \in Seq(BlockType), NEW l2 \in Seq(BlockType), NEW i \in 1..Len(l), ~OnHeap(l[i]),
         Len(l2) = Len(l) - 1, \A j \in 1..Len(l2) : Like(l2[j], l[After(i, j)]),
         NEW top, Tiled(l, top), Away(l)
  PROVE  Tiled(l2, top) /\ Away(l2)
<1>1. Len(l) \in Nat /\ i \in Nat /\ i <= Len(l) /\ 1 <= i
  OBVIOUS
<1>2. ASSUME NEW j \in 1..Len(l2)
      PROVE  /\ After(i, j) \in 1..Len(l)
             /\ OnHeap(l2[j]) <=> OnHeap(l[After(i, j)])
             /\ Over(l2[j]) = Over(l[After(i, j)]) /\ l2[j].addr = l[After(i, j)].addr
             /\ Sound(l2[j]) <=> Sound(l[After(i, j)])
  <2>1. After(i, j) \in 1..Len(l)
    BY <1>1 DEF After
  <2> QED  BY <2>1, LikeIs
<1>3. ASSUME NEW k \in 1..Len(l), k # i PROVE \E j \in 1..Len(l2) : k = After(i, j) /\ (j = k \/ j = k - 1) /\ (k < i => j = k)
                                                                    /\ (k > i => j = k - 1)
  <2>1. CASE k < i
    BY <2>1, <1>1, AfterIs
  <2>2. CASE k > i
    <3>1. k - 1 \in 1..Len(l2) /\ i <= k - 1 /\ k = (k - 1) + 1
      BY <2>2, <1>1
    <3>2. After(i, k - 1) = k
      BY <3>1, <1>1, AfterIs
    <3> QED  BY <3>1, <3>2, <2>2
  <2> QED  BY <2>1, <2>2, <1>3
(* The first n blocks of l2 are the first m of l.                          *)
<1>4. ASSUME NEW n \in 0..Len(l2), NEW m \in 0..Len(l), n < i => m = n, n >= i => m = n + 1,
             NEW x, Highest(l, m, x)
      PROVE  Highest(l2, n, x)
  <2>1. ASSUME NEW j \in 1..n PROVE After(i, j) \in 1..m /\ j \in 1..Len(l2)
    BY <1>1, <1>4 DEF After
  <2>2. ASSUME NEW j \in 1..n, OnHeap(l2[j]) PROVE Over(l2[j]) <= x
    BY <2>1, <2>2, <1>2, <1>4 DEF Highest
  <2>3. ASSUME NEW k \in 1..m, OnHeap(l[k]) PROVE \E j \in 1..n : OnHeap(l2[j]) /\ Over(l2[j]) = Over(l[k])
    <3>1. k \in 1..Len(l) /\ k # i
      BY <2>3, <1>1
    <3>2. PICK j \in 1..Len(l2) : k = After(i, j) /\ (k < i => j = k) /\ (k > i => j = k - 1)
      BY <3>1, <1>3
    <3>3. j \in 1..n
      BY <3>1, <3>2, <1>1, <1>4
    <3> QED  BY <3>2, <3>3, <2>3, <1>2
  <2> QED  BY <2>2, <2>3, <1>4 DEF Highest
<1>5. ASSUME NEW j \in 1..Len(l2), OnHeap(l2[j]) PROVE Sound(l2[j]) /\ Highest(l2, j - 1, l2[j].addr)
  <2>1. After(i, j) \in 1..Len(l) /\ OnHeap(l[After(i, j)]) /\ l2[j].addr = l[After(i, j)].addr
    BY <1>2, <1>5
  <2>2. Sound(l[After(i, j)]) /\ Highest(l, After(i, j) - 1, l[After(i, j)].addr)
    BY <2>1 DEF Tiled
  <2>3. j - 1 \in 0..Len(l2)
    BY <1>1
  <2>4. Highest(l2, j - 1, l[After(i, j)].addr)
    <3>1. CASE j - 1 < i /\ After(i, j) = j
      <4>1. j - 1 \in 0..Len(l)
        BY <1>1
      <4> QED  BY <4>1, <3>1, <2>2, <2>3, <1>4, <1>1
    <3>2. CASE i <= j /\ After(i, j) = j + 1
      <4>1. CASE j - 1 >= i
        <5>1. After(i, j) - 1 = (j - 1) + 1 /\ (j - 1) + 1 \in 0..Len(l)
          BY <3>2, <4>1, <1>1
        <5>2. Highest(l, (j - 1) + 1, l[After(i, j)].addr)
          BY <5>1, <2>2
        <5> QED  BY <5>1, <5>2, <4>1, <2>3, <1>4, <1>1
      (* i itself is not on the heap. *)
      <4>2. CASE j = i
        <5>1. After(i, j) - 1 = i /\ j - 1 = i - 1 /\ i - 1 \in 0..Len(l)
          BY <3>2, <4>2, <1>1
        <5>2. \A k \in 1..i : k \in 1..(i - 1) \/ k = i
          BY <1>1
        <5>3. \A k \in 1..(i - 1) : k \in 1..i
          BY <1>1
        <5>4. Highest(l, i, l[After(i, j)].addr)
          BY <5>1, <2>2
        <5>5. Highest(l, i - 1, l[After(i, j)].addr)
          BY <5>2, <5>3, <5>4 DEF Highest
        <5> QED  BY <5>1, <5>5, <2>3, <1>4, <1>1
      <4> QED  BY <4>1, <4>2, <3>2, <1>1
    <3> QED  BY <3>1, <3>2, <1>1 DEF After
  <2> QED  BY <2>1, <2>2, <2>4, <1>2
<1>6. Highest(l2, Len(l2), top)
  <2>1. Highest(l, Len(l), top)
    BY DEF Tiled
  <2>2. CASE Len(l2) >= i
    BY <2>1, <2>2, <1>1, <1>4
  <2>3. CASE i = Len(l)
    <3>1. \A k \in 1..Len(l) : k \in 1..(i - 1) \/ k = i
      BY <1>1, <2>3
    <3>2. \A k \in 1..(i - 1) : k \in 1..Len(l)
      BY <1>1
    <3>3. Highest(l, i - 1, top)
      BY <3>1, <3>2, <2>1 DEF Highest
    <3>4. Len(l2) = i - 1 /\ i - 1 \in 0..Len(l) /\ i - 1 \in 0..Len(l2)
      BY <2>3, <1>1
    <3> QED  BY <3>3, <3>4, <1>4, <1>1
  <2> QED  BY <2>2, <2>3, <1>1
<1>7. Away(l2)
  <2>1. ASSUME NEW j \in 1..Len(l2), NEW k \in 1..Len(l2), After(i, j) = After(i, k) PROVE j = k
    BY <1>1, <2>1, AfterIs
  <2> QED  BY <2>1, <1>2 DEF Away
<1> QED  BY <1>5, <1>6, <1>7 DEF Tiled

(* Neighbours on the heap touch.                                           *)
LEMMA NextTouches ==
  ASSUME NEW l \in Seq(BlockType), NEW top \in Nat, Tiled(l, top),
         NEW i \in 1..(Len(l) - 1), OnHeap(l[i]), OnHeap(l[i + 1])
  PROVE  l[i + 1].addr = Over(l[i])
<1>1. Len(l) \in Nat /\ i \in 1..Len(l) /\ i + 1 \in 1..Len(l) /\ (i + 1) - 1 = i
  OBVIOUS
<1>2. Highest(l, i, l[i + 1].addr)
  BY <1>1 DEF Tiled
<1>3. ASSUME NEW j \in 1..Len(l) PROVE Over(l[j]) \in Nat /\ l[j].addr \in Nat /\ l[j].addr < Over(l[j])
  <2>1. l[j] \in BlockType
    OBVIOUS
  <2> QED  BY <2>1, BlockIs
<1>4. Over(l[i]) <= l[i + 1].addr
  BY <1>1, <1>2 DEF Highest
<1>5. l[i + 1].addr # 0
  BY <1>1, <1>3, <1>4
<1>6. PICK j \in 1..i : OnHeap(l[j]) /\ Over(l[j]) = l[i + 1].addr
  BY <1>2, <1>5 DEF Highest
<1>7. CASE j < i
  <2>1. j \in 1..Len(l)
    BY <1>1
  <2>2. Over(l[j]) <= l[i].addr
    BY <2>1, <1>1, <1>6, <1>7, HeapInOrder
  <2> QED  BY <2>1, <2>2, <1>1, <1>3, <1>4, <1>6
<1> QED  BY <1>1, <1>6, <1>7

(* Block i takes over block i + 1.                                         *)
LEMMA MergedBlocks ==
  ASSUME NEW l \in Seq(BlockType), NEW l2 \in Seq(BlockType), NEW i \in 1..(Len(l) - 1),
         OnHeap(l[i]), OnHeap(l[i + 1]), Len(l2) = Len(l) - 1,
         \A j \in 1..Len(l2) : j # i => Like(l2[j], l[After(i + 1, j)]),
         l2[i].addr = l[i].addr, l2[i].status = l[i].status,
         l2[i].size = l[i].size + l[i + 1].size + Header,
         NEW top \in Nat, Tiled(l, top), Away(l)
  PROVE  Tiled(l2, top) /\ Away(l2)
<1>1. Len(l) \in Nat /\ i \in 1..Len(l) /\ i + 1 \in 1..Len(l) /\ i \in 1..Len(l2) /\ i \in Nat /\ i + 1 \in Nat
  OBVIOUS
<1>0. /\ \A j \in 1..Len(l) : OnHeap(l[j]) => Sound(l[j]) /\ Highest(l, j - 1, l[j].addr)
      /\ Highest(l, Len(l), top)
  BY DEF Tiled
<1>2. ASSUME NEW j \in 1..Len(l2), j # i
      PROVE  /\ After(i + 1, j) \in 1..Len(l) /\ After(i + 1, j) # i /\ After(i + 1, j) # i + 1
             /\ OnHeap(l2[j]) <=> OnHeap(l[After(i + 1, j)])
             /\ Over(l2[j]) = Over(l[After(i + 1, j)]) /\ l2[j].addr = l[After(i + 1, j)].addr
             /\ Sound(l2[j]) <=> Sound(l[After(i + 1, j)])
  <2>1. After(i + 1, j) \in 1..Len(l) /\ After(i + 1, j) # i /\ After(i + 1, j) # i + 1
    BY <1>1, <1>2 DEF After
  <2> QED  BY <2>1, <1>2, LikeIs
<1>3. ASSUME NEW j \in 1..Len(l) PROVE /\ Over(l[j]) \in Nat /\ l[j].addr \in Nat /\ l[j].addr < Over(l[j])
                                       /\ l[j].size \in Nat
  <2>1. l[j] \in BlockType
    OBVIOUS
  <2> QED  BY <2>1, BlockIs
<1>4. OnHeap(l2[i])
  BY DEF OnHeap
<1>5. Over(l2[i]) = Over(l[i + 1]) /\ Over(l[i]) < Over(l2[i])
  <2>1. l[i + 1].addr = Over(l[i])
    BY NextTouches
  <2>2. Over(l2[i]) = l[i].addr + Header + (l[i].size + l[i + 1].size + Header)
    BY DEF Over
  <2>3. Over(l[i + 1]) = (l[i].addr + Header + l[i].size) + Header + l[i + 1].size
    BY <2>1 DEF Over
  <2>4. Header \in Nat \ {0}
    BY HeaderIs
  <2>5. ASSUME NEW a \in Nat, NEW h \in Nat \ {0}, NEW s \in Nat, NEW t \in Nat
        PROVE  a + h + (s + t + h) = (a + h + s) + h + t /\ a + h + s < (a + h + s) + h + t
    BY <2>5
  <2>6. l[i].addr \in Nat /\ l[i].size \in Nat /\ l[i + 1].size \in Nat
    BY <1>1, <1>3
  <2>7. Over(l[i]) = l[i].addr + Header + l[i].size
    BY DEF Over
  <2>8. /\ l[i].addr + Header + (l[i].size + l[i + 1].size + Header)
              = (l[i].addr + Header + l[i].size) + Header + l[i + 1].size
        /\ l[i].addr + Header + l[i].size < (l[i].addr + Header + l[i].size) + Header + l[i + 1].size
    BY <2>4, <2>5, <2>6, Zenon
  <2> QED  BY <2>2, <2>3, <2>7, <2>8, Zenon
<1>6. Sound(l2[i])
  <2>0. Sound(l[i]) /\ Sound(l[i + 1])
    BY <1>0, <1>1, Zenon
  <2>1. /\ Sound(l[i]) /\ Sound(l[i + 1])
        /\ Align \in Nat \ {0} /\ Header \in Int /\ Header % Align = 0
    BY <2>0, MemAssumption, HeaderIs
  <2>2. ASSUME NEW x \in Int, NEW y \in Int, NEW z \in Int, x % Align = 0, y % Align = 0, z % Align = 0
        PROVE  (x + y + z) % Align = 0
    <3>1. (x + y) % Align = 0
      BY <2>1, <2>2, SumIsMultiple, Zenon
    <3>2. x + y \in Int
      OBVIOUS
    <3> QED  BY <3>1, <3>2, <2>1, <2>2, SumIsMultiple, Zenon
  <2>3. l2[i].addr % Align = 0
    BY <2>1 DEF Sound
  <2>4. l[i].size \in Int /\ l[i + 1].size \in Int
    BY <1>1, <1>3
  <2>5. l2[i].size % Align = 0
    BY <2>1, <2>2, <2>4 DEF Sound
  <2>6. l2[i].size > 0
    BY <2>1, <1>1, <1>3, HeaderIs
  <2> QED  BY <2>3, <2>5, <2>6 DEF Sound
(* The first n blocks of l2 are the first m of l.                          *)
<1>7. ASSUME NEW n \in 0..Len(l2), NEW m \in 0..Len(l), n < i => m = n, n >= i => m = n + 1,
             NEW x \in Nat, Highest(l, m, x)
      PROVE  Highest(l2, n, x)
  <2>1. ASSUME NEW j \in 1..n PROVE After(i + 1, j) \in 1..m /\ j \in 1..Len(l2)
    BY <1>1, <1>7 DEF After
  <2>2. ASSUME NEW j \in 1..n, OnHeap(l2[j]) PROVE Over(l2[j]) <= x
    <3>1. CASE j # i
      BY <3>1, <2>1, <2>2, <1>2, <1>7 DEF Highest
    <3>2. CASE j = i
      <4>1. i + 1 \in 1..m
        BY <3>2, <1>1, <1>7
      <4> QED  BY <4>1, <3>2, <1>5, <1>7 DEF Highest
    <3> QED  BY <3>1, <3>2
  <2>3. ASSUME NEW k \in 1..m, OnHeap(l[k]), Over(l[k]) = x
        PROVE  \E j \in 1..n : OnHeap(l2[j]) /\ Over(l2[j]) = x
    <3>1. CASE k < i
      <4>1. k \in 1..n /\ After(i + 1, k) = k /\ k \in 1..Len(l2)
        BY <3>1, <1>1, <1>7 DEF After
      <4> QED  BY <4>1, <3>1, <2>3, <1>2
    <3>2. CASE k = i
      <4>1. i + 1 \in 1..m
        BY <3>2, <1>1, <1>7
      <4>2. Over(l[i + 1]) <= x
        BY <4>1, <1>7 DEF Highest
      <4> QED  BY <4>2, <3>2, <2>3, <1>1, <1>3, <1>5
    <3>3. CASE k = i + 1
      <4>1. i \in 1..n
        BY <3>3, <1>1, <1>7
      <4> QED  BY <4>1, <3>3, <2>3, <1>4, <1>5
    <3>4. CASE k > i + 1
      <4>1. k - 1 \in 1..n /\ After(i + 1, k - 1) = k /\ k - 1 \in 1..Len(l2) /\ k - 1 # i
        BY <3>4, <1>1, <1>7 DEF After
      <4> QED  BY <4>1, <2>3, <1>2
    <3> QED  BY <3>1, <3>2, <3>3, <3>4, <1>1
  <2> QED  BY <2>2, <2>3, <1>7 DEF Highest
<1>8. ASSUME NEW j \in 1..Len(l2), OnHeap(l2[j]) PROVE Sound(l2[j]) /\ Highest(l2, j - 1, l2[j].addr)
  <2>1. j - 1 \in 0..Len(l2)
    BY <1>1
  <2>2. CASE j = i
    <3>1. Highest(l, i - 1, l[i].addr) /\ i - 1 \in 0..Len(l)
      <4>1. Highest(l, i - 1, l[i].addr)
        BY <1>0, <1>1, Zenon
      <4>2. i - 1 \in 0..Len(l)
        BY <1>1
      <4> QED  BY <4>1, <4>2
    <3>2. Highest(l2, i - 1, l[i].addr)
      <4>1. i - 1 \in 0..Len(l2) /\ i - 1 < i /\ l[i].addr \in Nat /\ ~(i - 1 >= i)
        BY <2>1, <2>2, <1>1, <1>3
      <4> QED  BY <3>1, <4>1, <1>7
    <3> QED  BY <3>2, <2>2, <1>6
  <2>3. CASE j # i
    <3> DEFINE k == After(i + 1, j)
    <3>1. k \in 1..Len(l) /\ OnHeap(l[k]) /\ l2[j].addr = l[k].addr /\ (Sound(l2[j]) <=> Sound(l[k]))
      BY <2>3, <1>2, <1>8
    <3>2. k - 1 \in 0..Len(l) /\ (j - 1 < i => k - 1 = j - 1) /\ (j - 1 >= i => k - 1 = (j - 1) + 1)
      BY <2>3, <1>1 DEF After
    <3> HIDE DEF k
    <3>3. Sound(l[k]) /\ Highest(l, k - 1, l[k].addr) /\ l[k].addr \in Nat
      BY <3>1, <1>0, <1>3
    <3>4. Highest(l2, j - 1, l[k].addr)
      BY <3>2, <3>3, <2>1, <1>7
    <3> QED  BY <3>1, <3>3, <3>4
  <2> QED  BY <2>2, <2>3
<1>9. Highest(l2, Len(l2), top)
  <2>1. /\ Len(l2) \in 0..Len(l2) /\ Len(l) \in 0..Len(l) /\ ~(Len(l2) < i)
        /\ Len(l) = Len(l2) + 1
    BY <1>1
  <2> QED  BY <2>1, <1>0, <1>7
<1>10. Away(l2)
  <2>1. ASSUME NEW j \in 1..Len(l2), NEW k \in 1..Len(l2), After(i + 1, j) = After(i + 1, k) PROVE j = k
    BY <1>1, <2>1, AfterIs
  <2>2. ASSUME NEW j \in 1..Len(l2), ~OnHeap(l2[j])
        PROVE  /\ j # i /\ After(i + 1, j) \in 1..Len(l) /\ ~OnHeap(l[After(i + 1, j)])
               /\ l2[j].addr = l[After(i + 1, j)].addr
    BY <2>2, <1>2, <1>4
  <2>3. ASSUME NEW j \in 1..Len(l2), ~OnHeap(l2[j]), NEW k \in 1..Len(l2), ~OnHeap(l2[k]),
               l2[k].addr = l2[j].addr
        PROVE  k = j
    BY <2>1, <2>2, <2>3 DEF Away
  <2>4. ASSUME NEW j \in 1..Len(l2), ~OnHeap(l2[j]) PROVE l2[j].addr \in MapAddrs
    BY <2>2, <2>4 DEF Away
  <2> QED  BY <2>3, <2>4 DEF Away
<1> QED  BY <1>8, <1>9, <1>10 DEF Tiled

(* Block i is split in two.                                                *)
Without(i, j) == IF j <= i THEN j ELSE j - 1

LEMMA SplitBlocks ==
  ASSUME NEW l \in Seq(BlockType), NEW l2 \in Seq(BlockType), NEW i \in 1..Len(l), OnHeap(l[i]),
         Len(l2) = Len(l) + 1,
         \A j \in 1..Len(l2) : j # i /\ j # i + 1 => Like(l2[j], l[Without(i, j)]),
         OnHeap(l2[i]), OnHeap(l2[i + 1]), Sound(l2[i]), Sound(l2[i + 1]),
         l2[i].addr = l[i].addr, l2[i + 1].addr = Over(l2[i]), Over(l2[i + 1]) = Over(l[i]),
         NEW top \in Nat, Tiled(l, top), Away(l)
  PROVE  Tiled(l2, top) /\ Away(l2)
<1>1. /\ Len(l) \in Nat /\ i \in 1..Len(l2) /\ i + 1 \in 1..Len(l2) /\ i \in Nat
      /\ i >= 1 /\ i <= Len(l)
  OBVIOUS
<1>0. /\ \A j \in 1..Len(l) : OnHeap(l[j]) => Sound(l[j]) /\ Highest(l, j - 1, l[j].addr)
      /\ Highest(l, Len(l), top)
  BY DEF Tiled
<1>2. ASSUME NEW j \in 1..Len(l2), j # i, j # i + 1
      PROVE  /\ Without(i, j) \in 1..Len(l) /\ Without(i, j) # i
             /\ OnHeap(l2[j]) <=> OnHeap(l[Without(i, j)])
             /\ Over(l2[j]) = Over(l[Without(i, j)]) /\ l2[j].addr = l[Without(i, j)].addr
             /\ Sound(l2[j]) <=> Sound(l[Without(i, j)])
  <2>1. Without(i, j) \in 1..Len(l) /\ Without(i, j) # i
    BY <1>1, <1>2 DEF Without
  <2> QED  BY <2>1, <1>2, LikeIs
<1>3. ASSUME NEW j \in 1..Len(l) PROVE Over(l[j]) \in Nat /\ l[j].addr \in Nat /\ l[j].addr < Over(l[j])
  <2>1. l[j] \in BlockType
    OBVIOUS
  <2> QED  BY <2>1, BlockIs
<1>4. /\ Over(l2[i]) \in Nat /\ l2[i].addr < Over(l2[i]) /\ Over(l2[i]) < Over(l[i])
      /\ l[i].addr < Over(l2[i])
  <2>1. l2[i] \in BlockType /\ l2[i + 1] \in BlockType
    BY <1>1
  <2> QED  BY <2>1, BlockIs
(* The first n blocks of l2 are the first m of l, but for n = i.           *)
<1>5. ASSUME NEW n \in 0..Len(l2), NEW m \in 0..Len(l), n < i => m = n, n # i, n > i => m = n - 1,
             NEW x \in Nat, Highest(l, m, x)
      PROVE  Highest(l2, n, x)
  <2>1. ASSUME NEW j \in 1..n, j # i, j # i + 1 PROVE Without(i, j) \in 1..m /\ j \in 1..Len(l2)
    BY <1>1, <1>5, <2>1 DEF Without
  <2>2. ASSUME NEW j \in 1..n, OnHeap(l2[j]) PROVE Over(l2[j]) <= x
    <3>1. CASE j # i /\ j # i + 1
      BY <3>1, <2>1, <2>2, <1>2, <1>5 DEF Highest
    <3>2. CASE j = i \/ j = i + 1
      <4>1. i \in 1..m
        BY <3>2, <1>1, <1>5
      <4>2. Over(l[i]) <= x
        BY <4>1, <1>5 DEF Highest
      <4> QED  BY <4>2, <3>2, <1>1, <1>3, <1>4
    <3> QED  BY <3>1, <3>2
  <2>3. ASSUME NEW k \in 1..m, OnHeap(l[k]), Over(l[k]) = x
        PROVE  \E j \in 1..n : OnHeap(l2[j]) /\ Over(l2[j]) = x
    <3>1. CASE k < i
      <4>1. k \in 1..n /\ Without(i, k) = k /\ k \in 1..Len(l2) /\ k # i /\ k # i + 1
        BY <3>1, <1>1, <1>5 DEF Without
      <4> QED  BY <4>1, <2>3, <1>2
    <3>2. CASE k = i
      <4>1. i + 1 \in 1..n
        BY <3>2, <1>1, <1>5
      <4> QED  BY <4>1, <3>2, <2>3
    <3>3. CASE k > i
      <4>1. k + 1 \in 1..n /\ Without(i, k + 1) = k /\ k + 1 \in 1..Len(l2) /\ k + 1 # i /\ k + 1 # i + 1
        BY <3>3, <1>1, <1>5 DEF Without
      <4> QED  BY <4>1, <2>3, <1>2
    <3> QED  BY <3>1, <3>2, <3>3, <1>1
  <2> QED  BY <2>2, <2>3, <1>5 DEF Highest
<1>6. Highest(l2, i - 1, l[i].addr)
  <2>1. Highest(l, i - 1, l[i].addr)
    BY <1>0, <1>1, Zenon
  <2>2. i - 1 \in 0..Len(l) /\ i - 1 \in 0..Len(l2) /\ i - 1 # i /\ i - 1 < i /\ ~(i - 1 > i) /\ l[i].addr \in Nat
    BY <1>1, <1>3
  <2> QED  BY <2>1, <2>2, <1>5
<1>7. Highest(l2, i, Over(l2[i]))
  <2>1. ASSUME NEW j \in 1..i, OnHeap(l2[j]) PROVE Over(l2[j]) <= Over(l2[i])
    <3>1. CASE j = i
      BY <3>1, <1>4
    <3>2. CASE j # i
      <4>1. j \in 1..(i - 1) /\ j \in 1..Len(l2) /\ j # i + 1
        BY <3>2, <1>1
      <4>2. Over(l2[j]) <= l[i].addr
        BY <4>1, <2>1, <1>6 DEF Highest
      <4>3. Over(l2[j]) \in Nat
        <5>1. l2[j] \in BlockType
          BY <4>1
        <5> QED  BY <5>1, BlockIs
      <4> QED  BY <4>2, <4>3, <1>1, <1>3, <1>4
    <3> QED  BY <3>1, <3>2
  <2> QED  BY <2>1, <1>1 DEF Highest
<1>8. ASSUME NEW j \in 1..Len(l2), OnHeap(l2[j]) PROVE Sound(l2[j]) /\ Highest(l2, j - 1, l2[j].addr)
  <2>1. CASE j = i
    BY <2>1, <1>6
  <2>2. CASE j = i + 1
    <3>1. j - 1 = i
      BY <2>2, <1>1
    <3> QED  BY <3>1, <2>2, <1>7
  <2>3. CASE j # i /\ j # i + 1
    <3> DEFINE k == Without(i, j)
    <3>1. k \in 1..Len(l) /\ OnHeap(l[k]) /\ l2[j].addr = l[k].addr /\ (Sound(l2[j]) <=> Sound(l[k]))
      BY <2>3, <1>2, <1>8
    <3>2. /\ k - 1 \in 0..Len(l) /\ j - 1 \in 0..Len(l2) /\ j - 1 # i
          /\ (j - 1 < i => k - 1 = j - 1) /\ (j - 1 > i => k - 1 = (j - 1) - 1)
      BY <2>3, <1>1 DEF Without
    <3> HIDE DEF k
    <3>3. Sound(l[k]) /\ Highest(l, k - 1, l[k].addr) /\ l[k].addr \in Nat
      BY <3>1, <1>0, <1>3
    <3>4. Highest(l2, j - 1, l[k].addr)
      BY <3>2, <3>3, <1>5
    <3> QED  BY <3>1, <3>3, <3>4
  <2> QED  BY <2>1, <2>2, <2>3
<1>9. Highest(l2, Len(l2), top)
  <2>1. /\ Len(l2) \in 0..Len(l2) /\ Len(l) \in 0..Len(l) /\ Len(l2) > i /\ ~(Len(l2) < i) /\ Len(l2) # i
        /\ Len(l) = Len(l2) - 1
    BY <1>1
  <2> QED  BY <2>1, <1>0, <1>5
<1>10. Away(l2)
  <2>1. ASSUME NEW j \in 1..Len(l2), NEW k \in 1..Len(l2), j # i + 1, k # i + 1, Without(i, j) = Without(i, k)
        PROVE  j = k
    BY <1>1, <2>1 DEF Without
  <2>2. ASSUME NEW j \in 1..Len(l2), ~OnHeap(l2[j])
        PROVE  /\ j # i + 1 /\ Without(i, j) \in 1..Len(l) /\ ~OnHeap(l[Without(i, j)])
               /\ l2[j].addr = l[Without(i, j)].addr
    BY <2>2, <1>2
  <2>3. ASSUME NEW j \in 1..Len(l2), ~OnHeap(l2[j]), NEW k \in 1..Len(l2), ~OnHeap(l2[k]),
               l2[k].addr = l2[j].addr
        PROVE  k = j
    BY <2>1, <2>2, <2>3 DEF Away
  <2>4. ASSUME NEW j \in 1..Len(l2), ~OnHeap(l2[j]) PROVE l2[j].addr \in MapAddrs
    BY <2>2, <2>4 DEF Away
  <2> QED  BY <2>3, <2>4 DEF Away
<1> QED  BY <1>8, <1>9, <1>10 DEF Tiled

(* The last block of the heap grows with the program break.                *)
LEMMA GrownBlock ==
  ASSUME NEW l \in Seq(BlockType), NEW l2 \in Seq(BlockType), NEW i \in 1..Len(l), OnHeap(l[i]),
         \A j \in 1..Len(l) : j > i => ~OnHeap(l[j]),
         Len(l2) = Len(l), \A j \in 1..Len(l) : j # i => Like(l2[j], l[j]),
         OnHeap(l2[i]), Sound(l2[i]), l2[i].addr = l[i].addr,
         NEW top \in Nat, Tiled(l, top), Away(l)
  PROVE  Tiled(l2, Over(l2[i])) /\ Away(l2) /\ Over(l[i]) = top
<1>1. Len(l) \in Nat /\ i \in Nat
  OBVIOUS
<1>0. /\ \A j \in 1..Len(l) : OnHeap(l[j]) => Sound(l[j]) /\ Highest(l, j - 1, l[j].addr)
      /\ Highest(l, Len(l), top)
  BY DEF Tiled
<1>2. ASSUME NEW j \in 1..Len(l), j # i
      PROVE  /\ OnHeap(l2[j]) <=> OnHeap(l[j])
             /\ Over(l2[j]) = Over(l[j]) /\ l2[j].addr = l[j].addr
             /\ Sound(l2[j]) <=> Sound(l[j])
  BY <1>2, LikeIs
<1>3. ASSUME NEW j \in 1..Len(l)
      PROVE  /\ Over(l[j]) \in Nat /\ l[j].addr \in Nat /\ l[j].addr < Over(l[j])
             /\ Over(l2[j]) \in Nat /\ l2[j].addr < Over(l2[j])
  <2>1. l[j] \in BlockType /\ l2[j] \in BlockType
    OBVIOUS
  <2> QED  BY <2>1, BlockIs
<1>4. ASSUME NEW j \in 1..Len(l), j < i, OnHeap(l[j]) PROVE Over(l[j]) <= l[i].addr
  BY <1>4, HeapInOrder
<1>5. ASSUME NEW n \in 0..(i - 1), NEW x, Highest(l, n, x) PROVE Highest(l2, n, x)
  <2>1. \A j \in 1..n : j \in 1..Len(l) /\ j # i
    BY <1>1
  <2> QED  BY <2>1, <1>2, <1>5 DEF Highest
<1>6. ASSUME NEW j \in 1..Len(l), OnHeap(l2[j]) PROVE j = i \/ (j < i /\ OnHeap(l[j]))
  BY <1>1, <1>2, <1>6
<1>7. ASSUME NEW j \in 1..Len(l), OnHeap(l2[j]) PROVE Sound(l2[j]) /\ Highest(l2, j - 1, l2[j].addr)
  <2>1. j \in 1..Len(l) /\ OnHeap(l[j]) /\ l2[j].addr = l[j].addr /\ j - 1 \in 0..(i - 1)
    BY <1>1, <1>2, <1>6, <1>7
  <2>2. Highest(l2, j - 1, l[j].addr)
    BY <2>1, <1>0, <1>5
  <2> QED  BY <2>1, <2>2, <1>0, <1>2
<1>8. Highest(l2, Len(l), Over(l2[i]))
  <2>1. ASSUME NEW j \in 1..Len(l), OnHeap(l2[j]) PROVE Over(l2[j]) <= Over(l2[i])
    <3>1. CASE j = i
      BY <3>1, <1>3
    <3>2. CASE j < i /\ OnHeap(l[j])
      <4>1. Over(l[j]) <= l[i].addr /\ Over(l2[j]) = Over(l[j])
        BY <3>2, <1>1, <1>2, <1>4
      <4> QED  BY <4>1, <1>3
    <3> QED  BY <3>1, <3>2, <2>1, <1>6
  <2> QED  BY <2>1 DEF Highest
<1>9. Away(l2)
  <2>1. ASSUME NEW j \in 1..Len(l), ~OnHeap(l2[j]) PROVE ~OnHeap(l[j]) /\ l2[j].addr = l[j].addr
    BY <2>1, <1>2
  <2> QED  BY <2>1 DEF Away
<1>10. Over(l[i]) = top
  <2>1. Over(l[i]) <= top /\ top # 0
    BY <1>0, <1>3 DEF Highest
  <2>2. PICK j \in 1..Len(l) : OnHeap(l[j]) /\ Over(l[j]) = top
    BY <2>1, <1>0 DEF Highest
  <2>3. CASE j < i
    BY <2>1, <2>2, <2>3, <1>3, <1>4
  <2> QED  BY <2>2, <2>3, <1>1
<1> QED  BY <1>7, <1>8, <1>9, <1>10 DEF Tiled

-----------------------------------------------------------------------------
(* The caller's pointers lv and the blocks of l stand for each other; x is *)
(* the address of a block that a moving os_realloc has got.                *)
Owned(l, lv, x) ==
  /\ \A h \in Handles : lv[h] # NoMemory =>
        Holds(l, lv[h].ptr - Header, lv[h].size) /\ lv[h].ptr - Header # x
  /\ \A g, h \in Handles :
        lv[g] # NoMemory /\ lv[h] # NoMemory /\ lv[g].ptr = lv[h].ptr => g = h
  /\ \A i \in 1..Len(l) : Used(l[i]) =>
        l[i].addr = x \/ \E h \in Handles : lv[h] # NoMemory /\ lv[h].ptr - Header = l[i].addr

Moving == call.op = "move" \/ pc = "copy"
Taken == IF pc = "copy" THEN call.to ELSE Null
Old == live[call.handle].ptr - Header

(* What of the list the loop of coalesce_free_blocks has seen to.          *)
NoneGone(l, n) == \A i \in 1..Len(l) : i < n => l[i].status # "UNMAPPED"
NoFreePair(l, n) ==
  \A i \in 1..(Len(l) - 1) : i < n => ~(l[i].status = "FREE" /\ l[i + 1].status = "FREE")
TailIsLast == blocks # <<>> => tail = Last(blocks).addr

(* The block at a is smaller than n, if os_realloc could have kept it.     *)
Outgrown(l, a, n) == \A i \in 1..Len(l) : l[i].addr = a /\ l[i].status = "ALLOC" => l[i].size < n

CallInv ==
  /\ pc \in {"coalesce", "place", "resize", "fit", "copy"} =>
        /\ call # NoCall
        /\ call.op \in {"realloc", "move"} <=> live[call.handle] # NoMemory
  /\ pc = "place" => call.op # "realloc"
  /\ pc \in {"resize", "fit"} => call.op = "realloc"
  /\ pc = "copy" => call.op \in {"realloc", "move"} /\ call.to # Null
  /\ pc \notin {"coalesce", "exit", "crashed"} => cur = 1

ListInv ==
  /\ pc = "coalesce" => /\ NoneGone(blocks, cur) /\ NoFreePair(blocks, cur)
                        /\ cur > Len(blocks) => TailIsLast
  /\ pc \in {"place", "resize", "fit", "copy"} => NoneGone(blocks, Len(blocks) + 1)
  /\ pc \in {"place", "resize", "fit"} => NoFreePair(blocks, Len(blocks))
  /\ pc = "resize" => TailIsLast

MoveInv ==
  /\ pc = "fit" => \A i \in 1..Len(blocks) : blocks[i].addr = Old => blocks[i].status = "ALLOC"
  /\ pc = "copy" => Holds(blocks, call.to, Wanted)
  /\ pc \in {"coalesce", "place", "copy"} /\ Moving => Outgrown(blocks, Old, Wanted)

OsMemInv ==
  /\ TypeOK
  /\ Tiled(blocks, brk) /\ Away(blocks)
  /\ Owned(blocks, live, Taken)
  /\ CallInv /\ ListInv /\ MoveInv

(* But for a block at the address a, l and l2 have the same blocks in use. *)
Keeps(l, l2, a) ==
  \A i \in 1..Len(l) : Used(l[i]) /\ l[i].addr # a => \E j \in 1..Len(l2) : Like(l2[j], l[i])
Same(l, l2, a) == Keeps(l, l2, a) /\ Keeps(l2, l, a)

LEMMA LikeEither == ASSUME NEW b, NEW c, Like(b, c) PROVE Like(c, b)
  BY DEF Like

LEMMA SameIfUnused ==
  ASSUME NEW l, NEW l2, NEW a, Same(l, l2, a), ~Holds(l, a, 0), ~Holds(l2, a, 0),
         l \in Seq(BlockType), l2 \in Seq(BlockType)
  PROVE  Same(l, l2, Null)
<1>1. ASSUME NEW k \in Seq(BlockType), NEW k2, Keeps(k, k2, a), ~Holds(k, a, 0) PROVE Keeps(k, k2, Null)
  <2>1. ASSUME NEW i \in 1..Len(k), Used(k[i]) PROVE k[i].addr # a
    <3>1. k[i].size \in Nat
      <4>1. k[i] \in BlockType
        OBVIOUS
      <4> QED  BY <4>1, BlockIs
    <3>2. 0 <= k[i].size
      BY <3>1
    <3> QED  BY <3>2, <2>1, <1>1 DEF Holds
  <2> QED  BY <2>1, <1>1 DEF Keeps
<1> QED  BY <1>1 DEF Same

LEMMA SameInPlace ==
  ASSUME NEW l, NEW l2, NEW i \in 1..Len(l), Len(l2) = Len(l), l2[i].addr = l[i].addr,
         \A j \in 1..Len(l) : j # i => Like(l2[j], l[j])
  PROVE  Same(l, l2, l[i].addr)
  BY LikeEither DEF Same, Keeps

LEMMA SameAppended ==
  ASSUME NEW l \in Seq(BlockType), NEW b \in BlockType
  PROVE  Same(l, Append(l, b), b.addr)
<1> DEFINE l2 == Append(l, b)
<1>1. Len(l) \in Nat /\ Len(l2) = Len(l) + 1 /\ l2[Len(l) + 1] = b /\ \A i \in 1..Len(l) : l2[i] = l[i]
  OBVIOUS
<1> HIDE DEF l2
<1>2. \A i \in 1..Len(l2) : i \in 1..Len(l) \/ i = Len(l) + 1
  BY <1>1
<1>3. \A i \in 1..Len(l) : i \in 1..Len(l2)
  BY <1>1
<1>4. Keeps(l, l2, b.addr)
  BY <1>1, <1>3 DEF Keeps, Like
<1>5. Keeps(l2, l, b.addr)
  BY <1>1, <1>2 DEF Keeps, Like
<1> QED  BY <1>4, <1>5 DEF Same, l2

LEMMA SameDeleted ==
  ASSUME NEW l \in Seq(BlockType), NEW l2 \in Seq(BlockType), NEW i \in 1..Len(l), NEW a,
         Len(l2) = Len(l) - 1, ~Used(l[i]) \/ l[i].addr = a,
         \A j \in 1..Len(l2) : Like(l2[j], l[After(i, j)]) \/ (l2[j].addr = a /\ l[After(i, j)].addr = a)
  PROVE  Same(l, l2, a)
<1>1. Len(l) \in Nat /\ i \in Nat /\ i <= Len(l) /\ 1 <= i
  OBVIOUS
<1>2. ASSUME NEW j \in 1..Len(l2) PROVE After(i, j) \in 1..Len(l)
  BY <1>1 DEF After
<1>3. ASSUME NEW k \in 1..Len(l), k # i PROVE \E j \in 1..Len(l2) : After(i, j) = k
  <2>1. CASE k < i
    <3>1. k \in 1..Len(l2) /\ After(i, k) = k
      BY <2>1, <1>1 DEF After
    <3> QED  BY <3>1
  <2>2. CASE k > i
    <3>1. k - 1 \in 1..Len(l2) /\ After(i, k - 1) = k
      BY <2>2, <1>1 DEF After
    <3> QED  BY <3>1
  <2> QED  BY <2>1, <2>2, <1>1, <1>3
<1>4. Keeps(l, l2, a)
  BY <1>3 DEF Keeps
<1>5. Keeps(l2, l, a)
  BY <1>2, LikeEither DEF Keeps
<1> QED  BY <1>4, <1>5 DEF Same

LEMMA SameSplit ==
  ASSUME NEW l \in Seq(BlockType), NEW l2 \in Seq(BlockType), NEW i \in 1..Len(l),
         Len(l2) = Len(l) + 1, l2[i].addr = l[i].addr, ~Used(l2[i + 1]),
         \A j \in 1..Len(l2) : j # i /\ j # i + 1 => Like(l2[j], l[Without(i, j)])
  PROVE  Same(l, l2, l[i].addr)
<1>1. Len(l) \in Nat /\ i \in Nat /\ i <= Len(l) /\ 1 <= i
  OBVIOUS
<1>2. ASSUME NEW j \in 1..Len(l2), j # i, j # i + 1 PROVE Without(i, j) \in 1..Len(l)
  BY <1>1, <1>2 DEF Without
<1>3. ASSUME NEW k \in 1..Len(l), k # i
      PROVE  \E j \in 1..Len(l2) : j # i /\ j # i + 1 /\ Without(i, j) = k
  <2>1. CASE k < i
    <3>1. k \in 1..Len(l2) /\ Without(i, k) = k /\ k # i /\ k # i + 1
      BY <2>1, <1>1 DEF Without
    <3> QED  BY <3>1
  <2>2. CASE k > i
    <3>1. k + 1 \in 1..Len(l2) /\ Without(i, k + 1) = k /\ k + 1 # i /\ k + 1 # i + 1
      BY <2>2, <1>1 DEF Without
    <3> QED  BY <3>1
  <2> QED  BY <2>1, <2>2, <1>1, <1>3
<1>4. Keeps(l, l2, l[i].addr)
  BY <1>3 DEF Keeps
<1>5. Keeps(l2, l, l[i].addr)
  BY <1>2, LikeEither DEF Keeps
<1> QED  BY <1>4, <1>5 DEF Same

-----------------------------------------------------------------------------
(* Holds and Outgrown where nothing changes.                               *)
LEMMA HoldsKept ==
  ASSUME NEW l, NEW l2, NEW a, Same(l, l2, a), NEW b, b # a, NEW n
  PROVE  Holds(l, b, n) <=> Holds(l2, b, n)
<1>1. ASSUME NEW k, NEW k2, Keeps(k, k2, a), Holds(k, b, n) PROVE Holds(k2, b, n)
  <2>1. PICK i \in 1..Len(k) : Used(k[i]) /\ k[i].addr = b /\ n <= k[i].size
    BY <1>1 DEF Holds
  <2>2. PICK j \in 1..Len(k2) : Like(k2[j], k[i])
    BY <2>1, <1>1 DEF Keeps
  <2> QED  BY <2>1, <2>2, LikeIs DEF Holds
<1> QED  BY <1>1 DEF Same

LEMMA OutgrownKept ==
  ASSUME NEW l, NEW l2, NEW a, Same(l, l2, a), NEW b, b # a, NEW n, Outgrown(l, b, n)
  PROVE  Outgrown(l2, b, n)
<1>1. ASSUME NEW j \in 1..Len(l2), l2[j].addr = b, l2[j].status = "ALLOC" PROVE l2[j].size < n
  <2>1. Used(l2[j])
    BY <1>1 DEF Used
  <2>2. PICK i \in 1..Len(l) : Like(l[i], l2[j])
    BY <2>1, <1>1 DEF Same, Keeps
  <2> QED  BY <2>2, <1>1 DEF Like, Outgrown
<1> QED  BY <1>1 DEF Outgrown

LEMMA HoldsLess ==
  ASSUME NEW l \in Seq(BlockType), NEW a, NEW n \in Nat, NEW m \in Nat, m <= n, Holds(l, a, n)
  PROVE  Holds(l, a, m)
<1>1. PICK i \in 1..Len(l) : Used(l[i]) /\ l[i].addr = a /\ n <= l[i].size
  BY DEF Holds
<1>2. l[i] \in BlockType
  OBVIOUS
<1>3. m <= l[i].size
  BY <1>1, <1>2, BlockIs
<1> QED  BY <1>1, <1>3 DEF Holds

-----------------------------------------------------------------------------
(* The changes of the caller's pointers.                                   *)
LiveType == [Handles -> {NoMemory} \cup [ptr : Nat, size : Sizes]]

LEMMA PointerIs ==
  ASSUME NEW lv \in LiveType, NEW h \in Handles, lv[h] # NoMemory
  PROVE  /\ lv[h].ptr \in Nat /\ lv[h].size \in Nat /\ lv[h].size \in Sizes
         /\ lv[h].ptr - Header \in Int /\ (lv[h].ptr - Header) + Header = lv[h].ptr
<1>1. lv[h] \in [ptr : Nat, size : Sizes]
  BY DEF LiveType
<1>2. lv[h].ptr \in Nat /\ lv[h].size \in Sizes
  BY <1>1
<1>3. lv[h].size \in Nat
  BY <1>2, MemAssumption
<1> QED  BY <1>2, <1>3, HeaderIs

LEMMA NoneIsHeld == ASSUME NEW l \in Seq(BlockType), NEW n PROVE ~Holds(l, Null, n)
<1>1. \A i \in 1..Len(l) : l[i] \in BlockType
  OBVIOUS
<1> QED  BY <1>1, BlockIs DEF Holds, Null

LEMMA OwnedSame ==
  ASSUME NEW l, NEW l2 \in Seq(BlockType), NEW lv \in LiveType, NEW x,
         Same(l, l2, Null), l \in Seq(BlockType), Owned(l, lv, x)
  PROVE  Owned(l2, lv, x)
<1>1. ASSUME NEW h \in Handles, lv[h] # NoMemory
      PROVE  Holds(l2, lv[h].ptr - Header, lv[h].size) /\ lv[h].ptr - Header # x
  <2>1. Holds(l, lv[h].ptr - Header, lv[h].size) /\ lv[h].ptr - Header # x
    BY <1>1 DEF Owned
  <2>2. lv[h].ptr - Header # Null
    BY <2>1, NoneIsHeld
  <2> QED  BY <2>1, <2>2, HoldsKept
<1>2. ASSUME NEW i \in 1..Len(l2), Used(l2[i])
      PROVE  l2[i].addr = x \/ \E h \in Handles : lv[h] # NoMemory /\ lv[h].ptr - Header = l2[i].addr
  <2>1. l2[i].addr # Null
    <3>1. l2[i] \in BlockType
      OBVIOUS
    <3> QED  BY <3>1, BlockIs DEF Null
  <2>2. PICK j \in 1..Len(l) : Like(l[j], l2[i])
    BY <1>2, <2>1 DEF Same, Keeps
  <2> QED  BY <2>2, <1>2, LikeIs DEF Owned
<1> QED  BY <1>1, <1>2 DEF Owned

(* The block at a is allocated, for x2 or for h.                           *)
LEMMA OwnedTaken ==
  ASSUME NEW l \in Seq(BlockType), NEW l2 \in Seq(BlockType), NEW lv \in LiveType, NEW a,
         Same(l, l2, a), ~Holds(l, a, 0), Owned(l, lv, Null)
  PROVE  Owned(l2, lv, a)
<1>1. ASSUME NEW h \in Handles, lv[h] # NoMemory
      PROVE  Holds(l2, lv[h].ptr - Header, lv[h].size) /\ lv[h].ptr - Header # a
  <2>1. Holds(l, lv[h].ptr - Header, lv[h].size)
    BY <1>1 DEF Owned
  <2>2. lv[h].size \in Nat /\ 0 \in Nat /\ 0 <= lv[h].size
    BY <1>1, PointerIs
  <2>3. Holds(l, lv[h].ptr - Header, 0)
    BY <2>1, <2>2, HoldsLess
  <2>4. lv[h].ptr - Header # a
    BY <2>3
  <2> QED  BY <2>1, <2>4, HoldsKept
<1>2. ASSUME NEW i \in 1..Len(l2), Used(l2[i])
      PROVE  l2[i].addr = a \/ \E h \in Handles : lv[h] # NoMemory /\ lv[h].ptr - Header = l2[i].addr
  <2>1. CASE l2[i].addr # a
    <3>1. PICK j \in 1..Len(l) : Like(l[j], l2[i])
      BY <1>2, <2>1 DEF Same, Keeps
    <3>2. l[j].addr # Null
      <4>1. l[j] \in BlockType
        OBVIOUS
      <4> QED  BY <4>1, BlockIs DEF Null
    <3> QED  BY <3>1, <3>2, <1>2, LikeIs DEF Owned
  <2> QED  BY <2>1
<1> QED  BY <1>1, <1>2 DEF Owned

LEMMA OwnedGiven ==
  ASSUME NEW l \in Seq(BlockType), NEW lv \in LiveType, NEW a \in Nat, NEW h \in Handles,
         lv[h] = NoMemory, NEW n \in Sizes, Holds(l, a, n), Owned(l, lv, a)
  PROVE  Owned(l, [lv EXCEPT ![h] = [ptr |-> a + Header, size |-> n]], Null)
<1> DEFINE lv2 == [lv EXCEPT ![h] = [ptr |-> a + Header, size |-> n]]
<1>1. /\ lv2[h].ptr = a + Header /\ lv2[h].size = n
      /\ \A g \in Handles : g # h => lv2[g] = lv[g]
  BY DEF LiveType
<1>2. lv2[h] # NoMemory /\ lv2[h].ptr - Header = a /\ a # Null
  <2>1. (a + Header) - Header = a /\ a + Header # Null /\ a # Null
    BY HeaderIs DEF Null
  <2>2. NoMemory.ptr = Null
    BY DEF NoMemory
  <2> HIDE DEF lv2
  <2> QED  BY <2>1, <2>2, <1>1
<1> HIDE DEF lv2
<1>3. ASSUME NEW g \in Handles, g # h, lv2[g] # NoMemory
      PROVE  /\ Holds(l, lv2[g].ptr - Header, lv2[g].size) /\ lv2[g].ptr - Header # Null
             /\ lv2[g].ptr - Header # a
  <2>1. lv2[g] = lv[g]
    BY <1>1, <1>3
  <2>2. Holds(l, lv[g].ptr - Header, lv[g].size) /\ lv[g].ptr - Header # a
    BY <1>3, <2>1 DEF Owned
  <2> QED  BY <2>1, <2>2, NoneIsHeld
<1>4. ASSUME NEW i \in 1..Len(l), Used(l[i])
      PROVE  \E g \in Handles : lv2[g] # NoMemory /\ lv2[g].ptr - Header = l[i].addr
  <2>1. CASE l[i].addr = a
    BY <2>1, <1>2
  <2>2. CASE l[i].addr # a
    <3>1. PICK g \in Handles : lv[g] # NoMemory /\ lv[g].ptr - Header = l[i].addr
      BY <2>2, <1>4 DEF Owned
    <3> QED  BY <3>1, <1>1
  <2> QED  BY <2>1, <2>2
<1>5. ASSUME NEW f \in Handles, NEW g \in Handles, lv2[f] # NoMemory, lv2[g] # NoMemory,
             lv2[f].ptr = lv2[g].ptr
      PROVE  f = g
  <2>1. CASE f = h \/ g = h
    BY <2>1, <1>2, <1>3, <1>5
  <2>2. CASE f # h /\ g # h
    BY <2>2, <1>1, <1>5 DEF Owned
  <2> QED  BY <2>1, <2>2
<1> QED  BY <1>1, <1>2, <1>3, <1>4, <1>5 DEF Owned, lv2

(* The block at a, h's, is freed.                                          *)
LEMMA OwnedFreed ==
  ASSUME NEW l \in Seq(BlockType), NEW l2 \in Seq(BlockType), NEW lv \in LiveType, NEW x,
         NEW h \in Handles, lv[h] # NoMemory, NEW a, a = lv[h].ptr - Header,
         Same(l, l2, a), ~Holds(l2, a, 0), Owned(l, lv, x)
  PROVE  Owned(l2, [lv EXCEPT ![h] = NoMemory], x)
<1> DEFINE lv2 == [lv EXCEPT ![h] = NoMemory]
<1>1. lv2[h] = NoMemory /\ \A g \in Handles : g # h => lv2[g] = lv[g]
  BY DEF LiveType
<1> HIDE DEF lv2
<1>2. ASSUME NEW g \in Handles, lv2[g] # NoMemory
      PROVE  /\ lv[g] # NoMemory /\ lv2[g] = lv[g]
             /\ Holds(l2, lv[g].ptr - Header, lv[g].size) /\ lv[g].ptr - Header # x
  <2>1. g # h /\ lv[g] # NoMemory /\ lv2[g] = lv[g]
    BY <1>1, <1>2
  <2>2. Holds(l, lv[g].ptr - Header, lv[g].size) /\ lv[g].ptr - Header # x
    BY <2>1 DEF Owned
  <2>3. lv[g].ptr - Header # a
    <3>1. ASSUME lv[g].ptr - Header = lv[h].ptr - Header PROVE lv[g].ptr = lv[h].ptr
      BY <3>1, <2>1, PointerIs, HeaderIs
    <3> QED  BY <3>1, <2>1 DEF Owned
  <2> QED  BY <2>1, <2>2, <2>3, HoldsKept
<1>3. ASSUME NEW i \in 1..Len(l2), Used(l2[i])
      PROVE  l2[i].addr = x \/ \E g \in Handles : lv2[g] # NoMemory /\ lv2[g].ptr - Header = l2[i].addr
  <2>1. l2[i].addr # a
    <3>1. l2[i] \in BlockType
      OBVIOUS
    <3>2. 0 <= l2[i].size
      BY <3>1, BlockIs
    <3> QED  BY <3>2, <1>3 DEF Holds
  <2>2. PICK j \in 1..Len(l) : Like(l[j], l2[i])
    BY <2>1, <1>3 DEF Same, Keeps
  <2>3. Used(l[j]) /\ l[j].addr = l2[i].addr
    BY <2>2, <1>3, LikeIs
  <2>4. CASE l[j].addr # x
    <3>1. PICK g \in Handles : lv[g] # NoMemory /\ lv[g].ptr - Header = l[j].addr
      BY <2>3, <2>4 DEF Owned
    <3>2. g # h
      BY <3>1, <2>1, <2>3
    <3> QED  BY <3>1, <3>2, <2>3, <1>1
  <2> QED  BY <2>3, <2>4
<1> QED  BY <1>1, <1>2, <1>3 DEF Owned, lv2

(* The block at a, h's, has another size.                                  *)
LEMMA OwnedResized ==
  ASSUME NEW l \in Seq(BlockType), NEW l2 \in Seq(BlockType), NEW lv \in LiveType, NEW x,
         NEW h \in Handles, lv[h] # NoMemory, NEW a \in Nat, a = lv[h].ptr - Header,
         Same(l, l2, a), NEW n \in Sizes, Holds(l2, a, n), Owned(l, lv, x)
  PROVE  Owned(l2, [lv EXCEPT ![h] = [ptr |-> a + Header, size |-> n]], x)
<1> DEFINE lv2 == [lv EXCEPT ![h] = [ptr |-> a + Header, size |-> n]]
<1>1. lv2[h].ptr = a + Header /\ lv2[h].size = n /\ \A g \in Handles : g # h => lv2[g] = lv[g]
  BY DEF LiveType
<1>2. lv2[h] # NoMemory /\ lv2[h].ptr - Header = a /\ a # x /\ lv2[h].ptr = lv[h].ptr
  <2>1. (a + Header) - Header = a /\ a + Header # Null
    BY HeaderIs DEF Null
  <2>2. NoMemory.ptr = Null
    BY DEF NoMemory
  <2>3. a # x
    BY DEF Owned
  <2>4. a + Header = lv[h].ptr
    BY PointerIs
  <2> HIDE DEF lv2
  <2> QED  BY <2>1, <2>2, <2>3, <2>4, <1>1
<1> HIDE DEF lv2
<1>3. ASSUME NEW g \in Handles, g # h, lv2[g] # NoMemory
      PROVE  /\ Holds(l2, lv2[g].ptr - Header, lv2[g].size) /\ lv2[g].ptr - Header # x
  <2>1. lv2[g] = lv[g] /\ lv[g] # NoMemory
    BY <1>1, <1>3
  <2>2. Holds(l, lv[g].ptr - Header, lv[g].size) /\ lv[g].ptr - Header # x
    BY <2>1 DEF Owned
  <2>3. lv[g].ptr - Header # a
    <3>1. ASSUME lv[g].ptr - Header = lv[h].ptr - Header PROVE lv[g].ptr = lv[h].ptr
      BY <3>1, <2>1, PointerIs, HeaderIs
    <3> QED  BY <3>1, <2>1, <1>3 DEF Owned
  <2> QED  BY <2>1, <2>2, <2>3, HoldsKept
<1>4. ASSUME NEW i \in 1..Len(l2), Used(l2[i])
      PROVE  l2[i].addr = x \/ \E g \in Handles : lv2[g] # NoMemory /\ lv2[g].ptr - Header = l2[i].addr
  <2>1. CASE l2[i].addr = a
    BY <2>1, <1>2
  <2>2. CASE l2[i].addr # a
    <3>1. PICK j \in 1..Len(l) : Like(l[j], l2[i])
      BY <2>2, <1>4 DEF Same, Keeps
    <3>2. Used(l[j]) /\ l[j].addr = l2[i].addr
      BY <3>1, <1>4, LikeIs
    <3>3. CASE l[j].addr # x
      <4>1. PICK g \in Handles : lv[g] # NoMemory /\ lv[g].ptr - Header = l[j].addr
        BY <3>2, <3>3 DEF Owned
      <4>2. g # h
        BY <4>1, <3>2, <2>2
      <4> QED  BY <4>1, <4>2, <3>2, <1>1
    <3> QED  BY <3>2, <3>3
  <2> QED  BY <2>1, <2>2
<1>5. ASSUME NEW f \in Handles, NEW g \in Handles, lv2[f] # NoMemory, lv2[g] # NoMemory,
             lv2[f].ptr = lv2[g].ptr
      PROVE  f = g
  BY <1>1, <1>2, <1>5 DEF Owned
<1> QED  BY <1>1, <1>2, <1>3, <1>4, <1>5 DEF Owned, lv2

-----------------------------------------------------------------------------
(* What the invariant says of a state.                                     *)
LEMMA TypesAre ==
  ASSUME TypeOK
  PROVE  /\ blocks \in Seq(BlockType) /\ DOMAIN blocks = 1..Len(blocks) /\ Len(blocks) \in Nat
         /\ \A i \in 1..Len(blocks) : blocks[i] \in BlockType
         /\ brk \in 0..MaxBrk /\ brk \in Nat /\ MaxBrk \in Nat
         /\ live \in LiveType
         /\ call # NoCall => /\ call \in [op : Operations \cup {"move"}, handle : Handles,
                                          size : Sizes, to : Nat \cup {Null}]
                             /\ call.size \in Nat
<1>1. MaxBrk \in Nat /\ Sizes \subseteq Nat
  BY MemAssumption
<1>2. blocks \in Seq(BlockType) /\ brk \in 0..MaxBrk /\ live \in LiveType
  BY DEF TypeOK, LiveType
<1>3. /\ DOMAIN blocks = 1..Len(blocks) /\ Len(blocks) \in Nat
      /\ \A i \in 1..Len(blocks) : blocks[i] \in BlockType
  BY <1>2
<1>4. ASSUME call # NoCall
      PROVE  /\ call \in [op : Operations \cup {"move"}, handle : Handles,
                           size : Sizes, to : Nat \cup {Null}]
             /\ call.size \in Nat
  <2>1. call \in [op : Operations \cup {"move"}, handle : Handles, size : Sizes, to : Nat \cup {Null}]
    BY <1>4 DEF TypeOK
  <2>2. call.size \in Sizes
    BY <2>1
  <2> QED  BY <2>1, <2>2, <1>1
<1> QED  BY <1>1, <1>2, <1>3, <1>4

LEMMA WantedIs ==
  ASSUME TypeOK, call # NoCall
  PROVE  Wanted \in Nat /\ Wanted > 0 /\ Wanted % Align = 0 /\ call.size <= Wanted /\ call.size \in Nat \ {0}
<1>1. call.size \in Nat \ {0}
  BY TypesAre, MemAssumption
<1> QED  BY <1>1, PaddedIs DEF Wanted

LEMMA IndexIs ==
  ASSUME TypeOK, Tiled(blocks, brk), Away(blocks), NEW i \in 1..Len(blocks)
  PROVE  /\ IndexOf(blocks[i].addr) = i /\ Listed(blocks[i].addr)
         /\ \A j \in 1..Len(blocks) : blocks[j].addr = blocks[i].addr => j = i
<1>1. \A j \in 1..Len(blocks) : blocks[j].addr = blocks[i].addr => j = i
  BY TypesAre, AddressesDiffer
<1> QED  BY <1>1, TypesAre DEF IndexOf, Listed

LEMMA BlockOf ==
  ASSUME OsMemInv, NEW h \in Handles, live[h] # NoMemory
  PROVE  LET i == IndexOf(live[h].ptr - Header)
         IN  /\ i \in 1..Len(blocks) /\ Used(blocks[i])
             /\ blocks[i].addr = live[h].ptr - Header /\ live[h].size <= blocks[i].size
             /\ live[h].ptr - Header \in Nat
             /\ \A j \in 1..Len(blocks) : blocks[j].addr = live[h].ptr - Header => j = i
<1> DEFINE a == live[h].ptr - Header
<1>1. Holds(blocks, a, live[h].size)
  BY DEF OsMemInv, Owned
<1>2. PICK i \in 1..Len(blocks) : Used(blocks[i]) /\ blocks[i].addr = a /\ live[h].size <= blocks[i].size
  BY <1>1 DEF Holds
<1> HIDE DEF a
<1>3. IndexOf(a) = i /\ \A j \in 1..Len(blocks) : blocks[j].addr = a => j = i
  BY <1>2, IndexIs DEF OsMemInv
<1>4. blocks[i].addr \in Nat
  BY TypesAre, BlockIs DEF OsMemInv
<1> QED  BY <1>2, <1>3, <1>4 DEF a

(* The block an os_realloc is about.                                       *)
LEMMA CurrentIs ==
  ASSUME OsMemInv, call # NoCall, live[call.handle] # NoMemory
  PROVE  /\ Current \in 1..Len(blocks) /\ Used(blocks[Current]) /\ blocks[Current].addr = Old
         /\ live[call.handle].size <= blocks[Current].size /\ Old \in Nat
         /\ \A j \in 1..Len(blocks) : blocks[j].addr = Old => j = Current
         /\ blocks[Current] \in BlockType
         /\ Holds(blocks, Old, 0) /\ ~Holds(blocks, Old, blocks[Current].size + 1)
<1>1. call.handle \in Handles
  BY TypesAre DEF OsMemInv
<1>2. /\ Current \in 1..Len(blocks) /\ Used(blocks[Current]) /\ blocks[Current].addr = Old
      /\ live[call.handle].size <= blocks[Current].size /\ Old \in Nat
      /\ \A j \in 1..Len(blocks) : blocks[j].addr = Old => j = Current
  BY <1>1, BlockOf DEF Current, Old
<1>3. blocks[Current] \in BlockType
  BY <1>2, TypesAre DEF OsMemInv
<1>4. 0 <= blocks[Current].size /\ blocks[Current].size \in Nat
  BY <1>3, BlockIs
<1>5. Holds(blocks, Old, 0)
  BY <1>2, <1>4 DEF Holds
<1>6. ~Holds(blocks, Old, blocks[Current].size + 1)
  <2>1. SUFFICES ASSUME NEW j \in 1..Len(blocks), blocks[j].addr = Old,
                        blocks[Current].size + 1 <= blocks[j].size
                 PROVE  FALSE
    BY DEF Holds
  <2> QED  BY <2>1, <1>2, <1>4
<1> QED  BY <1>2, <1>3, <1>5, <1>6

LEMMA NewAddress ==
  ASSUME TypeOK, Tiled(blocks, brk), Away(blocks)
  PROVE  /\ \A i \in 1..Len(blocks) : ~Used(blocks[i]) => ~Holds(blocks, blocks[i].addr, 0)
         /\ ~Holds(blocks, brk, 0)
         /\ \A a \in MapAddrs : (\A i \in 1..Len(blocks) : ~OnHeap(blocks[i]) => blocks[i].addr # a)
               => ~Holds(blocks, a, 0)
<1>1. ASSUME NEW i \in 1..Len(blocks), ~Used(blocks[i]) PROVE ~Holds(blocks, blocks[i].addr, 0)
  BY <1>1, IndexIs DEF Holds
<1>2. ASSUME NEW i \in 1..Len(blocks), OnHeap(blocks[i]) PROVE blocks[i].addr < brk
  <2>1. Over(blocks[i]) <= brk
    BY <1>2, TypesAre, HeapInOrder
  <2> QED  BY <2>1, TypesAre, BlockIs
<1>3. \A a \in MapAddrs : a > MaxBrk /\ a \in Nat
  BY MemAssumption
<1>4. ASSUME NEW i \in 1..Len(blocks) PROVE blocks[i].addr # brk
  <2>1. CASE OnHeap(blocks[i])
    BY <2>1, <1>2, TypesAre, BlockIs
  <2>2. CASE ~OnHeap(blocks[i])
    <3>1. blocks[i].addr > MaxBrk
      BY <2>2, <1>3 DEF Away
    <3> QED  BY <3>1, TypesAre
  <2> QED  BY <2>1, <2>2
<1>5. ASSUME NEW a \in MapAddrs, \A i \in 1..Len(blocks) : ~OnHeap(blocks[i]) => blocks[i].addr # a,
             NEW i \in 1..Len(blocks)
      PROVE  blocks[i].addr # a
  <2>1. CASE OnHeap(blocks[i])
    <3>1. blocks[i].addr < brk /\ blocks[i].addr \in Nat
      BY <2>1, <1>2, TypesAre, BlockIs
    <3> QED  BY <3>1, <1>3, TypesAre
  <2> QED  BY <2>1, <1>5
<1> QED  BY <1>1, <1>4, <1>5 DEF Holds

-----------------------------------------------------------------------------
(* The steps that leave the blocks as they are.                            *)
LEMMA StopKeeps ==
  ASSUME OsMemInv, pc # "copy", pc' \in {"exit", "crashed"}, fault' \in Faults,
         UNCHANGED <<blocks, tail, brk, call, cur, live>>
  PROVE  OsMemInv'
<1>1. TypeOK'
  BY DEF OsMemInv, TypeOK
<1>2. Owned(blocks', live', Taken')
  BY DEF OsMemInv, Taken
<1>3. CallInv' /\ ListInv' /\ MoveInv'
  BY DEF CallInv, ListInv, MoveInv, Moving
<1> QED  BY <1>1, <1>2, <1>3 DEF OsMemInv

LEMMA FaultKeeps ==
  ASSUME OsMemInv, pc # "copy", NEW kind \in Faults, Fault(kind) PROVE OsMemInv'
  BY StopKeeps DEF Fault

LEMMA DieKeeps == ASSUME OsMemInv, pc # "copy", Die PROVE OsMemInv'
<1>1. fault' \in Faults
  BY DEF Die, OsMemInv, TypeOK
<1> QED  BY <1>1, StopKeeps DEF Die

LEMMA CallKeeps ==
  ASSUME OsMemInv, NEW op \in Operations, NEW h \in Handles, NEW n \in Sizes, Call(op, h, n)
  PROVE  OsMemInv'
<1>1. TypeOK'
  BY DEF OsMemInv, TypeOK, Call
<1>2. Owned(blocks', live', Taken')
  BY DEF OsMemInv, Taken, Call
<1>3. op \in {"malloc", "calloc", "realloc"} /\ cur = 1 /\ call'.op = op /\ call'.handle = h /\ call' # NoCall
      /\ pc' = "coalesce"
  <2>1. op \in {"malloc", "calloc", "realloc"}
    BY MemAssumption
  <2> QED  BY <2>1 DEF OsMemInv, CallInv, Call, NoCall
<1>4. CallInv'
  BY <1>3 DEF CallInv, Call
<1>5. ListInv'
  BY <1>3, TypesAre DEF ListInv, Call, NoneGone, NoFreePair, TailIsLast, OsMemInv
<1>6. MoveInv'
  BY <1>3 DEF MoveInv, Moving
<1> QED  BY <1>1, <1>2, <1>4, <1>5, <1>6 DEF OsMemInv, Call

LEMMA MoveKeeps ==
  ASSUME OsMemInv, pc \in {"resize", "fit"}, Move, Outgrown(blocks, Old, Wanted)
  PROVE  OsMemInv'
<1>1. call # NoCall /\ call.op = "realloc" /\ live[call.handle] # NoMemory /\ cur = 1
  BY DEF OsMemInv, CallInv
<1>2. call \in [op : Operations \cup {"move"}, handle : Handles, size : Sizes, to : Nat \cup {Null}]
  BY <1>1, TypesAre DEF OsMemInv
<1>3. /\ call'.op = "move" /\ call'.handle = call.handle /\ call'.size = call.size
      /\ call' # NoCall /\ pc' = "coalesce"
      /\ call' \in [op : Operations \cup {"move"}, handle : Handles, size : Sizes, to : Nat \cup {Null}]
  BY <1>2 DEF Move, NoCall
<1>4. TypeOK'
  BY <1>3 DEF OsMemInv, TypeOK, Move
<1>5. Owned(blocks', live', Taken')
  BY DEF OsMemInv, Taken, Move
<1>6. CallInv'
  BY <1>1, <1>3 DEF CallInv, Move
<1>7. ListInv'
  BY <1>1, <1>3, TypesAre DEF ListInv, Move, NoneGone, NoFreePair, TailIsLast, OsMemInv
<1>8. MoveInv'
  BY <1>3 DEF MoveInv, Moving, Move, Old, Wanted
<1> QED  BY <1>3, <1>4, <1>5, <1>6, <1>7, <1>8 DEF OsMemInv, Move

LEMMA AdvanceKeeps == ASSUME OsMemInv, Advance PROVE OsMemInv'
<1>1. /\ cur \in 1..Len(blocks) /\ Len(blocks) \in Nat /\ cur' = cur + 1 /\ pc = "coalesce" /\ pc' = "coalesce"
      /\ blocks' = blocks /\ call' = call /\ live' = live
  BY TypesAre DEF OsMemInv, TypeOK, Advance
<1>2. TypeOK'
  <2>1. tail' \in Nat \cup {Null}
    <3>1. blocks[cur].addr \in Nat
      BY <1>1, TypesAre, BlockIs DEF OsMemInv
    <3> QED  BY <3>1 DEF Advance, OsMemInv, TypeOK
  <2> QED  BY <2>1, <1>1 DEF OsMemInv, TypeOK, Advance
<1>3. Owned(blocks', live', Taken')
  BY DEF OsMemInv, Taken, Advance
<1>4. CallInv'
  BY <1>1 DEF CallInv, OsMemInv
<1>5. ListInv'
  <2>1. NoneGone(blocks, cur + 1)
    BY <1>1 DEF OsMemInv, ListInv, NoneGone, Advance
  <2>2. NoFreePair(blocks, cur + 1)
    <3>1. ASSUME NEW i \in 1..(Len(blocks) - 1), i < cur + 1
          PROVE  ~(blocks[i].status = "FREE" /\ blocks[i + 1].status = "FREE")
      <4>1. CASE i < cur
        BY <4>1, <1>1 DEF OsMemInv, ListInv, NoFreePair
      <4>2. CASE i = cur
        BY <4>2, <1>1 DEF Advance
      <4> QED  BY <3>1, <4>1, <4>2, <1>1
    <3> QED  BY <3>1 DEF NoFreePair
  <2>3. cur + 1 > Len(blocks) => tail' = Last(blocks).addr
    BY <1>1 DEF Advance, Last
  <2> QED  BY <2>1, <2>2, <2>3, <1>1 DEF ListInv, TailIsLast
<1>6. MoveInv'
  BY <1>1 DEF MoveInv, Moving, OsMemInv, Old, Wanted
<1> QED  BY <1>2, <1>3, <1>4, <1>5, <1>6 DEF OsMemInv, Advance

LEMMA CoalescedKeeps == ASSUME OsMemInv, Coalesced PROVE OsMemInv'
<1>1. /\ cur > Len(blocks) /\ Len(blocks) \in Nat /\ cur' = 1 /\ pc = "coalesce" /\ call # NoCall
      /\ pc' \in {"resize", "place"} /\ (pc' = "resize" <=> call.op = "realloc") /\ cur \in Nat
      /\ UNCHANGED <<blocks, tail, call, live>>
  BY TypesAre DEF OsMemInv, TypeOK, Coalesced, CallInv
<1>2. TypeOK'
  BY <1>1 DEF OsMemInv, TypeOK, Coalesced
<1>3. Owned(blocks', live', Taken')
  BY <1>1 DEF OsMemInv, Taken
<1>4. CallInv'
  BY <1>1 DEF CallInv, OsMemInv
<1>5. ListInv'
  <2>1. NoneGone(blocks, Len(blocks) + 1) /\ NoFreePair(blocks, Len(blocks)) /\ TailIsLast
    BY <1>1 DEF OsMemInv, ListInv, NoneGone, NoFreePair
  <2>2. pc' = "resize" => blocks # <<>>
    <3>1. ASSUME pc' = "resize" PROVE Current \in 1..Len(blocks)
      BY <3>1, <1>1, CurrentIs DEF OsMemInv, CallInv
    <3> QED  BY <3>1, <1>1
  <2> QED  BY <2>1, <2>2, <1>1 DEF ListInv, TailIsLast
<1>6. MoveInv'
  BY <1>1 DEF MoveInv, Moving, OsMemInv, Old, Wanted
<1> QED  BY <1>2, <1>3, <1>4, <1>5, <1>6 DEF OsMemInv, Coalesced

-----------------------------------------------------------------------------
(* Block i takes over the free block after it.                             *)
LEMMA MergedList ==
  ASSUME TypeOK, NEW i \in 1..(Len(blocks) - 1), NEW l2,
         l2 = RemoveAt([blocks EXCEPT ![i] = Merged(i)], i + 1)
  PROVE  /\ l2 \in Seq(BlockType) /\ Len(l2) = Len(blocks) - 1
         /\ l2[i] = Merged(i)
         /\ \A j \in 1..Len(l2) : j # i => l2[j] = blocks[After(i + 1, j)]
<1>1. /\ blocks \in Seq(BlockType) /\ Len(blocks) \in Nat /\ i \in 1..Len(blocks) /\ i + 1 \in 1..Len(blocks)
      /\ blocks[i] \in BlockType /\ blocks[i + 1] \in BlockType
  BY TypesAre
<1>2. Merged(i) \in BlockType
  <2>1. blocks[i].size + blocks[i + 1].size + Header \in Nat
    BY <1>1, HeaderIs, BlockIs
  <2> QED  BY <2>1, <1>1 DEF Merged, BlockType
<1> DEFINE k == [blocks EXCEPT ![i] = Merged(i)]
<1>3. /\ k \in Seq(BlockType) /\ Len(k) = Len(blocks) /\ k[i] = Merged(i)
      /\ \A j \in 1..Len(blocks) : j # i => k[j] = blocks[j]
  BY <1>1, <1>2
<1> HIDE DEF k
<1>4. /\ RemoveAt(k, i + 1) \in Seq(BlockType) /\ Len(RemoveAt(k, i + 1)) = Len(k) - 1
      /\ \A j \in 1..(Len(k) - 1) : RemoveAt(k, i + 1)[j] = IF j < i + 1 THEN k[j] ELSE k[j + 1]
  <2>1. i + 1 \in 1..Len(k)
    BY <1>1, <1>3
  <2> QED  BY <2>1, <1>3, RemoveAtIs
<1>5. l2 = RemoveAt(k, i + 1)
  BY DEF k
<1>6. l2[i] = Merged(i)
  BY <1>1, <1>3, <1>4, <1>5
<1>7. ASSUME NEW j \in 1..Len(l2), j # i PROVE l2[j] = blocks[After(i + 1, j)]
  BY <1>1, <1>3, <1>4, <1>5, <1>7 DEF After
<1> QED  BY <1>3, <1>4, <1>5, <1>6, <1>7

LEMMA MergedKeeps ==
  ASSUME TypeOK, Tiled(blocks, brk), Away(blocks),
         NEW i \in 1..(Len(blocks) - 1), OnHeap(blocks[i]), blocks[i + 1].status = "FREE",
         NEW l2 \in Seq(BlockType), Len(l2) = Len(blocks) - 1,
         l2[i].addr = blocks[i].addr, l2[i].status = blocks[i].status,
         l2[i].size = blocks[i].size + blocks[i + 1].size + Header,
         \A j \in 1..Len(l2) : j # i => Like(l2[j], blocks[After(i + 1, j)])
  PROVE  Tiled(l2, brk) /\ Away(l2) /\ Same(blocks, l2, blocks[i].addr)
<1>1. /\ blocks \in Seq(BlockType) /\ Len(blocks) \in Nat /\ i \in 1..Len(blocks) /\ i + 1 \in 1..Len(blocks)
      /\ brk \in Nat
  BY TypesAre
<1>2. OnHeap(blocks[i + 1]) /\ ~Used(blocks[i + 1])
  BY DEF OnHeap, Used
<1>3. Tiled(l2, brk) /\ Away(l2)
  BY <1>1, <1>2, MergedBlocks
<1>4. After(i + 1, i) = i
  BY <1>1 DEF After
<1>5. \A j \in 1..Len(l2) : \/ Like(l2[j], blocks[After(i + 1, j)])
                            \/ l2[j].addr = blocks[i].addr /\ blocks[After(i + 1, j)].addr = blocks[i].addr
  BY <1>4
<1>6. Same(blocks, l2, blocks[i].addr)
  BY <1>1, <1>2, <1>5, SameDeleted
<1> QED  BY <1>3, <1>6

LEMMA MergeNextKeeps == ASSUME OsMemInv, MergeNext PROVE OsMemInv'
<1> DEFINE i == cur
<1>1. /\ i \in 1..(Len(blocks) - 1) /\ Len(blocks) \in Nat /\ pc = "coalesce" /\ pc' = "coalesce" /\ cur' = i
      /\ blocks' = RemoveAt([blocks EXCEPT ![i] = Merged(i)], i + 1)
      /\ blocks[i].status = "FREE" /\ blocks[i + 1].status = "FREE"
      /\ UNCHANGED <<tail, brk, call, live, fault>> /\ call # NoCall
  BY TypesAre DEF OsMemInv, TypeOK, MergeNext, CallInv
<1> HIDE DEF i
<1>2. TypeOK /\ Tiled(blocks, brk) /\ Away(blocks) /\ blocks \in Seq(BlockType)
  BY TypesAre DEF OsMemInv
<1>3. /\ blocks' \in Seq(BlockType) /\ Len(blocks') = Len(blocks) - 1
      /\ blocks'[i] = Merged(i)
      /\ \A j \in 1..Len(blocks') : j # i => blocks'[j] = blocks[After(i + 1, j)]
  BY <1>1, <1>2, MergedList
<1>4. blocks'[i].addr = blocks[i].addr /\ blocks'[i].status = blocks[i].status
      /\ blocks'[i].size = blocks[i].size + blocks[i + 1].size + Header
  <2>1. blocks[i] \in BlockType
    BY <1>1, <1>2
  <2> QED  BY <2>1, <1>3 DEF Merged, BlockType
<1>5. Tiled(blocks', brk) /\ Away(blocks') /\ Same(blocks, blocks', blocks[i].addr)
  <2>1. OnHeap(blocks[i])
    BY <1>1 DEF OnHeap
  <2>2. \A j \in 1..Len(blocks') : j # i => Like(blocks'[j], blocks[After(i + 1, j)])
    BY <1>3 DEF Like
  <2> QED  BY <2>1, <2>2, <1>1, <1>2, <1>3, <1>4, MergedKeeps
<1>6. Same(blocks, blocks', Null)
  <2>1. ~Holds(blocks, blocks[i].addr, 0)
    <3>1. i \in 1..Len(blocks) /\ ~Used(blocks[i])
      BY <1>1 DEF Used
    <3> QED  BY <3>1, <1>2, NewAddress
  <2>2. ~Holds(blocks', blocks[i].addr, 0)
    <3>1. SUFFICES ASSUME NEW j \in 1..Len(blocks'), Used(blocks'[j]), blocks'[j].addr = blocks[i].addr
                   PROVE  FALSE
      BY DEF Holds
    <3>2. j # i
      BY <3>1, <1>1, <1>4 DEF Used
    <3>3. After(i + 1, j) \in 1..Len(blocks) /\ After(i + 1, j) # i
      BY <3>2, <1>1, <1>3 DEF After
    <3>4. blocks[After(i + 1, j)].addr = blocks[i].addr
      BY <3>1, <3>2, <1>3
    <3>5. i \in 1..Len(blocks)
      BY <1>1
    <3>6. After(i + 1, j) = i
      BY <3>3, <3>4, <3>5, <1>2, IndexIs
    <3> QED  BY <3>3, <3>6
  <2> QED  BY <2>1, <2>2, <1>2, <1>3, <1>5, SameIfUnused
<1>7. TypeOK'
  BY <1>1, <1>3 DEF OsMemInv, TypeOK, MergeNext
<1>8. Owned(blocks', live', Taken')
  <2>1. Owned(blocks, live, Null) /\ Taken' = Null
    BY <1>1 DEF OsMemInv, Taken
  <2>2. Owned(blocks', live, Null)
    BY <2>1, <1>2, <1>3, <1>6, TypesAre, OwnedSame
  <2> QED  BY <2>1, <2>2, <1>1
<1>9. CallInv'
  BY <1>1 DEF CallInv, OsMemInv
<1>10. ListInv'
  <2>1. NoneGone(blocks, i) /\ NoFreePair(blocks, i)
    BY <1>1 DEF OsMemInv, ListInv, i
  <2>2. ASSUME NEW j \in 1..Len(blocks'), j < i
        PROVE  blocks'[j] = blocks[j] /\ j \in 1..Len(blocks) /\ j \in 1..(Len(blocks) - 1)
    <3>1. j \in Nat /\ i \in Nat /\ j # i /\ j < i + 1
      BY <2>2, <1>1
    <3>2. After(i + 1, j) = j
      BY <3>1 DEF After
    <3>3. j \in 1..Len(blocks) /\ j \in 1..(Len(blocks) - 1)
      BY <2>2, <1>1, <1>3
    <3> QED  BY <3>1, <3>2, <3>3, <1>3
  <2>3. NoneGone(blocks', i)
    BY <2>1, <2>2 DEF NoneGone
  <2>4. NoFreePair(blocks', i)
    <3>1. SUFFICES ASSUME NEW j \in 1..(Len(blocks') - 1), j < i
                   PROVE  ~(blocks'[j].status = "FREE" /\ blocks'[j + 1].status = "FREE")
      BY DEF NoFreePair
    <3>0. j \in 1..Len(blocks') /\ j \in Nat /\ i \in Nat
      BY <3>1, <1>1, <1>3
    <3>2. blocks'[j] = blocks[j] /\ j \in 1..(Len(blocks) - 1) /\ j \in Nat /\ i \in Nat
      BY <3>0, <3>1, <2>2
    <3>3. blocks'[j + 1].status = blocks[j + 1].status
      <4>1. CASE j + 1 = i
        BY <4>1, <1>4
      <4>2. CASE j + 1 < i
        <5>1. j + 1 \in 1..Len(blocks')
          BY <3>1, <1>1, <1>3
        <5> QED  BY <5>1, <4>2, <2>2
      <4> QED  BY <3>1, <3>2, <4>1, <4>2
    <3>4. ~(blocks[j].status = "FREE" /\ blocks[j + 1].status = "FREE")
      BY <3>1, <3>2, <2>1 DEF NoFreePair
    <3> QED  BY <3>2, <3>3, <3>4
  <2>5. ~(i > Len(blocks'))
    BY <1>1, <1>3
  <2> QED  BY <2>3, <2>4, <2>5, <1>1 DEF ListInv
<1>11. MoveInv'
  <2>1. ASSUME Moving' PROVE Outgrown(blocks', Old', Wanted')
    <3>1. Moving /\ Outgrown(blocks, Old, Wanted) /\ Old' = Old /\ Wanted' = Wanted
      BY <2>1, <1>1 DEF OsMemInv, MoveInv, Moving, Old, Wanted
    <3>2. Old # Null
      <4>1. live[call.handle] # NoMemory
        BY <3>1, <1>1 DEF OsMemInv, CallInv, Moving
      <4> QED  BY <4>1, <1>1, CurrentIs DEF Null
    <3> QED  BY <3>1, <3>2, <1>6, OutgrownKept
  <2> QED  BY <2>1, <1>1 DEF MoveInv
<1> QED  BY <1>1, <1>5, <1>7, <1>8, <1>9, <1>10, <1>11 DEF OsMemInv

-----------------------------------------------------------------------------
(* Block i is split, kept, or grown.                                       *)
LEMMA ReplaceIs ==
  ASSUME NEW l \in Seq(BlockType), NEW i \in 1..Len(l), NEW b \in BlockType
  PROVE  LET l2 == [l EXCEPT ![i] = b]
         IN  /\ l2 \in Seq(BlockType) /\ Len(l2) = Len(l) /\ l2[i] = b
             /\ \A j \in 1..Len(l) : j # i => l2[j] = l[j]
OBVIOUS

LEMMA SizesAdd ==
  ASSUME NEW a \in Nat, NEW h \in Nat, NEW n \in Nat, NEW s \in Nat
  PROVE  /\ a + h + n \in Nat
         /\ n + h < s => s - n - h \in Nat /\ s - n - h > 0
         /\ (a + h + n) + h + (s - n - h) = a + h + s
OBVIOUS

LEMMA SplitList ==
  ASSUME TypeOK, NEW i \in 1..Len(blocks), NEW n \in Nat, n + Header < blocks[i].size, Split(i, n)
  PROVE  /\ blocks' \in Seq(BlockType) /\ Len(blocks') = Len(blocks) + 1
         /\ blocks'[i].addr = blocks[i].addr /\ blocks'[i].size = n /\ blocks'[i].status = "ALLOC"
         /\ blocks'[i].prev = blocks[i].prev
         /\ blocks'[i + 1] = Block(blocks[i].addr + Header + n, blocks[i].size - n - Header,
                                   "FREE", blocks[i].addr)
         /\ \A j \in 1..Len(blocks') : j # i /\ j # i + 1 =>
               /\ Like(blocks'[j], blocks[Without(i, j)])
               /\ blocks'[j].prev = IF j = i + 2 THEN blocks[i].addr + Header + n
                                    ELSE blocks[Without(i, j)].prev
         /\ tail' = IF i = Len(blocks) THEN blocks[i].addr + Header + n ELSE tail
<1> DEFINE rest == Block(blocks[i].addr + Header + n, blocks[i].size - n - Header,
                         "FREE", blocks[i].addr)
           kept == [blocks EXCEPT ![i].size = n, ![i].status = "ALLOC"]
           k == IF i = Len(blocks) THEN kept ELSE [kept EXCEPT ![i + 1].prev = rest.addr]
<1>1. /\ blocks \in Seq(BlockType) /\ Len(blocks) \in Nat /\ i \in Nat /\ 1 <= i /\ i <= Len(blocks)
      /\ blocks[i] \in BlockType /\ \A j \in 1..Len(blocks) : blocks[j] \in BlockType
  BY TypesAre
<1>2. blocks' = InsertAt(k, i + 1, rest) /\ tail' = IF i = Len(blocks) THEN rest.addr ELSE tail
  BY DEF Split
<1>3. rest \in BlockType /\ rest.addr = blocks[i].addr + Header + n /\ rest.addr \in Nat
  <2>0. blocks[i].addr \in Nat /\ blocks[i].size \in Nat /\ Header \in Nat
    BY <1>1, HeaderIs, BlockIs
  <2>1. blocks[i].addr + Header + n \in Nat /\ blocks[i].size - n - Header \in Nat /\ blocks[i].addr \in Nat
    BY <2>0, SizesAdd, Zenon
  <2> QED  BY <2>1 DEF Block, BlockType, Statuses
<1> HIDE DEF rest
<1>4. /\ kept \in Seq(BlockType) /\ Len(kept) = Len(blocks)
      /\ kept[i].addr = blocks[i].addr /\ kept[i].size = n /\ kept[i].status = "ALLOC"
      /\ kept[i].prev = blocks[i].prev
      /\ \A j \in 1..Len(blocks) : j # i => kept[j] = blocks[j]
  <2> DEFINE b == [[blocks[i] EXCEPT !.size = n] EXCEPT !.status = "ALLOC"]
  <2>1. b \in BlockType /\ b.addr = blocks[i].addr /\ b.size = n /\ b.status = "ALLOC" /\ b.prev = blocks[i].prev
    BY <1>1 DEF BlockType, Statuses
  <2>2. kept = [blocks EXCEPT ![i] = b]
    BY <1>1 DEF BlockType
  <2> HIDE DEF b, kept
  <2> QED  BY <2>1, <2>2, <1>1
<1> HIDE DEF kept
<1>5. /\ k \in Seq(BlockType) /\ Len(k) = Len(blocks) /\ k[i] = kept[i]
      /\ \A j \in 1..Len(blocks) : j # i =>
            /\ Like(k[j], blocks[j])
            /\ k[j].prev = IF j = i + 1 THEN rest.addr ELSE blocks[j].prev
  <2>1. CASE i = Len(blocks)
    <3>1. k = kept /\ \A j \in 1..Len(blocks) : j # i + 1
      BY <2>1, <1>1
    <3> QED  BY <3>1, <1>4 DEF Like
  <2>2. CASE i # Len(blocks)
    <3>1. i + 1 \in 1..Len(blocks) /\ i + 1 # i
      BY <2>2, <1>1
    <3> DEFINE b == [blocks[i + 1] EXCEPT !.prev = rest.addr]
    <3>2. b \in BlockType /\ b.prev = rest.addr /\ Like(b, blocks[i + 1])
      BY <3>1, <1>1, <1>3 DEF BlockType, Like
    <3>3. k = [kept EXCEPT ![i + 1] = b]
      BY <3>1, <2>2, <1>4
    <3> HIDE DEF b, k
    <3>4. k \in Seq(BlockType) /\ Len(k) = Len(blocks) /\ k[i + 1] = b
          /\ \A j \in 1..Len(blocks) : j # i + 1 => k[j] = kept[j]
      BY <3>1, <3>2, <3>3, <1>4
    <3> QED  BY <3>1, <3>2, <3>4, <1>1, <1>4 DEF Like
  <2> QED  BY <2>1, <2>2
<1> HIDE DEF k
<1>6. /\ blocks' \in Seq(BlockType) /\ Len(blocks') = Len(blocks) + 1
      /\ blocks'[i + 1] = rest
      /\ \A j \in 1..i : blocks'[j] = k[j]
      /\ \A j \in (i + 2)..(Len(blocks) + 1) : blocks'[j] = k[j - 1]
  <2>1. PICK m \in 1..(Len(k) + 1) : m = i + 1
    BY <1>1, <1>5
  <2>2. /\ InsertAt(k, m, rest) \in Seq(BlockType) /\ Len(InsertAt(k, m, rest)) = Len(k) + 1
        /\ InsertAt(k, m, rest)[m] = rest
        /\ \A j \in 1..(m - 1) : InsertAt(k, m, rest)[j] = k[j]
        /\ \A j \in (m + 1)..(Len(k) + 1) : InsertAt(k, m, rest)[j] = k[j - 1]
    <3>1. rest \in BlockType /\ k \in Seq(BlockType)
      BY <1>3, <1>5
    <3> QED  BY ONLY <3>1, m \in 1..(Len(k) + 1), InsertAtIs, Zenon
  <2>3. m - 1 = i /\ m + 1 = i + 2 /\ Len(k) = Len(blocks) /\ m = i + 1
    BY <2>1, <1>1, <1>5
  <2>4. blocks' = InsertAt(k, m, rest)
    BY <2>3, <1>2
  <2>5. /\ blocks' \in Seq(BlockType) /\ Len(blocks') = Len(k) + 1 /\ blocks'[m] = rest
        /\ \A j \in 1..(m - 1) : blocks'[j] = k[j]
        /\ \A j \in (m + 1)..(Len(k) + 1) : blocks'[j] = k[j - 1]
    BY ONLY <2>2, <2>4, Zenon
  <2>6. blocks'[i + 1] = rest /\ Len(blocks') = Len(blocks) + 1 /\ blocks' \in Seq(BlockType)
    BY ONLY <2>5, <2>3, Zenon
  <2>7. ASSUME NEW j \in 1..i PROVE blocks'[j] = k[j]
    BY ONLY <2>5, <2>3, <2>7, Zenon
  <2>8. ASSUME NEW j \in (i + 2)..(Len(blocks) + 1) PROVE blocks'[j] = k[j - 1]
    BY ONLY <2>5, <2>3, <2>8, Zenon
  <2> QED  BY ONLY <2>6, <2>7, <2>8, Zenon
<1>7. blocks'[i] = k[i]
  <2>1. i \in 1..i
    BY <1>1
  <2> QED  BY <2>1, <1>6, Zenon
<1>8. ASSUME NEW j \in 1..Len(blocks'), j # i, j # i + 1
      PROVE  /\ Like(blocks'[j], blocks[Without(i, j)])
             /\ blocks'[j].prev = IF j = i + 2 THEN rest.addr ELSE blocks[Without(i, j)].prev
  <2>1. CASE j < i
    <3>1. Without(i, j) = j /\ j \in 1..i /\ j \in 1..Len(blocks) /\ j # i + 1 /\ j # i + 2
      BY <2>1, <1>1, <1>6 DEF Without
    <3>2. blocks'[j] = k[j]
      BY <3>1, <1>6
    <3>3. Like(k[j], blocks[j]) /\ k[j].prev = blocks[j].prev
      BY <3>1, <1>5, <1>8
    <3> QED  BY ONLY <3>1, <3>2, <3>3
  <2>2. CASE ~(j < i)
    <3>1. /\ Without(i, j) = j - 1 /\ j - 1 \in 1..Len(blocks) /\ j \in (i + 2)..(Len(blocks) + 1)
          /\ j - 1 # i /\ (j - 1 = i + 1 <=> j = i + 2)
      BY <2>2, <1>1, <1>6, <1>8 DEF Without
    <3>2. blocks'[j] = k[j - 1]
      BY <3>1, <1>6
    <3>3. /\ Like(k[j - 1], blocks[j - 1])
          /\ k[j - 1].prev = IF j - 1 = i + 1 THEN rest.addr ELSE blocks[j - 1].prev
      BY <3>1, <1>5
    <3> QED  BY ONLY <3>1, <3>2, <3>3
  <2> QED  BY <2>1, <2>2
<1> QED  BY <1>2, <1>3, <1>4, <1>5, <1>6, <1>7, <1>8 DEF rest

LEMMA SplitKeeps ==
  ASSUME TypeOK, Tiled(blocks, brk), Away(blocks),
         NEW i \in 1..Len(blocks), OnHeap(blocks[i]),
         NEW n \in Nat, n > 0, n % Align = 0, n + Header < blocks[i].size, Split(i, n)
  PROVE  /\ blocks' \in Seq(BlockType) /\ tail' \in Nat \cup {Null}
         /\ Tiled(blocks', brk) /\ Away(blocks') /\ Same(blocks, blocks', blocks[i].addr)
         /\ Holds(blocks', blocks[i].addr, n)
         /\ NoneGone(blocks, Len(blocks) + 1) => NoneGone(blocks', Len(blocks') + 1)
<1> DEFINE rest == Block(blocks[i].addr + Header + n, blocks[i].size - n - Header,
                         "FREE", blocks[i].addr)
<1>1. /\ blocks \in Seq(BlockType) /\ Len(blocks) \in Nat /\ i \in 1..(Len(blocks) + 1) /\ brk \in Nat
      /\ blocks[i] \in BlockType /\ i + 1 \in 1..(Len(blocks) + 1) /\ i # i + 1
  BY TypesAre
<1>2. /\ blocks' \in Seq(BlockType) /\ Len(blocks') = Len(blocks) + 1
      /\ blocks'[i].addr = blocks[i].addr /\ blocks'[i].size = n /\ blocks'[i].status = "ALLOC"
      /\ blocks'[i + 1] = rest
      /\ \A j \in 1..Len(blocks') : j # i /\ j # i + 1 => Like(blocks'[j], blocks[Without(i, j)])
      /\ tail' = IF i = Len(blocks) THEN blocks[i].addr + Header + n ELSE tail
  BY SplitList
<1>3. /\ rest.addr = blocks[i].addr + Header + n /\ rest.size = blocks[i].size - n - Header
      /\ rest.status = "FREE"
  BY DEF Block
<1> HIDE DEF rest
<1>4. /\ blocks[i].addr \in Nat /\ blocks[i].size \in Nat /\ Header \in Nat
      /\ Align \in Nat \ {0} /\ Header % Align = 0
      /\ blocks[i].addr % Align = 0 /\ blocks[i].size % Align = 0
  BY <1>1, HeaderIs, BlockIs, MemAssumption DEF Tiled, Sound
<1>5. Sound(blocks'[i])
  BY <1>2, <1>4 DEF Sound
<1>6. Sound(rest)
  <2>1. (blocks[i].addr + Header) % Align = 0 /\ (blocks[i].size - n) % Align = 0
    <3>1. blocks[i].addr \in Int /\ blocks[i].size \in Int /\ n \in Int /\ Header \in Int
      BY <1>4
    <3> QED  BY <3>1, <1>4, SumIsMultiple, Zenon
  <2>2. blocks[i].addr + Header \in Int /\ blocks[i].size - n \in Int /\ n \in Int /\ Header \in Int
    BY <1>4
  <2>3. ((blocks[i].addr + Header) + n) % Align = 0 /\ ((blocks[i].size - n) - Header) % Align = 0
    BY <2>1, <2>2, <1>4, SumIsMultiple
  <2>4. rest.size > 0
    BY <1>3, <1>4
  <2> QED  BY <2>3, <2>4, <1>3 DEF Sound
<1>7. rest.addr = Over(blocks'[i]) /\ Over(rest) = Over(blocks[i])
  <2>1. rest.addr = Over(blocks'[i])
    BY <1>2, <1>3 DEF Over
  <2>2. (blocks[i].addr + Header + n) + Header + (blocks[i].size - n - Header)
            = blocks[i].addr + Header + blocks[i].size
    <3> DEFINE a == blocks[i].addr
               s == blocks[i].size
               h == Header
    <3>1. a \in Nat /\ s \in Nat /\ h \in Nat
      BY <1>4
    <3> HIDE DEF a, s, h
    <3>2. (a + h + n) + h + (s - n - h) = a + h + s
      BY ONLY <3>1, n \in Nat
    <3> QED  BY <3>2 DEF a, s, h
  <2> QED  BY <2>1, <2>2, <1>3 DEF Over
<1>8. OnHeap(blocks'[i]) /\ OnHeap(rest) /\ ~Used(rest) /\ Used(blocks'[i])
  BY <1>2, <1>3 DEF OnHeap, Used
<1>9. Tiled(blocks', brk) /\ Away(blocks')
  BY <1>1, <1>2, <1>5, <1>6, <1>7, <1>8, SplitBlocks
<1>10. Same(blocks, blocks', blocks[i].addr)
  BY <1>1, <1>2, <1>8, SameSplit
<1>11. Holds(blocks', blocks[i].addr, n)
  <2>1. n <= blocks'[i].size /\ i \in 1..Len(blocks')
    BY <1>1, <1>2
  <2> QED  BY <2>1, <1>2, <1>8 DEF Holds
<1>12. ASSUME NoneGone(blocks, Len(blocks) + 1) PROVE NoneGone(blocks', Len(blocks') + 1)
  <2>1. ASSUME NEW j \in 1..Len(blocks') PROVE blocks'[j].status # "UNMAPPED"
    <3>1. CASE j = i \/ j = i + 1
      BY <3>1, <1>2, <1>3
    <3>2. CASE j # i /\ j # i + 1
      <4>1. Without(i, j) \in 1..Len(blocks) /\ Without(i, j) < Len(blocks) + 1
        BY <3>2, <1>1, <1>2 DEF Without
      <4> QED  BY <4>1, <3>2, <1>2, <1>12 DEF Like, NoneGone
    <3> QED  BY <3>1, <3>2
  <2> QED  BY <2>1 DEF NoneGone
<1>13. tail' \in Nat \cup {Null}
  BY <1>2, <1>4 DEF TypeOK
<1> QED  BY <1>2, <1>9, <1>10, <1>11, <1>12, <1>13

LEMMA KeepKeeps ==
  ASSUME TypeOK, Tiled(blocks, brk), Away(blocks),
         NEW i \in 1..Len(blocks), OnHeap(blocks[i]),
         NEW n \in Nat, n <= blocks[i].size, Keep(i)
  PROVE  /\ blocks' \in Seq(BlockType) /\ tail' \in Nat \cup {Null}
         /\ Tiled(blocks', brk) /\ Away(blocks') /\ Same(blocks, blocks', blocks[i].addr)
         /\ Holds(blocks', blocks[i].addr, n)
         /\ NoneGone(blocks, Len(blocks) + 1) => NoneGone(blocks', Len(blocks') + 1)
<1> DEFINE b == [blocks[i] EXCEPT !.status = "ALLOC"]
<1>1. blocks \in Seq(BlockType) /\ Len(blocks) \in Nat /\ blocks[i] \in BlockType
  BY TypesAre
<1>2. b \in BlockType /\ b.addr = blocks[i].addr /\ b.size = blocks[i].size /\ b.status = "ALLOC"
  BY <1>1 DEF BlockType, Statuses
<1>3. blocks' = [blocks EXCEPT ![i] = b]
  BY <1>1 DEF Keep
<1> HIDE DEF b
<1>4. blocks' \in Seq(BlockType) /\ Len(blocks') = Len(blocks) /\ blocks'[i] = b
      /\ \A j \in 1..Len(blocks) : j # i => blocks'[j] = blocks[j]
  BY <1>1, <1>2, <1>3
<1>5. OnHeap(b) /\ Used(b)
  BY <1>2 DEF OnHeap, Used
<1>6. SameShape(blocks, blocks')
  BY <1>2, <1>4, <1>5 DEF SameShape
<1>7. Tiled(blocks', brk) /\ Away(blocks')
  BY <1>1, <1>4, <1>6, SameShapeTiled
<1>8. Same(blocks, blocks', blocks[i].addr)
  BY <1>2, <1>4, SameInPlace DEF Like
<1>9. Holds(blocks', blocks[i].addr, n)
  BY <1>2, <1>4, <1>5 DEF Holds
<1>10. NoneGone(blocks, Len(blocks) + 1) => NoneGone(blocks', Len(blocks') + 1)
  BY <1>1, <1>2, <1>4 DEF NoneGone
<1>11. tail' \in Nat \cup {Null}
  BY DEF Keep, TypeOK
<1> QED  BY <1>4, <1>7, <1>8, <1>9, <1>10, <1>11

(* The last block of the heap grows to n bytes, and the break with it.     *)
LEMMA GrownKeeps ==
  ASSUME TypeOK, Tiled(blocks, brk), Away(blocks),
         NEW i \in 1..Len(blocks), OnHeap(blocks[i]), \A j \in 1..Len(blocks) : j > i => ~OnHeap(blocks[j]),
         NEW n \in Nat, n > 0, n % Align = 0,
         blocks' = [blocks EXCEPT ![i].size = n, ![i].status = "ALLOC"]
  PROVE  /\ blocks' \in Seq(BlockType)
         /\ Tiled(blocks', brk + n - blocks[i].size) /\ brk + n - blocks[i].size \in Nat
         /\ Away(blocks') /\ Same(blocks, blocks', blocks[i].addr)
         /\ Holds(blocks', blocks[i].addr, n)
         /\ NoneGone(blocks, Len(blocks) + 1) => NoneGone(blocks', Len(blocks') + 1)
<1> DEFINE b == [[blocks[i] EXCEPT !.size = n] EXCEPT !.status = "ALLOC"]
<1>1. blocks \in Seq(BlockType) /\ Len(blocks) \in Nat /\ blocks[i] \in BlockType /\ brk \in Nat
  BY TypesAre
<1>2. b \in BlockType /\ b.addr = blocks[i].addr /\ b.size = n /\ b.status = "ALLOC"
  BY <1>1 DEF BlockType, Statuses
<1>3. blocks' = [blocks EXCEPT ![i] = b]
  BY <1>1 DEF BlockType
<1> HIDE DEF b
<1>4. blocks' \in Seq(BlockType) /\ Len(blocks') = Len(blocks) /\ blocks'[i] = b
      /\ \A j \in 1..Len(blocks) : j # i => blocks'[j] = blocks[j]
  <2> DEFINE l2 == [blocks EXCEPT ![i] = b]
  <2>1. /\ l2 \in Seq(BlockType) /\ Len(l2) = Len(blocks) /\ l2[i] = b
        /\ \A j \in 1..Len(blocks) : j # i => l2[j] = blocks[j]
    BY ONLY <1>1, <1>2, i \in 1..Len(blocks), ReplaceIs
  <2>2. blocks' = l2
    BY <1>3
  <2> QED  BY <2>1, <2>2, Zenon
<1>5. OnHeap(b) /\ Used(b) /\ Sound(b)
  BY <1>2 DEF OnHeap, Used, Sound, Tiled
<1>6. Tiled(blocks', Over(b)) /\ Away(blocks') /\ Over(blocks[i]) = brk
  <2>1. \A j \in 1..Len(blocks) : j # i => Like(blocks'[j], blocks[j])
    BY <1>4 DEF Like
  <2>2. OnHeap(blocks'[i]) /\ Sound(blocks'[i]) /\ blocks'[i].addr = blocks[i].addr
    BY <1>2, <1>4, <1>5
  <2>3. Tiled(blocks', Over(blocks'[i])) /\ Away(blocks') /\ Over(blocks[i]) = brk
    <3>1. brk \in Nat /\ \A j \in 1..Len(blocks) : j > i => ~OnHeap(blocks[j])
      BY <1>1
    <3> QED  BY ONLY <3>1, <2>1, <2>2, <1>1, <1>4, i \in 1..Len(blocks), OnHeap(blocks[i]),
                     Tiled(blocks, brk), Away(blocks), GrownBlock
  <2> QED  BY <2>3, <1>4
<1>7. Over(b) = brk + n - blocks[i].size /\ Over(b) \in Nat
  <2>1. blocks[i].addr \in Nat /\ blocks[i].size \in Nat /\ Header \in Nat
    BY <1>1, BlockIs, HeaderIs
  <2>2. blocks[i].addr + Header + n = (blocks[i].addr + Header + blocks[i].size) + n - blocks[i].size
        /\ blocks[i].addr + Header + n \in Nat
    BY <2>1
  <2>3. brk = blocks[i].addr + Header + blocks[i].size
    BY <1>6 DEF Over
  <2> QED  BY <2>2, <2>3, <1>2 DEF Over
<1>8. Same(blocks, blocks', blocks[i].addr)
  BY <1>2, <1>4, SameInPlace DEF Like
<1>9. Holds(blocks', blocks[i].addr, n)
  <2>1. n <= b.size
    BY <1>2
  <2> QED  BY <2>1, <1>2, <1>4, <1>5 DEF Holds
<1>10. NoneGone(blocks, Len(blocks) + 1) => NoneGone(blocks', Len(blocks') + 1)
  BY <1>1, <1>2, <1>4 DEF NoneGone
<1> QED  BY <1>4, <1>6, <1>7, <1>8, <1>9, <1>10

-----------------------------------------------------------------------------
(* A call that returns a new block, and an os_realloc that resizes its own.*)
LEMMA FinishedState ==
  ASSUME OsMemInv, NEW h \in Handles, NEW a \in Nat, call # NoCall, Finish(h, a), UNCHANGED fault,
         cur' = 1, blocks' \in Seq(BlockType), tail' \in Nat \cup {Null}, brk' \in 0..MaxBrk,
         Tiled(blocks', brk'), Away(blocks'), Owned(blocks', live', Null)
  PROVE  OsMemInv'
<1>1. live \in LiveType /\ call.size \in Sizes /\ a + Header \in Nat
  BY TypesAre, HeaderIs DEF OsMemInv
<1>2. live' \in LiveType /\ pc' = "idle" /\ call' = NoCall
  BY <1>1 DEF Finish, LiveType
<1>3. TypeOK'
  BY <1>2 DEF OsMemInv, TypeOK, LiveType
<1>4. CallInv' /\ ListInv' /\ MoveInv' /\ Taken' = Null
  BY <1>2 DEF CallInv, ListInv, MoveInv, Moving, Taken
<1> QED  BY <1>3, <1>4 DEF OsMemInv

LEMMA ReturnKeeps ==
  ASSUME OsMemInv, pc = "place", NEW a \in Nat, Return(a), UNCHANGED <<cur, fault>>,
         blocks' \in Seq(BlockType), tail' \in Nat \cup {Null}, brk' \in 0..MaxBrk,
         Tiled(blocks', brk'), Away(blocks'), Same(blocks, blocks', a),
         ~Holds(blocks, a, 0), Holds(blocks', a, Wanted),
         NoneGone(blocks', Len(blocks') + 1)
  PROVE  OsMemInv'
<1>1. /\ call # NoCall /\ call.op # "realloc" /\ cur = 1 /\ call.handle \in Handles /\ call.size \in Sizes
      /\ call.op \in {"realloc", "move"} <=> live[call.handle] # NoMemory
      /\ call \in [op : Operations \cup {"move"}, handle : Handles, size : Sizes, to : Nat \cup {Null}]
      /\ live \in LiveType /\ blocks \in Seq(BlockType)
  BY TypesAre DEF OsMemInv, CallInv
<1>2. Owned(blocks', live, a)
  <2>1. Owned(blocks, live, Null)
    BY DEF OsMemInv, Taken
  <2> QED  BY <2>1, <1>1, OwnedTaken
<1>3. CASE call.op = "move"
  <2>1. /\ pc' = "copy" /\ call' = [call EXCEPT !.to = a] /\ live' = live
    BY <1>3 DEF Return
  <2>2. /\ call'.op = "move" /\ call'.to = a /\ call'.handle = call.handle /\ call'.size = call.size
        /\ call' # NoCall /\ Wanted' = Wanted /\ Old' = Old /\ Taken' = a
        /\ call' \in [op : Operations \cup {"move"}, handle : Handles, size : Sizes, to : Nat \cup {Null}]
    BY <2>1, <1>1, <1>3 DEF NoCall, Wanted, Old, Taken
  <2>3. TypeOK'
    BY <2>1, <2>2 DEF OsMemInv, TypeOK
  <2>4. CallInv'
    BY <2>1, <2>2, <1>1, <1>3 DEF CallInv, Null
  <2>5. ListInv'
    BY <2>1 DEF ListInv
  <2>6. MoveInv'
    <3>1. Outgrown(blocks, Old, Wanted)
      BY <1>3 DEF OsMemInv, MoveInv, Moving
    <3>2. Old # a
      BY <1>1, <1>3, CurrentIs
    <3>3. Outgrown(blocks', Old, Wanted)
      BY <3>1, <3>2, OutgrownKept
    <3> QED  BY <3>3, <2>1, <2>2 DEF MoveInv
  <2> QED  BY <2>1, <2>2, <2>3, <2>4, <2>5, <2>6, <1>2 DEF OsMemInv
<1>4. CASE call.op # "move"
  <2>1. Finish(call.handle, a) /\ live[call.handle] = NoMemory
    BY <1>1, <1>4 DEF Return
  <2>2. Holds(blocks', a, call.size)
    <3>1. Wanted \in Nat /\ call.size \in Nat /\ call.size <= Wanted
      BY <1>1, WantedIs DEF OsMemInv
    <3> QED  BY <3>1, HoldsLess
  <2>3. Owned(blocks', live', Null)
    BY <2>1, <2>2, <1>1, <1>2, OwnedGiven DEF Finish
  <2> QED  BY <2>1, <2>3, <1>1, FinishedState
<1> QED  BY <1>3, <1>4

LEMMA ResizedKeeps ==
  ASSUME OsMemInv, pc \in {"resize", "fit"}, Finish(call.handle, Old), UNCHANGED <<cur, fault>>,
         blocks' \in Seq(BlockType), tail' \in Nat \cup {Null}, brk' \in 0..MaxBrk,
         Tiled(blocks', brk'), Away(blocks'), Same(blocks, blocks', Old), Holds(blocks', Old, Wanted)
  PROVE  OsMemInv'
<1>1. /\ call # NoCall /\ cur = 1 /\ call.handle \in Handles /\ call.size \in Sizes
      /\ live[call.handle] # NoMemory /\ live \in LiveType /\ blocks \in Seq(BlockType)
  BY TypesAre DEF OsMemInv, CallInv
<1>2. Holds(blocks', Old, call.size)
  <2>1. Wanted \in Nat /\ call.size \in Nat /\ call.size <= Wanted
    BY <1>1, WantedIs DEF OsMemInv
  <2> QED  BY <2>1, HoldsLess
<1>3. Old \in Nat
  BY <1>1, CurrentIs
<1>4. Owned(blocks, live, Null)
  BY DEF OsMemInv, Taken
<1>5. Owned(blocks', live', Null)
  BY <1>1, <1>2, <1>3, <1>4, OwnedResized DEF Finish, Old
<1> QED  BY <1>1, <1>3, <1>5, FinishedState

-----------------------------------------------------------------------------
LEMMA BestFits ==
  ASSUME TypeOK, Fits # {}
  PROVE  /\ find_best_block \in 1..Len(blocks) /\ blocks[find_best_block].status = "FREE"
         /\ blocks[find_best_block].size >= Wanted
<1>1. /\ Fits \subseteq 1..Len(blocks) /\ Len(blocks) \in Nat
      /\ \A i \in 1..Len(blocks) : blocks[i].size \in Nat
  <2>1. \A i \in 1..Len(blocks) : blocks[i] \in BlockType
    BY TypesAre
  <2> QED  BY <2>1, TypesAre, BlockIs DEF Fits
<1> DEFINE T == {blocks[i].size : i \in Fits}
<1>2. T \in SUBSET Nat /\ T # {}
  BY <1>1
<1>3. PICK s \in T : \A t \in T : s <= t
  BY <1>2, HasALeast
<1> DEFINE S == {i \in Fits : blocks[i].size = s}
<1>4. S \in SUBSET Nat /\ S # {}
  <2>1. PICK m \in Fits : s = blocks[m].size
    OBVIOUS
  <2>2. m \in S
    BY <2>1
  <2>3. S \subseteq Fits /\ Fits \subseteq Nat
    BY <1>1
  <2> QED  BY ONLY <2>2, <2>3
<1>5. PICK i \in S : \A j \in S : i <= j
  BY <1>4, HasALeast
<1>6. ASSUME NEW j \in Fits
      PROVE  blocks[i].size < blocks[j].size \/ (blocks[i].size = blocks[j].size /\ i <= j)
  <2>1. blocks[i].size <= blocks[j].size /\ blocks[i].size \in Nat /\ blocks[j].size \in Nat
    BY <1>1, <1>3
  <2>2. CASE blocks[i].size = blocks[j].size
    BY <2>2, <1>5
  <2> QED  BY <2>1, <2>2
<1>7. find_best_block \in Fits
  BY <1>6 DEF find_best_block
<1> QED  BY <1>1, <1>7 DEF Fits

-----------------------------------------------------------------------------
(* The steps of os_malloc and os_calloc.                                   *)
LEMMA PlaceIs ==
  ASSUME OsMemInv, pc = "place"
  PROVE  /\ call # NoCall /\ Wanted \in Nat /\ Wanted > 0 /\ Wanted % Align = 0
         /\ NoneGone(blocks, Len(blocks) + 1)
         /\ \A i \in 1..Len(blocks) : blocks[i].status # "UNMAPPED"
         /\ TypeOK /\ Tiled(blocks, brk) /\ Away(blocks) /\ brk % Align = 0
<1>1. TypeOK /\ Tiled(blocks, brk) /\ Away(blocks) /\ NoneGone(blocks, Len(blocks) + 1) /\ call # NoCall
  BY DEF OsMemInv, ListInv, CallInv
<1>2. \A i \in 1..Len(blocks) : blocks[i].status # "UNMAPPED"
  BY <1>1, TypesAre DEF NoneGone
<1>3. brk % Align = 0
  BY <1>1, TypesAre, TopIsMultiple
<1> QED  BY <1>1, <1>2, <1>3, WantedIs

LEMMA AppendedKeeps ==
  ASSUME TypeOK, Tiled(blocks, brk), Away(blocks), NoneGone(blocks, Len(blocks) + 1),
         NEW b \in BlockType, b.status # "UNMAPPED",
         \/ OnHeap(b) /\ Sound(b) /\ b.addr = brk
         \/ ~OnHeap(b) /\ b.addr \in MapAddrs /\ b.addr \notin Mapped,
         blocks' = Append(blocks, b)
  PROVE  /\ blocks' \in Seq(BlockType) /\ Away(blocks')
         /\ Tiled(blocks', IF OnHeap(b) THEN Over(b) ELSE brk)
         /\ Same(blocks, blocks', b.addr) /\ ~Holds(blocks, b.addr, 0)
         /\ NoneGone(blocks', Len(blocks') + 1)
         /\ Used(b) => Holds(blocks', b.addr, b.size)
<1>1. blocks \in Seq(BlockType) /\ Len(blocks) \in Nat /\ brk \in Nat
  BY TypesAre
<1>2. /\ Append(blocks, b) \in Seq(BlockType) /\ Len(Append(blocks, b)) = Len(blocks) + 1
      /\ Append(blocks, b)[Len(blocks) + 1] = b
      /\ \A i \in 1..Len(blocks) : Append(blocks, b)[i] = blocks[i]
  BY <1>1
<1>3. Same(blocks, blocks', b.addr)
  BY <1>1, SameAppended
<1>4. \A i \in 1..Len(blocks) : blocks[i].status # "UNMAPPED"
  BY <1>1 DEF NoneGone
<1>5. NoneGone(blocks', Len(blocks') + 1)
  BY <1>1, <1>2, <1>4 DEF NoneGone
<1> DEFINE AsAppended == /\ Away(blocks') /\ Tiled(blocks', IF OnHeap(b) THEN Over(b) ELSE brk)
                         /\ ~Holds(blocks, b.addr, 0)
<1>6. ASSUME OnHeap(b) PROVE AsAppended
  <2>1. Sound(b) /\ b.addr = brk
    BY <1>6
  <2>2. Tiled(Append(blocks, b), Over(b)) /\ Away(Append(blocks, b))
    BY <1>1, <1>6, <2>1, AppendedBlock
  <2>3. ~Holds(blocks, b.addr, 0)
    BY <2>1, NewAddress
  <2> QED  BY <2>2, <2>3, <1>6
<1>7. ASSUME ~OnHeap(b) PROVE AsAppended
  <2>1. ASSUME NEW i \in 1..Len(blocks), ~OnHeap(blocks[i]) PROVE blocks[i].addr # b.addr
    <3>1. blocks[i].status = "MAPPED"
      <4>1. blocks[i].status \in Statuses /\ blocks[i].status # "UNMAPPED"
        BY <1>4, TypesAre, BlockIs
      <4> QED  BY <4>1, <2>1 DEF OnHeap, Statuses
    <3>2. blocks[i].addr \in Mapped
      BY <3>1, TypesAre DEF Mapped
    <3> QED  BY <3>2, <1>7
  <2>2. Tiled(Append(blocks, b), brk) /\ Away(Append(blocks, b))
    BY <1>1, <1>7, <2>1, AppendedMapping
  <2>3. ~Holds(blocks, b.addr, 0)
    BY <2>1, <1>7, NewAddress
  <2> QED  BY <2>2, <2>3, <1>7
<1>8. Used(b) => Holds(blocks', b.addr, b.size)
  <2>1. Len(blocks) + 1 \in 1..Len(Append(blocks, b)) /\ b.size <= b.size
    BY <1>1, <1>2, BlockIs
  <2> QED  BY <2>1, <1>2 DEF Holds
<1> QED  BY <1>2, <1>3, <1>5, <1>6, <1>7, <1>8

LEMMA PreallocationKeeps == ASSUME OsMemInv, heap_preallocation PROVE OsMemInv'
<1>1. /\ pc = "place" /\ TypeOK /\ Tiled(blocks, brk) /\ Away(blocks) /\ brk % Align = 0
      /\ NoneGone(blocks, Len(blocks) + 1)
      /\ \A i \in 1..Len(blocks) : blocks[i].status = "MAPPED"
  BY PlaceIs, TypesAre DEF heap_preallocation, checkPrealloc
<1>2. CASE Die
  BY <1>1, <1>2, DieKeeps
<1>3. CASE Fault("dangling tail")
  BY <1>1, <1>3, FaultKeeps DEF Faults
<1> DEFINE b == Block(brk, MmapThreshold - Header, "FREE", tail)
<1>4. CASE /\ brk + MmapThreshold <= MaxBrk
           /\ blocks' = Append(blocks, b) /\ tail' = brk /\ brk' = brk + MmapThreshold
           /\ UNCHANGED <<pc, call, cur, live, fault>>
  <2>1. /\ b \in BlockType /\ b.addr = brk /\ b.size = MmapThreshold - Header /\ b.status = "FREE"
        /\ b.size > 0 /\ b.size % Align = 0 /\ Over(b) = brk + MmapThreshold
    <3>1. MmapThreshold \in Nat /\ Header \in Nat /\ Header < MmapThreshold /\ Align \in Nat \ {0} /\ brk \in Nat
          /\ MmapThreshold % Align = 0 /\ Header % Align = 0
      BY HeaderIs, MemAssumption, TypesAre, <1>1
    <3>2. MmapThreshold - Header \in Nat /\ MmapThreshold - Header > 0
          /\ brk + Header + (MmapThreshold - Header) = brk + MmapThreshold
      BY <3>1
    <3>3. (MmapThreshold - Header) % Align = 0
      <4>1. MmapThreshold \in Int /\ Header \in Int
        BY <3>1
      <4> QED  BY <4>1, <3>1, SumIsMultiple, Zenon
    <3>4. tail \in Nat \cup {Null}
      BY <1>1 DEF TypeOK
    <3> QED  BY <3>1, <3>2, <3>3, <3>4 DEF Block, BlockType, Statuses, Over
  <2> HIDE DEF b
  <2>2. OnHeap(b) /\ Sound(b) /\ ~Used(b)
    BY <2>1, <1>1 DEF OnHeap, Sound, Used
  <2>3. /\ blocks' \in Seq(BlockType) /\ Away(blocks') /\ Tiled(blocks', Over(b))
        /\ Same(blocks, blocks', brk) /\ ~Holds(blocks, brk, 0)
        /\ NoneGone(blocks', Len(blocks') + 1)
    BY <2>1, <2>2, <1>1, <1>4, AppendedKeeps
  <2>4. blocks \in Seq(BlockType) /\ Len(blocks) \in Nat /\ brk \in Nat /\ MaxBrk \in Nat /\ live \in LiveType
    BY <1>1, TypesAre
  <2>5. Same(blocks, blocks', Null)
    <3>1. ~Holds(blocks', brk, 0)
      <4>1. SUFFICES ASSUME NEW j \in 1..Len(blocks'), Used(blocks'[j]), blocks'[j].addr = brk PROVE FALSE
        BY DEF Holds
      <4>2. blocks'[Len(blocks) + 1] = b /\ Len(blocks') = Len(blocks) + 1
            /\ \A i \in 1..Len(blocks) : blocks'[i] = blocks[i]
        BY <2>1, <2>4, <1>4
      <4>3. j \in 1..Len(blocks)
        BY <4>1, <4>2, <2>2, <2>4
      <4>4. blocks[j].size \in Nat
        BY <4>3, <1>1, TypesAre, BlockIs
      <4> QED  BY <4>1, <4>2, <4>3, <4>4, <2>3 DEF Holds
    <3> QED  BY <3>1, <2>3, <2>4, SameIfUnused
  <2>6. TypeOK'
    <3>1. brk' \in 0..MaxBrk /\ tail' \in Nat
      <4>1. MmapThreshold \in Nat
        BY MemAssumption
      <4> QED  BY <4>1, <1>4, <2>4
    <3> QED  BY <3>1, <2>3, <1>1, <1>4 DEF TypeOK
  <2>7. Tiled(blocks', brk')
    BY <2>1, <2>3, <1>4
  <2>8. Owned(blocks', live', Taken')
    <3>1. Owned(blocks, live, Null) /\ Taken' = Null
      BY <1>1, <1>4 DEF OsMemInv, Taken
    <3>2. Owned(blocks', live, Null)
      BY <3>1, <2>3, <2>4, <2>5, OwnedSame
    <3> QED  BY <3>1, <3>2, <1>4
  <2>9. CallInv'
    BY <1>1, <1>4 DEF CallInv, OsMemInv
  <2>10. ListInv'
    <3>1. NoFreePair(blocks', Len(blocks'))
      <4>1. SUFFICES ASSUME NEW i \in 1..(Len(blocks') - 1) PROVE blocks'[i].status # "FREE"
        BY DEF NoFreePair
      <4>2. i \in 1..Len(blocks) /\ blocks'[i] = blocks[i]
        BY <2>1, <2>4, <1>4
      <4> QED  BY <4>2, <1>1
    <3> QED  BY <3>1, <2>3, <1>1, <1>4 DEF ListInv
  <2>11. MoveInv'
    <3>1. ASSUME Moving' PROVE Outgrown(blocks', Old', Wanted')
      <4>1. Moving /\ Outgrown(blocks, Old, Wanted) /\ Old' = Old /\ Wanted' = Wanted
        BY <3>1, <1>1, <1>4 DEF OsMemInv, MoveInv, Moving, Old, Wanted
      <4>2. Old # Null
        <5>1. call # NoCall /\ live[call.handle] # NoMemory
          BY <4>1, <1>1 DEF OsMemInv, CallInv, Moving
        <5> QED  BY <5>1, CurrentIs DEF Null
      <4> QED  BY <4>1, <4>2, <2>5, OutgrownKept
    <3> QED  BY <3>1, <1>1, <1>4 DEF MoveInv
  <2> QED  BY <2>3, <2>6, <2>7, <2>8, <2>9, <2>10, <2>11 DEF OsMemInv
<1>5. brk + MmapThreshold > MaxBrk \/ brk + MmapThreshold <= MaxBrk
  BY <1>1, TypesAre, MemAssumption
<1> QED  BY <1>2, <1>3, <1>4, <1>5 DEF heap_preallocation

LEMMA NotEmpty ==
  ASSUME TypeOK, ~checkPrealloc
  PROVE  Len(blocks) \in 1..Len(blocks) /\ Last(blocks) = blocks[Len(blocks)]
<1>1. PICK i \in 1..Len(blocks) : TRUE
  BY TypesAre DEF checkPrealloc
<1> QED  BY <1>1, TypesAre DEF Last

LEMMA UseBestKeeps == ASSUME OsMemInv, UseBest PROVE OsMemInv'
<1> DEFINE i == find_best_block
<1>1. /\ pc = "place" /\ Fits # {} /\ Return(blocks[i].addr) /\ UNCHANGED <<brk, cur, fault>>
      /\ IF LeavesRoom(i) THEN Split(i, Wanted) ELSE Keep(i)
  BY DEF UseBest
<1>2. /\ TypeOK /\ Tiled(blocks, brk) /\ Away(blocks) /\ NoneGone(blocks, Len(blocks) + 1)
      /\ Wanted \in Nat /\ Wanted > 0 /\ Wanted % Align = 0
  BY <1>1, PlaceIs
<1>3. i \in 1..Len(blocks) /\ blocks[i].status = "FREE" /\ blocks[i].size >= Wanted
  BY <1>1, <1>2, BestFits
<1> HIDE DEF i
<1>4. /\ OnHeap(blocks[i]) /\ ~Used(blocks[i]) /\ blocks[i].addr \in Nat /\ blocks[i].size \in Nat
      /\ Wanted <= blocks[i].size /\ brk \in 0..MaxBrk
  BY <1>2, <1>3, TypesAre, BlockIs DEF OnHeap, Used
<1>5. ~Holds(blocks, blocks[i].addr, 0)
  BY <1>2, <1>3, <1>4, NewAddress
<1> DEFINE Done == /\ blocks' \in Seq(BlockType) /\ tail' \in Nat \cup {Null}
                   /\ Tiled(blocks', brk) /\ Away(blocks') /\ Same(blocks, blocks', blocks[i].addr)
                   /\ Holds(blocks', blocks[i].addr, Wanted)
                   /\ NoneGone(blocks, Len(blocks) + 1) => NoneGone(blocks', Len(blocks') + 1)
<1>6. ASSUME Split(i, Wanted), LeavesRoom(i) PROVE Done
  <2>1. Wanted + Header < blocks[i].size
    BY <1>2, <1>4, <1>6, HeaderIs DEF LeavesRoom
  <2> QED  BY <2>1, <1>2, <1>3, <1>4, <1>6, SplitKeeps
<1>7. ASSUME Keep(i) PROVE Done
  BY <1>2, <1>3, <1>4, <1>7, KeepKeeps
<1>8. Done
  BY <1>1, <1>6, <1>7
<1> QED  BY <1>1, <1>2, <1>4, <1>5, <1>8, ReturnKeeps

LEMMA ExtendLastKeeps == ASSUME OsMemInv, ExtendLast PROVE OsMemInv'
<1> DEFINE i == Len(blocks)
<1>1. pc = "place" /\ ~checkPrealloc /\ Last(blocks).status = "FREE" /\ extend_last_block(i) /\ Fits = {}
  BY DEF ExtendLast
<1>2. /\ TypeOK /\ Tiled(blocks, brk) /\ Away(blocks) /\ NoneGone(blocks, Len(blocks) + 1)
      /\ Wanted \in Nat /\ Wanted > 0 /\ Wanted % Align = 0
  BY <1>1, PlaceIs
<1>3. i \in 1..Len(blocks) /\ blocks[i].status = "FREE" /\ Len(blocks) \in Nat
  BY <1>1, <1>2, NotEmpty, TypesAre
<1>4. CASE Die
  BY <1>1, <1>4, DieKeeps
<1>5. CASE /\ ~(brk + Wanted - blocks[i].size > MaxBrk)
           /\ brk' = brk + Wanted - blocks[i].size
           /\ blocks' = [blocks EXCEPT ![i].size = Wanted, ![i].status = "ALLOC"]
           /\ Return(blocks[i].addr)
           /\ UNCHANGED <<tail, cur, fault>>
  <2>1. /\ OnHeap(blocks[i]) /\ ~Used(blocks[i]) /\ blocks[i].addr \in Nat
        /\ \A j \in 1..Len(blocks) : j > i => ~OnHeap(blocks[j])
    BY <1>2, <1>3, TypesAre, BlockIs DEF OnHeap, Used
  <2>2. ~Holds(blocks, blocks[i].addr, 0)
    BY <1>2, <1>3, <2>1, NewAddress
  <2>3. /\ blocks' \in Seq(BlockType)
        /\ Tiled(blocks', brk + Wanted - blocks[i].size) /\ brk + Wanted - blocks[i].size \in Nat
        /\ Away(blocks') /\ Same(blocks, blocks', blocks[i].addr)
        /\ Holds(blocks', blocks[i].addr, Wanted)
        /\ NoneGone(blocks, Len(blocks) + 1) => NoneGone(blocks', Len(blocks') + 1)
    BY <1>2, <1>3, <1>5, <2>1, GrownKeeps
  <2>4. brk' \in 0..MaxBrk /\ tail' \in Nat \cup {Null}
    BY <2>3, <1>2, <1>5, TypesAre DEF TypeOK
  <2> QED  BY <1>1, <1>2, <1>5, <2>1, <2>2, <2>3, <2>4, ReturnKeeps
<1> QED  BY <1>1, <1>4, <1>5 DEF extend_last_block

LEMMA AddNewKeeps == ASSUME OsMemInv, add_new_block PROVE OsMemInv'
<1> DEFINE b == Block(brk, Wanted, "ALLOC", tail)
<1>1. pc = "place"
  BY DEF add_new_block
<1>2. /\ TypeOK /\ Tiled(blocks, brk) /\ Away(blocks) /\ NoneGone(blocks, Len(blocks) + 1)
      /\ Wanted \in Nat /\ Wanted > 0 /\ Wanted % Align = 0 /\ brk % Align = 0
  BY <1>1, PlaceIs
<1>3. CASE Die
  BY <1>1, <1>3, DieKeeps
<1>4. CASE /\ ~(brk + Header + Wanted > MaxBrk)
           /\ blocks' = Append(blocks, b) /\ tail' = brk /\ brk' = brk + Header + Wanted
           /\ Return(brk) /\ UNCHANGED <<cur, fault>>
  <2>1. /\ b \in BlockType /\ b.addr = brk /\ b.size = Wanted /\ b.status = "ALLOC"
        /\ Over(b) = brk + Header + Wanted
    <3>1. brk \in Nat /\ tail \in Nat \cup {Null}
      BY <1>2, TypesAre DEF TypeOK
    <3> QED  BY <3>1, <1>2 DEF Block, BlockType, Statuses, Over
  <2> HIDE DEF b
  <2>2. OnHeap(b) /\ Sound(b) /\ Used(b)
    BY <2>1, <1>2 DEF OnHeap, Sound, Used
  <2>3. /\ blocks' \in Seq(BlockType) /\ Away(blocks') /\ Tiled(blocks', Over(b))
        /\ Same(blocks, blocks', brk) /\ ~Holds(blocks, brk, 0)
        /\ NoneGone(blocks', Len(blocks') + 1) /\ Holds(blocks', brk, Wanted)
    BY <2>1, <2>2, <1>2, <1>4, AppendedKeeps
  <2>4. brk' \in 0..MaxBrk /\ tail' \in Nat \cup {Null} /\ brk \in Nat /\ Tiled(blocks', brk')
    BY <2>1, <2>3, <1>2, <1>4, TypesAre, HeaderIs
  <2> QED  BY <2>3, <2>4, <1>1, <1>4, ReturnKeeps
<1> QED  BY <1>3, <1>4 DEF add_new_block

LEMMA MappingKeeps == ASSUME OsMemInv, NEW a \in MapAddrs, memory_mapping(a) PROVE OsMemInv'
<1> DEFINE b == Block(a, Wanted, "MAPPED", tail)
<1>1. pc = "place" /\ a \notin Mapped /\ a \in Nat
  BY MemAssumption DEF memory_mapping
<1>2. /\ TypeOK /\ Tiled(blocks, brk) /\ Away(blocks) /\ NoneGone(blocks, Len(blocks) + 1)
      /\ Wanted \in Nat
  BY <1>1, PlaceIs
<1>3. CASE Fault("overrun")
  BY <1>1, <1>3, FaultKeeps DEF Faults
<1>4. CASE blocks' = Append(blocks, b) /\ tail' = a /\ Return(a) /\ UNCHANGED <<brk, cur, fault>>
  <2>1. b \in BlockType /\ b.addr = a /\ b.size = Wanted /\ b.status = "MAPPED"
    <3>1. tail \in Nat \cup {Null}
      BY <1>2 DEF TypeOK
    <3> QED  BY <3>1, <1>1, <1>2 DEF Block, BlockType, Statuses
  <2> HIDE DEF b
  <2>2. ~OnHeap(b) /\ Used(b)
    BY <2>1 DEF OnHeap, Used
  <2>3. /\ blocks' \in Seq(BlockType) /\ Away(blocks') /\ Tiled(blocks', brk)
        /\ Same(blocks, blocks', a) /\ ~Holds(blocks, a, 0)
        /\ NoneGone(blocks', Len(blocks') + 1) /\ Holds(blocks', a, Wanted)
    BY <2>1, <2>2, <1>1, <1>2, <1>4, AppendedKeeps
  <2>4. brk' \in 0..MaxBrk /\ tail' \in Nat \cup {Null} /\ Tiled(blocks', brk')
    BY <2>3, <1>1, <1>2, <1>4, TypesAre
  <2> QED  BY <2>3, <2>4, <1>1, <1>4, ReturnKeeps
<1> QED  BY <1>3, <1>4 DEF memory_mapping

LEMMA PlaceKeeps == ASSUME OsMemInv, Place PROVE OsMemInv'
<1>1. ASSUME MmapFails PROVE OsMemInv'
  BY <1>1, DieKeeps DEF MmapFails
<1> QED  BY <1>1, PreallocationKeeps, UseBestKeeps, ExtendLastKeeps, AddNewKeeps, MappingKeeps DEF Place

-----------------------------------------------------------------------------
(* The steps of os_realloc and os_free.                                    *)
LEMMA ResizeIs ==
  ASSUME OsMemInv, pc \in {"resize", "fit"}
  PROVE  /\ call # NoCall /\ call.op = "realloc" /\ live[call.handle] # NoMemory
         /\ call.handle \in Handles
         /\ Wanted \in Nat /\ Wanted > 0 /\ Wanted % Align = 0
         /\ NoneGone(blocks, Len(blocks) + 1) /\ NoFreePair(blocks, Len(blocks))
         /\ TypeOK /\ Tiled(blocks, brk) /\ Away(blocks)
<1>1. TypeOK /\ Tiled(blocks, brk) /\ Away(blocks) /\ NoneGone(blocks, Len(blocks) + 1) /\ call # NoCall
      /\ NoFreePair(blocks, Len(blocks)) /\ call.op = "realloc" /\ live[call.handle] # NoMemory
  BY DEF OsMemInv, ListInv, CallInv
<1> QED  BY <1>1, WantedIs, TypesAre

LEMMA MoveMappedKeeps == ASSUME OsMemInv, MoveMapped PROVE OsMemInv'
<1>1. pc = "resize" /\ blocks[Current].status = "MAPPED" /\ Move
  BY DEF MoveMapped
<1>2. \A j \in 1..Len(blocks) : blocks[j].addr = Old => j = Current
  BY <1>1, ResizeIs, CurrentIs
<1>3. Outgrown(blocks, Old, Wanted)
  BY <1>1, <1>2 DEF Outgrown
<1> QED  BY <1>1, <1>3, MoveKeeps

LEMMA MoveBlockKeeps == ASSUME OsMemInv, MoveBlock PROVE OsMemInv'
<1>1. pc = "fit" /\ blocks[Current].size < Wanted /\ Move
  BY DEF MoveBlock, TooSmall
<1>2. \A j \in 1..Len(blocks) : blocks[j].addr = Old => j = Current
  BY <1>1, ResizeIs, CurrentIs
<1>3. Outgrown(blocks, Old, Wanted)
  BY <1>1, <1>2 DEF Outgrown
<1> QED  BY <1>1, <1>3, MoveKeeps

LEMMA GrowTailKeeps == ASSUME OsMemInv, GrowTail PROVE OsMemInv'
<1> DEFINE i == Current
<1>1. pc = "resize" /\ blocks[i].status = "ALLOC" /\ blocks[i].addr = tail /\ extend_last_block(i)
  BY DEF GrowTail, IsTail
<1>2. /\ TypeOK /\ Tiled(blocks, brk) /\ Away(blocks) /\ NoneGone(blocks, Len(blocks) + 1)
      /\ Wanted \in Nat /\ Wanted > 0 /\ Wanted % Align = 0 /\ call.op = "realloc"
  BY <1>1, ResizeIs
<1>3. i \in 1..Len(blocks) /\ blocks[i].addr = Old /\ blocks \in Seq(BlockType) /\ Len(blocks) \in Nat
  BY <1>1, ResizeIs, CurrentIs, TypesAre
<1> HIDE DEF i
<1>4. i = Len(blocks)
  <2>1. blocks # <<>> /\ Len(blocks) \in 1..Len(blocks)
    BY <1>3
  <2>2. tail = blocks[Len(blocks)].addr
    BY <2>1, <1>1 DEF OsMemInv, ListInv, TailIsLast, Last
  <2> QED  BY <2>1, <2>2, <1>1, <1>2, <1>3, IndexIs
<1>5. CASE Die
  BY <1>1, <1>5, DieKeeps
<1>6. CASE /\ ~(brk + Wanted - blocks[i].size > MaxBrk)
           /\ brk' = brk + Wanted - blocks[i].size
           /\ blocks' = [blocks EXCEPT ![i].size = Wanted, ![i].status = "ALLOC"]
           /\ Return(blocks[i].addr)
           /\ UNCHANGED <<tail, cur, fault>>
  <2>1. OnHeap(blocks[i]) /\ \A j \in 1..Len(blocks) : j > i => ~OnHeap(blocks[j])
    BY <1>1, <1>3, <1>4 DEF OnHeap
  <2>2. /\ blocks' \in Seq(BlockType)
        /\ Tiled(blocks', brk + Wanted - blocks[i].size) /\ brk + Wanted - blocks[i].size \in Nat
        /\ Away(blocks') /\ Same(blocks, blocks', blocks[i].addr)
        /\ Holds(blocks', blocks[i].addr, Wanted)
    BY <1>2, <1>3, <1>6, <2>1, GrownKeeps
  <2>3. brk' \in 0..MaxBrk /\ tail' \in Nat \cup {Null}
    BY <2>2, <1>2, <1>6, TypesAre DEF TypeOK
  <2>4. Finish(call.handle, Old)
    BY <1>2, <1>3, <1>6 DEF Return
  <2> QED  BY <1>1, <1>3, <1>6, <2>2, <2>3, <2>4, ResizedKeeps
<1> QED  BY <1>1, <1>5, <1>6 DEF extend_last_block

LEMMA TruncateKeeps == ASSUME OsMemInv, Truncate PROVE OsMemInv'
<1> DEFINE i == Current
<1>1. /\ pc \in {"resize", "fit"} /\ Wanted <= blocks[i].size /\ Finish(call.handle, blocks[i].addr)
      /\ pc = "resize" => blocks[i].status = "ALLOC"
      /\ IF blocks[i].size - Wanted >= Header + Align THEN Split(i, Wanted) ELSE Keep(i)
      /\ UNCHANGED <<brk, cur, fault>>
  BY DEF Truncate
<1>2. /\ TypeOK /\ Tiled(blocks, brk) /\ Away(blocks)
      /\ Wanted \in Nat /\ Wanted > 0 /\ Wanted % Align = 0
  BY <1>1, ResizeIs
<1>3. /\ i \in 1..Len(blocks) /\ blocks[i].addr = Old /\ blocks[i].size \in Nat /\ Header \in Nat
      /\ Align \in Nat \ {0} /\ brk \in 0..MaxBrk
  BY <1>1, <1>2, ResizeIs, CurrentIs, BlockIs, HeaderIs, TypesAre, MemAssumption
<1> HIDE DEF i
<1>4. OnHeap(blocks[i])
  <2>1. blocks[i].status = "ALLOC"
    BY <1>1, <1>3 DEF OsMemInv, MoveInv
  <2> QED  BY <2>1 DEF OnHeap
<1> DEFINE Done == /\ blocks' \in Seq(BlockType) /\ tail' \in Nat \cup {Null}
                   /\ Tiled(blocks', brk) /\ Away(blocks') /\ Same(blocks, blocks', blocks[i].addr)
                   /\ Holds(blocks', blocks[i].addr, Wanted)
<1>5. ASSUME Split(i, Wanted), blocks[i].size - Wanted >= Header + Align PROVE Done
  <2>1. Wanted + Header < blocks[i].size
    BY <1>2, <1>3, <1>5
  <2> QED  BY <2>1, <1>2, <1>3, <1>4, <1>5, SplitKeeps
<1>6. ASSUME Keep(i) PROVE Done
  BY <1>1, <1>2, <1>3, <1>4, <1>6, KeepKeeps
<1>7. Done
  BY <1>1, <1>5, <1>6
<1> QED  BY <1>1, <1>3, <1>7, ResizedKeeps

LEMMA AbsorbNextKeeps == ASSUME OsMemInv, AbsorbNext PROVE OsMemInv'
<1> DEFINE i == Current
           merged == RemoveAt([blocks EXCEPT ![i] = Merged(i)], i + 1)
<1>1. /\ pc = "resize" /\ blocks[i].status = "ALLOC" /\ blocks[i].addr # tail /\ pc' = "fit"
      /\ blocks' = IF blocks[i + 1].status # "FREE" THEN blocks
                   ELSE IF i = Len(merged) THEN merged
                   ELSE [merged EXCEPT ![i + 1].prev = blocks[i].addr]
      /\ UNCHANGED <<tail, brk, call, cur, live, fault>>
  BY DEF AbsorbNext, IsTail
<1>2. /\ TypeOK /\ Tiled(blocks, brk) /\ Away(blocks) /\ NoneGone(blocks, Len(blocks) + 1)
      /\ NoFreePair(blocks, Len(blocks)) /\ call.op = "realloc" /\ call # NoCall
      /\ live[call.handle] # NoMemory /\ call.handle \in Handles
  BY <1>1, ResizeIs
<1>3. /\ i \in 1..Len(blocks) /\ blocks[i].addr = Old /\ blocks \in Seq(BlockType) /\ Len(blocks) \in Nat
      /\ Old \in Nat /\ live[call.handle].size <= blocks[i].size /\ brk \in Nat /\ brk \in 0..MaxBrk
      /\ Used(blocks[i]) /\ live \in LiveType /\ blocks[i] \in BlockType
  BY <1>2, CurrentIs, TypesAre
<1> HIDE DEF i
<1>4. i \in 1..(Len(blocks) - 1) /\ i \in Nat
  <2>1. blocks # <<>>
    BY <1>3
  <2>2. tail = blocks[Len(blocks)].addr
    BY <2>1, <1>1 DEF OsMemInv, ListInv, TailIsLast, Last
  <2> QED  BY <2>2, <1>1, <1>3
<1> DEFINE Done == /\ blocks' \in Seq(BlockType) /\ Tiled(blocks', brk) /\ Away(blocks')
                   /\ Same(blocks, blocks', Old) /\ i \in 1..Len(blocks')
                   /\ blocks'[i].addr = Old /\ blocks'[i].status = "ALLOC"
                   /\ blocks[i].size <= blocks'[i].size
                   /\ NoneGone(blocks', Len(blocks') + 1) /\ NoFreePair(blocks', Len(blocks'))
<1>5. ASSUME blocks' = blocks PROVE Done
  <2>1. Same(blocks, blocks, Old)
    BY DEF Same, Keeps, Like
  <2>2. blocks[i].size <= blocks[i].size
    BY <1>3, BlockIs
  <2> QED  BY <2>1, <2>2, <1>1, <1>2, <1>3, <1>5
<1>6. ASSUME blocks[i + 1].status = "FREE" PROVE Done
  <2>1. /\ merged \in Seq(BlockType) /\ Len(merged) = Len(blocks) - 1 /\ merged[i] = Merged(i)
        /\ \A j \in 1..Len(merged) : j # i => merged[j] = blocks[After(i + 1, j)]
    <3>1. merged = RemoveAt([blocks EXCEPT ![i] = Merged(i)], i + 1)
      OBVIOUS
    <3>2. TypeOK /\ i \in 1..(Len(blocks) - 1)
      BY <1>2, <1>4
    <3> HIDE DEF merged
    <3> QED  BY <3>1, <3>2, MergedList, ZenonT(30)
  <2>2. i # Len(merged) => i + 1 \in 1..Len(merged) /\ i + 1 # i
    BY <2>1, <1>4, <1>3
  <2> HIDE DEF merged
  <2>3. /\ blocks' \in Seq(BlockType) /\ Len(blocks') = Len(blocks) - 1 /\ blocks'[i] = Merged(i)
        /\ \A j \in 1..Len(blocks') : j # i => Like(blocks'[j], blocks[After(i + 1, j)])
    <3>1. CASE i = Len(merged)
      BY <3>1, <2>1, <1>1, <1>6 DEF Like
    <3>2. CASE i # Len(merged)
      <4> DEFINE b == [merged[i + 1] EXCEPT !.prev = blocks[i].addr]
      <4>1. b \in BlockType /\ Like(b, merged[i + 1])
        <5>1. merged[i + 1] \in BlockType /\ blocks[i].addr \in Nat
          BY <3>2, <2>1, <2>2, <1>3
        <5> QED  BY <5>1 DEF BlockType, Like
      <4>2. blocks' = [merged EXCEPT ![i + 1] = b]
        BY <3>2, <2>1, <2>2, <1>1, <1>6
      <4> HIDE DEF b
      <4>3. /\ blocks' \in Seq(BlockType) /\ Len(blocks') = Len(merged) /\ blocks'[i + 1] = b
            /\ \A j \in 1..Len(merged) : j # i + 1 => blocks'[j] = merged[j]
        <5> DEFINE l2 == [merged EXCEPT ![i + 1] = b]
        <5>1. /\ l2 \in Seq(BlockType) /\ Len(l2) = Len(merged) /\ l2[i + 1] = b
              /\ \A j \in 1..Len(merged) : j # i + 1 => l2[j] = merged[j]
          <6>1. i + 1 \in 1..Len(merged)
            BY <3>2, <2>2
          <6> QED  BY ONLY <6>1, <2>1, <4>1, ReplaceIs
        <5>2. blocks' = l2
          BY <4>2
        <5> QED  BY <5>1, <5>2, Zenon
      <4>4. i \in 1..Len(merged)
        BY <2>1, <1>4, <1>3
      <4> QED  BY <4>1, <4>3, <4>4, <2>1, <2>2, <3>2 DEF Like
    <3> QED  BY <3>1, <3>2
  <2>4. /\ blocks'[i].addr = blocks[i].addr /\ blocks'[i].status = blocks[i].status
        /\ blocks'[i].size = blocks[i].size + blocks[i + 1].size + Header
    BY <2>3, <1>3 DEF Merged, BlockType
  <2>5. Tiled(blocks', brk) /\ Away(blocks') /\ Same(blocks, blocks', blocks[i].addr)
    <3>1. OnHeap(blocks[i])
      BY <1>1 DEF OnHeap
    <3> QED  BY <3>1, <2>3, <2>4, <1>2, <1>4, <1>6, MergedKeeps
  <2>6. blocks[i].size <= blocks'[i].size
    <3>1. blocks[i + 1] \in BlockType
      BY <1>3, <1>4
    <3>2. blocks[i].size \in Nat /\ blocks[i + 1].size \in Nat /\ Header \in Nat
      BY <3>1, <1>3, BlockIs, HeaderIs
    <3> QED  BY <3>2, <2>4
  <2>7. ASSUME NEW j \in 1..Len(blocks')
        PROVE  /\ After(i + 1, j) \in 1..Len(blocks) /\ blocks'[j].status = blocks[After(i + 1, j)].status
               /\ j # i => After(i + 1, j + 1) = After(i + 1, j) + 1
    <3>1. After(i + 1, j) \in 1..Len(blocks) /\ (j # i => After(i + 1, j + 1) = After(i + 1, j) + 1)
      BY <2>3, <1>3, <1>4 DEF After
    <3>2. After(i + 1, i) = i
      BY <1>4 DEF After
    <3> QED  BY <3>1, <3>2, <2>3, <2>4 DEF Like
  <2>8. NoneGone(blocks', Len(blocks') + 1)
    <3>1. \A k \in 1..Len(blocks) : blocks[k].status # "UNMAPPED"
      BY <1>2, <1>3 DEF NoneGone
    <3> QED  BY <3>1, <2>7 DEF NoneGone
  <2>9. NoFreePair(blocks', Len(blocks'))
    <3>1. SUFFICES ASSUME NEW j \in 1..(Len(blocks') - 1), blocks'[j].status = "FREE", blocks'[j + 1].status = "FREE"
                   PROVE  FALSE
      BY DEF NoFreePair
    <3>2. j \in 1..Len(blocks') /\ j + 1 \in 1..Len(blocks')
      BY <2>3, <1>3
    <3>3. j # i
      BY <3>1, <2>4, <1>1
    <3> DEFINE k == After(i + 1, j)
    <3>4. k \in 1..Len(blocks) /\ k + 1 \in 1..Len(blocks) /\ blocks[k].status = "FREE" /\ blocks[k + 1].status = "FREE"
      BY <3>1, <3>2, <3>3, <2>7
    <3> HIDE DEF k
    <3> QED  BY <3>4, <1>2, <1>3 DEF NoFreePair
  <2>10. i \in 1..Len(blocks')
    BY <2>3, <1>3, <1>4
  <2> QED  BY <2>3, <2>4, <2>5, <2>6, <2>8, <2>9, <2>10, <1>1, <1>3
<1>7. Done
  BY <1>1, <1>5, <1>6
<1> HIDE DEF merged
<1>8. TypeOK'
  BY <1>1, <1>2, <1>7 DEF TypeOK
<1>9. Owned(blocks', live', Taken')
  <2> DEFINE h == call.handle
  <2>1. Owned(blocks, live, Null) /\ Taken' = Null
    BY <1>1 DEF OsMemInv, Taken
  <2>2. live[h].size \in Sizes /\ live[h] \in [ptr : Nat, size : Sizes] /\ live[h].size \in Nat
    BY <1>2, <1>3, PointerIs DEF LiveType
  <2>3. Holds(blocks', Old, live[h].size)
    <3>1. live[h].size <= blocks'[i].size
      <4>1. blocks'[i] \in BlockType
        BY <1>7
      <4>2. blocks'[i].size \in Nat /\ blocks[i].size \in Nat
        BY <4>1, <1>3, BlockIs
      <4> QED  BY <4>2, <2>2, <1>3, <1>7
    <3>2. Used(blocks'[i])
      BY <1>7 DEF Used
    <3> QED  BY <3>1, <3>2, <1>7 DEF Holds
  <2>4. Old + Header = live[h].ptr
    BY <1>2, <1>3, PointerIs DEF Old
  <2>5. live = [live EXCEPT ![h] = [ptr |-> Old + Header, size |-> live[h].size]]
    BY <2>2, <2>4, <1>2, <1>3 DEF LiveType
  <2>6. Owned(blocks', [live EXCEPT ![h] = [ptr |-> Old + Header, size |-> live[h].size]], Null)
    BY <2>1, <2>2, <2>3, <1>2, <1>3, <1>7, OwnedResized DEF Old
  <2> QED  BY <2>1, <2>5, <2>6, <1>1
<1>10. CallInv'
  BY <1>1, <1>2 DEF CallInv, OsMemInv
<1>11. ListInv'
  BY <1>1, <1>7 DEF ListInv
<1>12. MoveInv'
  <2>1. ASSUME NEW j \in 1..Len(blocks'), blocks'[j].addr = Old PROVE blocks'[j].status = "ALLOC"
    <3>1. j = i
      BY <2>1, <1>3, <1>7, AddressesDiffer
    <3> QED  BY <3>1, <1>7
  <2> QED  BY <2>1, <1>1 DEF MoveInv, Old
<1> QED  BY <1>1, <1>7, <1>8, <1>9, <1>10, <1>11, <1>12 DEF OsMemInv

LEMMA LastBrkIs ==
  ASSUME TypeOK, NEW k \in 1..Len(blocks), OnHeap(blocks[k])
  PROVE  /\ LastBrk \in 1..Len(blocks) /\ OnHeap(blocks[LastBrk])
         /\ \A j \in 1..Len(blocks) : j > LastBrk => ~OnHeap(blocks[j])
<1> DEFINE S == {i \in DOMAIN blocks : blocks[i].status \in {"FREE", "ALLOC"}}
<1>1. S \in SUBSET (0..Len(blocks)) /\ S # {} /\ Len(blocks) \in Nat
  BY TypesAre DEF OnHeap
<1>2. \E i \in S : \A j \in S : j <= i
  BY <1>1, HasAGreatest
<1>3. \E i \in S : \A j \in S : i >= j
  BY <1>1, <1>2
<1>4. Max(S) \in S /\ \A j \in S : Max(S) >= j
  BY <1>3 DEF Max
<1>5. LastBrk = Max(S)
  BY DEF LastBrk
<1>6. ASSUME NEW j \in 1..Len(blocks), j > LastBrk PROVE ~OnHeap(blocks[j])
  <2>1. j \notin S
    <3> HIDE DEF S
    <3>1. LastBrk \in S /\ \A m \in S : LastBrk >= m
      BY <1>4, <1>5
    <3> QED  BY <3>1, <1>1, <1>6
  <2> QED  BY <2>1, TypesAre DEF OnHeap
<1> QED  BY <1>1, <1>4, <1>5, <1>6 DEF OnHeap

LEMMA ExtendLastFreeKeeps == ASSUME OsMemInv, ExtendLastFree PROVE OsMemInv'
<1> DEFINE i == LastBrk
<1>1. pc = "fit" /\ blocks[Current].size < Wanted /\ blocks[i].status = "FREE"
  BY DEF ExtendLastFree, TooSmall
<1>2. /\ TypeOK /\ Tiled(blocks, brk) /\ Away(blocks) /\ NoneGone(blocks, Len(blocks) + 1)
      /\ call.op = "realloc" /\ call # NoCall /\ live[call.handle] # NoMemory
      /\ Wanted \in Nat /\ Wanted > 0 /\ Wanted % Align = 0
  BY <1>1, ResizeIs
<1>3. /\ Current \in 1..Len(blocks) /\ blocks[Current].addr = Old /\ Holds(blocks, Old, 0)
      /\ \A j \in 1..Len(blocks) : blocks[j].addr = Old => j = Current
  BY <1>2, CurrentIs
<1>4. OnHeap(blocks[Current])
  <2>1. blocks[Current].status = "ALLOC"
    BY <1>1, <1>3 DEF OsMemInv, MoveInv
  <2> QED  BY <2>1 DEF OnHeap
<1>5. /\ i \in 1..Len(blocks) /\ OnHeap(blocks[i])
      /\ \A j \in 1..Len(blocks) : j > i => ~OnHeap(blocks[j])
  BY <1>2, <1>3, <1>4, LastBrkIs
<1> HIDE DEF i
<1>6. CASE Die
  BY <1>1, <1>6, DieKeeps
<1>7. CASE /\ ~(brk + Wanted - blocks[i].size > MaxBrk)
           /\ brk' = brk + Wanted - blocks[i].size
           /\ blocks' = [blocks EXCEPT ![i].size = Wanted, ![i].status = "ALLOC"]
           /\ pc' = "copy" /\ call' = [call EXCEPT !.to = blocks[i].addr]
           /\ UNCHANGED <<tail, cur, live, fault>>
  <2> DEFINE a == blocks[i].addr
  <2>1. /\ blocks' \in Seq(BlockType)
        /\ Tiled(blocks', brk + Wanted - blocks[i].size) /\ brk + Wanted - blocks[i].size \in Nat
        /\ Away(blocks') /\ Same(blocks, blocks', a) /\ Holds(blocks', a, Wanted)
        /\ NoneGone(blocks, Len(blocks) + 1) => NoneGone(blocks', Len(blocks') + 1)
    BY <1>2, <1>5, <1>7, GrownKeeps
  <2>2. a \in Nat /\ ~Used(blocks[i]) /\ blocks \in Seq(BlockType) /\ live \in LiveType
    BY <1>1, <1>2, <1>5, TypesAre, BlockIs DEF Used
  <2>3. ~Holds(blocks, a, 0)
    BY <2>2, <1>2, <1>5, NewAddress
  <2> HIDE DEF a
  <2>4. brk' \in 0..MaxBrk /\ tail' \in Nat \cup {Null}
    BY <2>1, <1>2, <1>7, TypesAre DEF TypeOK
  <2>5. call \in [op : Operations \cup {"move"}, handle : Handles, size : Sizes, to : Nat \cup {Null}]
    BY <1>2, TypesAre
  <2>6. /\ call'.op = "realloc" /\ call'.to = a /\ call'.handle = call.handle /\ call'.size = call.size
        /\ call' # NoCall /\ Wanted' = Wanted /\ Old' = Old /\ Taken' = a
        /\ call' \in [op : Operations \cup {"move"}, handle : Handles, size : Sizes, to : Nat \cup {Null}]
    BY <2>2, <2>5, <1>2, <1>7 DEF NoCall, Wanted, Old, Taken, a
  <2>7. TypeOK'
    BY <2>1, <2>4, <2>6, <1>2, <1>7 DEF TypeOK
  <2>8. Owned(blocks', live', Taken')
    <3>1. Owned(blocks, live, Null)
      BY <1>1 DEF OsMemInv, Taken
    <3>2. Owned(blocks', live, a)
      BY <3>1, <2>1, <2>2, <2>3, OwnedTaken
    <3> QED  BY <3>2, <2>6, <1>7
  <2>9. CallInv'
    BY <2>2, <2>6, <1>1, <1>2, <1>7 DEF CallInv, OsMemInv, Null
  <2>10. ListInv'
    BY <2>1, <1>2, <1>7 DEF ListInv
  <2>11. MoveInv'
    <3>1. Outgrown(blocks, Old, Wanted)
      BY <1>1, <1>3 DEF Outgrown
    <3>2. Old # a
      BY <2>3, <1>3
    <3>3. Outgrown(blocks', Old, Wanted)
      BY <3>1, <3>2, <2>1, OutgrownKept
    <3> QED  BY <3>3, <2>1, <2>6, <1>7 DEF MoveInv
  <2>12. Tiled(blocks', brk')
    BY <2>1, <1>7
  <2> QED  BY <2>1, <2>7, <2>8, <2>9, <2>10, <2>11, <2>12 DEF OsMemInv
<1> QED  BY <1>6, <1>7 DEF ExtendLastFree, i

(* os_free takes block i out of use.                                       *)
LEMMA FreedBlocks ==
  ASSUME TypeOK, Tiled(blocks, brk), Away(blocks), NEW i \in 1..Len(blocks), Used(blocks[i]), os_free(i)
  PROVE  /\ blocks' \in Seq(BlockType) /\ tail' \in Nat \cup {Null}
         /\ Tiled(blocks', brk) /\ Away(blocks')
         /\ Same(blocks, blocks', blocks[i].addr) /\ ~Holds(blocks', blocks[i].addr, 0)
<1>1. /\ blocks \in Seq(BlockType) /\ Len(blocks) \in Nat /\ i \in Nat /\ 1 <= i /\ i <= Len(blocks)
      /\ \A j \in 1..Len(blocks) : blocks[j] \in BlockType /\ blocks[j].prev \in Nat \cup {Null}
      /\ brk \in Nat
  <2>1. \A j \in 1..Len(blocks) : blocks[j] \in BlockType
    BY TypesAre
  <2> QED  BY <2>1, TypesAre DEF BlockType
<1>2. tail' \in Nat \cup {Null}
  BY <1>1 DEF os_free, TypeOK
(* The block keeps its place in the list.                                  *)
<1>3. ASSUME NEW s \in {"FREE", "UNMAPPED"}, s = "FREE" <=> blocks[i].status = "ALLOC",
             blocks' \in Seq(BlockType), Len(blocks') = Len(blocks),
             blocks'[i].addr = blocks[i].addr, blocks'[i].size = blocks[i].size, blocks'[i].status = s,
             \A j \in 1..Len(blocks) : j # i => Like(blocks'[j], blocks[j])
      PROVE  /\ Tiled(blocks', brk) /\ Away(blocks')
             /\ Same(blocks, blocks', blocks[i].addr) /\ ~Holds(blocks', blocks[i].addr, 0)
  <2>1. ~Used(blocks'[i]) /\ (OnHeap(blocks'[i]) <=> OnHeap(blocks[i]))
    BY <1>3 DEF Used, OnHeap
  <2>2. \A j \in 1..Len(blocks) : blocks'[j].addr = blocks[j].addr /\ blocks'[j].size = blocks[j].size
                                  /\ (OnHeap(blocks'[j]) <=> OnHeap(blocks[j]))
    BY <2>1, <1>3, LikeIs
  <2>3. SameShape(blocks, blocks')
    BY <2>2, <1>3 DEF SameShape
  <2>4. Tiled(blocks', brk) /\ Away(blocks')
    BY <2>3, <1>1, <1>3, SameShapeTiled
  <2>5. Same(blocks, blocks', blocks[i].addr)
    BY <1>3, SameInPlace
  <2>6. ~Holds(blocks', blocks[i].addr, 0)
    BY <2>1, <2>2, <1>3, IndexIs DEF Holds
  <2> QED  BY <2>4, <2>5, <2>6
(* The mapping leaves the list.                                            *)
<1>4. ASSUME ~OnHeap(blocks[i]), blocks' \in Seq(BlockType), Len(blocks') = Len(blocks) - 1,
             \A j \in 1..Len(blocks') : Like(blocks'[j], blocks[After(i, j)])
      PROVE  /\ Tiled(blocks', brk) /\ Away(blocks')
             /\ Same(blocks, blocks', blocks[i].addr) /\ ~Holds(blocks', blocks[i].addr, 0)
  <2>1. Tiled(blocks', brk) /\ Away(blocks')
    BY <1>1, <1>4, Deleted
  <2>2. Same(blocks, blocks', blocks[i].addr)
    BY <1>1, <1>4, SameDeleted
  <2>3. ASSUME NEW j \in 1..Len(blocks') PROVE blocks'[j].addr # blocks[i].addr
    <3>1. After(i, j) \in 1..Len(blocks) /\ After(i, j) # i
      BY <1>1, <1>4 DEF After
    <3>2. blocks[After(i, j)].addr # blocks[i].addr
      BY <3>1, IndexIs
    <3> QED  BY <3>2, <1>4 DEF Like
  <2> QED  BY <2>1, <2>2, <2>3 DEF Holds
<1>5. CASE blocks[i].status # "MAPPED"
  <2> DEFINE b == [blocks[i] EXCEPT !.status = "FREE"]
  <2>1. b \in BlockType /\ b.addr = blocks[i].addr /\ b.size = blocks[i].size /\ b.status = "FREE"
    BY <1>1 DEF BlockType, Statuses
  <2>2. blocks' = [blocks EXCEPT ![i] = b]
    BY <1>1, <1>5 DEF os_free
  <2> HIDE DEF b
  <2>3. blocks' \in Seq(BlockType) /\ Len(blocks') = Len(blocks) /\ blocks'[i] = b
        /\ \A j \in 1..Len(blocks) : j # i => blocks'[j] = blocks[j]
    BY <1>1, <2>1, <2>2
  <2>4. blocks[i].status = "ALLOC"
    BY <1>5 DEF Used
  <2> QED  BY <2>1, <2>3, <2>4, <1>2, <1>3 DEF Like
<1>6. CASE blocks[i].status = "MAPPED"
  <2> DEFINE gone == IF i = 1 \/ Linked(i) THEN RemoveAt(blocks, i)
                     ELSE [blocks EXCEPT ![i].status = "UNMAPPED"]
             next == IF Len(gone) = Len(blocks) THEN i + 1 ELSE i
             p == IF i = 1 THEN Null ELSE blocks[i].prev
  <2>1. blocks' = IF i = Len(blocks) THEN gone ELSE [gone EXCEPT ![next].prev = p]
    BY <1>6 DEF os_free, Unlinked
  <2>2. p \in Nat \cup {Null}
    BY <1>1
  <2>3. ~OnHeap(blocks[i])
    BY <1>6 DEF OnHeap
  <2> HIDE DEF p
  (* What is left of gone after the store to the next block's prev.        *)
  <2>4. ASSUME NEW g \in Seq(BlockType), g = gone, i # Len(blocks) => next \in 1..Len(g)
        PROVE  /\ blocks' \in Seq(BlockType) /\ Len(blocks') = Len(g)
               /\ \A j \in 1..Len(g) : Like(blocks'[j], g[j])
    <3>1. CASE i = Len(blocks)
      BY <3>1, <2>1, <2>4 DEF Like
    <3>2. CASE i # Len(blocks)
      <4> HIDE DEF gone, next
      <4> DEFINE b == [g[next] EXCEPT !.prev = p]
      <4>1. next \in 1..Len(g) /\ g[next] \in BlockType
        BY <3>2, <2>4
      <4>2. b \in BlockType /\ Like(b, g[next])
        BY <4>1, <2>2 DEF BlockType, Like
      <4>3. blocks' = [g EXCEPT ![next] = b]
        BY <4>1, <3>2, <2>1, <2>4
      <4> HIDE DEF b
      <4>4. blocks' \in Seq(BlockType) /\ Len(blocks') = Len(g) /\ blocks'[next] = b
            /\ \A j \in 1..Len(g) : j # next => blocks'[j] = g[j]
        <5> DEFINE l2 == [g EXCEPT ![next] = b]
        <5>1. /\ l2 \in Seq(BlockType) /\ Len(l2) = Len(g) /\ l2[next] = b
              /\ \A j \in 1..Len(g) : j # next => l2[j] = g[j]
          BY ONLY <4>1, <4>2, g \in Seq(BlockType), ReplaceIs
        <5>2. blocks' = l2
          BY <4>3
        <5> QED  BY <5>1, <5>2, Zenon
      <4> QED  BY <4>2, <4>4 DEF Like
    <3> QED  BY <3>1, <3>2
  <2>5. CASE i = 1 \/ Linked(i)
    <3>1. gone = RemoveAt(blocks, i)
      BY <2>5
    <3>2. /\ RemoveAt(blocks, i) \in Seq(BlockType) /\ Len(RemoveAt(blocks, i)) = Len(blocks) - 1
          /\ \A j \in 1..(Len(blocks) - 1) :
                RemoveAt(blocks, i)[j] = IF j < i THEN blocks[j] ELSE blocks[j + 1]
      BY <1>1, RemoveAtIs
    <3>3. gone \in Seq(BlockType) /\ Len(gone) = Len(blocks) - 1
          /\ \A j \in 1..(Len(blocks) - 1) : gone[j] = blocks[After(i, j)]
      <4>1. \A j \in 1..(Len(blocks) - 1) :
               blocks[After(i, j)] = IF j < i THEN blocks[j] ELSE blocks[j + 1]
        BY DEF After
      <4> HIDE DEF gone
      <4> QED  BY <4>1, <3>1, <3>2
    <3>4. next = i
      BY <3>3, <1>1
    <3>5. i # Len(blocks) => next \in 1..Len(gone)
      BY <3>3, <3>4, <1>1
    <3> HIDE DEF gone, next
    <3>6. /\ blocks' \in Seq(BlockType) /\ Len(blocks') = Len(blocks) - 1
          /\ \A j \in 1..Len(blocks') : Like(blocks'[j], blocks[After(i, j)])
      BY <3>3, <3>5, <2>4
    <3> QED  BY <3>6, <2>3, <1>2, <1>4
  <2>6. CASE ~(i = 1 \/ Linked(i))
    <3> DEFINE b == [blocks[i] EXCEPT !.status = "UNMAPPED"]
    <3>1. b \in BlockType /\ b.addr = blocks[i].addr /\ b.size = blocks[i].size /\ b.status = "UNMAPPED"
      BY <1>1 DEF BlockType, Statuses
    <3>2. gone = [blocks EXCEPT ![i] = b]
      BY <2>6, <1>1
    <3> HIDE DEF b
    <3>3. gone \in Seq(BlockType) /\ Len(gone) = Len(blocks) /\ gone[i] = b
          /\ \A j \in 1..Len(blocks) : j # i => gone[j] = blocks[j]
      <4> HIDE DEF gone
      <4> QED  BY <3>1, <3>2, <1>1
    <3>4. i # Len(blocks) => next \in 1..Len(gone)
      BY <3>3, <1>1
    <3> HIDE DEF gone, next
    <3>5. /\ blocks' \in Seq(BlockType) /\ Len(blocks') = Len(blocks)
          /\ \A j \in 1..Len(blocks) : Like(blocks'[j], gone[j])
      BY <3>3, <3>4, <2>4
    <3>6. \A j \in 1..Len(blocks) : j # i => Like(blocks'[j], blocks[j])
      BY <3>3, <3>5
    <3>7. blocks'[i].addr = blocks[i].addr /\ blocks'[i].size = blocks[i].size /\ blocks'[i].status = "UNMAPPED"
      BY <3>1, <3>3, <3>5, <1>1 DEF Like
    <3> QED  BY <3>5, <3>6, <3>7, <1>2, <1>3, <1>6
  <2> QED  BY <2>5, <2>6
<1> QED  BY <1>5, <1>6

LEMMA FreeKeeps == ASSUME OsMemInv, NEW h \in Handles, Free(h) PROVE OsMemInv'
<1> DEFINE i == IndexOf(live[h].ptr - Header)
<1>1. pc = "idle" /\ live[h] # NoMemory /\ cur = 1 /\ TypeOK /\ Tiled(blocks, brk) /\ Away(blocks)
  BY DEF Free, OsMemInv, CallInv
<1>2. i \in 1..Len(blocks) /\ Used(blocks[i]) /\ blocks[i].addr = live[h].ptr - Header
  BY <1>1, BlockOf
<1> HIDE DEF i
<1>3. CASE Fault("unmapped block")
  BY <1>1, <1>3, FaultKeeps DEF Faults
<1>4. CASE os_free(i) /\ live' = [live EXCEPT ![h] = NoMemory] /\ UNCHANGED <<brk, pc, call, cur, fault>>
  <2>1. /\ blocks' \in Seq(BlockType) /\ tail' \in Nat \cup {Null}
        /\ Tiled(blocks', brk) /\ Away(blocks')
        /\ Same(blocks, blocks', blocks[i].addr) /\ ~Holds(blocks', blocks[i].addr, 0)
    BY <1>1, <1>2, <1>4, FreedBlocks
  <2>2. live \in LiveType /\ blocks \in Seq(BlockType)
    BY <1>1, TypesAre
  <2>3. TypeOK'
    BY <2>1, <2>2, <1>1, <1>4 DEF TypeOK, LiveType
  <2>4. Owned(blocks', live', Taken')
    <3>1. Owned(blocks, live, Null) /\ Taken' = Null
      BY <1>1, <1>4 DEF OsMemInv, Taken
    <3> QED  BY <3>1, <2>1, <2>2, <1>1, <1>2, <1>4, OwnedFreed
  <2>5. CallInv' /\ ListInv' /\ MoveInv'
    BY <1>1, <1>4 DEF CallInv, ListInv, MoveInv, Moving
  <2> QED  BY <2>1, <2>3, <2>4, <2>5, <1>4 DEF OsMemInv
<1> QED  BY <1>3, <1>4 DEF Free, i

LEMMA CopyAndFreeKeeps == ASSUME OsMemInv, CopyAndFree PROVE OsMemInv'
<1> DEFINE h == call.handle
           a == call.to
           lv == [live EXCEPT ![h] = NoMemory]
<1>1. /\ pc = "copy" /\ os_free(Current) /\ Finish(h, a) /\ UNCHANGED <<brk, cur, fault>>
      /\ TypeOK /\ Tiled(blocks, brk) /\ Away(blocks) /\ call # NoCall /\ live[h] # NoMemory /\ cur = 1
      /\ a # Null /\ Holds(blocks, a, Wanted) /\ Owned(blocks, live, a)
  BY DEF CopyAndFree, OsMemInv, CallInv, MoveInv, Taken
<1>2. /\ Current \in 1..Len(blocks) /\ Used(blocks[Current]) /\ blocks[Current].addr = Old
      /\ h \in Handles /\ live \in LiveType /\ blocks \in Seq(BlockType) /\ a \in Nat
      /\ call.size \in Sizes /\ brk \in 0..MaxBrk
  BY <1>1, CurrentIs, TypesAre
<1>3. /\ blocks' \in Seq(BlockType) /\ tail' \in Nat \cup {Null}
      /\ Tiled(blocks', brk) /\ Away(blocks') /\ Same(blocks, blocks', Old) /\ ~Holds(blocks', Old, 0)
  BY <1>1, <1>2, FreedBlocks
<1> HIDE DEF h, a
<1>4. Owned(blocks', lv, a)
  BY <1>1, <1>2, <1>3, OwnedFreed DEF Old, h
<1>5. Old # a
  BY <1>1, <1>2 DEF Owned, Old, h
<1>6. Holds(blocks', a, call.size)
  <2>1. Holds(blocks', a, Wanted)
    BY <1>1, <1>3, <1>5, HoldsKept
  <2>2. Wanted \in Nat /\ call.size \in Nat /\ call.size <= Wanted
    BY <1>1, WantedIs
  <2> QED  BY <2>1, <2>2, <1>3, HoldsLess
<1>7. lv \in LiveType /\ lv[h] = NoMemory
  BY <1>2 DEF LiveType
<1>8. live' = [lv EXCEPT ![h] = [ptr |-> a + Header, size |-> call.size]]
  BY <1>1, <1>2 DEF Finish, LiveType
<1> HIDE DEF lv
<1>9. Owned(blocks', live', Null)
  BY <1>2, <1>3, <1>4, <1>6, <1>7, <1>8, OwnedGiven
<1> QED  BY <1>1, <1>2, <1>3, <1>9, FinishedState

-----------------------------------------------------------------------------
(* The invariant, and what follows from it.                                *)
LEMMA InitiallyInv == Init => OsMemInv
<1> SUFFICES ASSUME Init PROVE OsMemInv
  OBVIOUS
<1>1. /\ blocks = <<>> /\ blocks \in Seq(BlockType) /\ Len(blocks) = 0 /\ tail = Null /\ brk = 0
      /\ pc = "idle" /\ call = NoCall /\ cur = 1
      /\ live = [h \in Handles |-> NoMemory] /\ fault = "none"
  BY DEF Init
<1>2. TypeOK
  <2>1. brk \in 0..MaxBrk
    BY <1>1, MemAssumption
  <2> QED  BY <2>1, <1>1 DEF TypeOK, Faults
<1>3. Tiled(blocks, brk) /\ Away(blocks)
  BY <1>1 DEF Tiled, Highest, Away
<1>4. Owned(blocks, live, Taken)
  BY <1>1 DEF Owned
<1>5. CallInv /\ ListInv /\ MoveInv
  BY <1>1 DEF CallInv, ListInv, MoveInv, Moving
<1> QED  BY <1>2, <1>3, <1>4, <1>5 DEF OsMemInv

LEMMA NextKeepsInv == OsMemInv /\ [Next]_vars => OsMemInv'
<1> SUFFICES ASSUME OsMemInv, [Next]_vars PROVE OsMemInv'
  OBVIOUS
<1>1. CASE UNCHANGED vars
  <2>1. TypeOK'
    BY <1>1 DEF OsMemInv, TypeOK, vars
  <2>2. Owned(blocks', live', Taken')
    BY <1>1 DEF OsMemInv, Taken, vars
  <2>3. CallInv' /\ ListInv' /\ MoveInv'
    BY <1>1 DEF OsMemInv, CallInv, ListInv, MoveInv, Moving, TailIsLast, Old, Wanted, vars
  <2> QED  BY <2>1, <2>2, <2>3, <1>1 DEF OsMemInv, vars
<1>2. ASSUME NEW h \in Handles, Start(h) PROVE OsMemInv'
  BY <1>2, CallKeeps, FreeKeeps DEF Start
<1>3. CASE Loop
  <2>1. ASSUME ReadUnmapped PROVE OsMemInv'
    BY <2>1, FaultKeeps DEF ReadUnmapped, Faults
  <2> QED  BY <1>3, <2>1, MergeNextKeeps, AdvanceKeeps, CoalescedKeeps DEF Loop
<1>4. CASE Place
  BY <1>4, PlaceKeeps
<1>5. CASE Resize
  <2>1. ASSUME UseStaleHeader PROVE OsMemInv'
    BY <2>1, FaultKeeps DEF UseStaleHeader, TooSmall, Faults
  <2> QED  BY <1>5, <2>1, MoveMappedKeeps, GrowTailKeeps, AbsorbNextKeeps, TruncateKeeps, MoveBlockKeeps,
              ExtendLastFreeKeeps, CopyAndFreeKeeps DEF Resize
<1> QED  BY <1>1, <1>2, <1>3, <1>4, <1>5 DEF Next

LEMMA MaxIs ==
  ASSUME NEW S \in SUBSET Nat, NEW x \in S, \A y \in S : y <= x
  PROVE  Max(S) = x
<1>1. \E m \in S : \A y \in S : m >= y
  OBVIOUS
<1>2. Max(S) \in S /\ \A y \in S : Max(S) >= y
  BY <1>1 DEF Max
<1>3. Max(S) \in Nat /\ x \in Nat /\ Max(S) >= x /\ Max(S) <= x
  BY <1>2
<1> QED  BY <1>3

LEMMA HighestIsMax ==
  ASSUME TypeOK, NEW n \in 0..Len(blocks), NEW x \in Nat, Highest(blocks, n, x)
  PROVE  Max({0} \cup {End(j) : j \in {k \in 1..n : InHeap(k)}}) = x
<1> DEFINE S == {0} \cup {End(j) : j \in {k \in 1..n : InHeap(k)}}
<1>1. ASSUME NEW j \in 1..n
      PROVE  /\ j \in 1..Len(blocks) /\ End(j) = Over(blocks[j]) /\ Over(blocks[j]) \in Nat
             /\ InHeap(j) <=> OnHeap(blocks[j])
  <2>1. j \in 1..Len(blocks)
    BY TypesAre
  <2> QED  BY <2>1, TypesAre, BlockIs DEF End, Over, InHeap, OnHeap
<1>2. S \in SUBSET Nat
  BY <1>1
<1>3. \A y \in S : y <= x
  BY <1>1 DEF Highest
<1>4. x \in S
  BY <1>1 DEF Highest
<1> HIDE DEF S
<1>5. Max(S) = x
  BY <1>2, <1>3, <1>4, MaxIs
<1> QED  BY <1>5 DEF S

LEMMA InvGivesHeapTiled == OsMemInv => HeapTiled
<1> SUFFICES ASSUME OsMemInv PROVE HeapTiled
  OBVIOUS
<1>1. /\ TypeOK /\ Tiled(blocks, brk) /\ DOMAIN blocks = 1..Len(blocks) /\ Len(blocks) \in Nat /\ brk \in Nat
  BY TypesAre DEF OsMemInv
<1>2. ASSUME NEW i \in DOMAIN blocks, InHeap(i)
      PROVE  /\ blocks[i].addr = Max({0} \cup {End(j) : j \in {k \in 1 .. i - 1 : InHeap(k)}})
             /\ blocks[i].addr % Align = 0
             /\ blocks[i].size % Align = 0 /\ blocks[i].size > 0
  <2>1. i \in 1..Len(blocks) /\ OnHeap(blocks[i]) /\ i - 1 \in 0..Len(blocks) /\ blocks[i].addr \in Nat
    BY <1>1, <1>2, TypesAre, BlockIs DEF InHeap, OnHeap
  <2>2. Sound(blocks[i]) /\ Highest(blocks, i - 1, blocks[i].addr)
    BY <2>1, <1>1 DEF Tiled
  <2>3. Max({0} \cup {End(j) : j \in {k \in 1 .. i - 1 : InHeap(k)}}) = blocks[i].addr
    BY <2>1, <2>2, <1>1, HighestIsMax
  <2> QED  BY <2>2, <2>3 DEF Sound
<1>3. brk = Max({0} \cup {End(j) : j \in {k \in DOMAIN blocks : InHeap(k)}})
  <2>1. Highest(blocks, Len(blocks), brk) /\ Len(blocks) \in 0..Len(blocks)
    BY <1>1 DEF Tiled
  <2>2. Max({0} \cup {End(j) : j \in {k \in 1..Len(blocks) : InHeap(k)}}) = brk
    BY <2>1, <1>1, HighestIsMax
  <2> QED  BY <2>2, <1>1
<1> QED  BY <1>2, <1>3 DEF HeapTiled

LEMMA InvGivesOwnership == OsMemInv => BlocksMatchPointers
<1> SUFFICES ASSUME OsMemInv PROVE BlocksMatchPointers
  OBVIOUS
<1>1. /\ Owned(blocks, live, Taken) /\ live \in LiveType /\ DOMAIN blocks = 1..Len(blocks)
      /\ \A i \in 1..Len(blocks) : blocks[i].addr \in Nat
  BY TypesAre, BlockIs DEF OsMemInv
<1>2. \A h \in Handles : live[h] = NoMemory => live[h].ptr = Null
  BY DEF NoMemory
<1>3. ASSUME NEW h \in Handles, live[h] # NoMemory
      PROVE  \E i \in DOMAIN blocks : /\ InUse(i) /\ live[h].ptr = blocks[i].addr + Header
                                      /\ live[h].size <= blocks[i].size
  <2>1. PICK i \in 1..Len(blocks) : /\ Used(blocks[i]) /\ blocks[i].addr = live[h].ptr - Header
                                    /\ live[h].size <= blocks[i].size
    BY <1>1, <1>3 DEF Owned, Holds
  <2>2. live[h].ptr = blocks[i].addr + Header
    BY <2>1, <1>1, <1>3, PointerIs
  <2> QED  BY <2>1, <2>2, <1>1 DEF InUse, Used
<1>4. ASSUME NEW g \in Handles, NEW h \in Handles, live[g].ptr = live[h].ptr, live[g] # NoMemory PROVE g = h
  <2>1. live[h] # NoMemory
    <3>1. live[g].ptr \in Nat
      BY <1>1, <1>4, PointerIs
    <3> QED  BY <3>1, <1>2, <1>4 DEF Null
  <2> QED  BY <2>1, <1>1, <1>4 DEF Owned
<1>5. ASSUME NEW i \in DOMAIN blocks, InUse(i)
      PROVE  \/ \E h \in Handles : live[h].ptr = blocks[i].addr + Header
             \/ pc = "copy" /\ call.to = blocks[i].addr
  <2>1. i \in 1..Len(blocks) /\ Used(blocks[i]) /\ blocks[i].addr \in Nat
    BY <1>1, <1>5 DEF InUse, Used
  <2>2. CASE blocks[i].addr = Taken
    BY <2>1, <2>2 DEF Taken, Null
  <2>3. CASE blocks[i].addr # Taken
    <3>1. PICK h \in Handles : live[h] # NoMemory /\ live[h].ptr - Header = blocks[i].addr
      BY <2>1, <2>3, <1>1 DEF Owned
    <3>2. live[h].ptr = blocks[i].addr + Header
      BY <3>1, <1>1, PointerIs
    <3> QED  BY <3>2
  <2> QED  BY <2>2, <2>3
<1> QED  BY <1>3, <1>4, <1>5 DEF BlocksMatchPointers

LEMMA InvGivesCoalesced == OsMemInv => CoalescedForSearch
<1> SUFFICES ASSUME OsMemInv, pc \in {"place", "resize", "fit"}, NEW i \in 1..(Len(blocks) - 1)
             PROVE  ~(blocks[i].status = "FREE" /\ blocks[i + 1].status = "FREE")
  BY DEF CoalescedForSearch
<1>1. NoFreePair(blocks, Len(blocks)) /\ i < Len(blocks)
  BY TypesAre DEF OsMemInv, ListInv
<1> QED  BY <1>1 DEF NoFreePair

LEMMA MinIs ==
  ASSUME NEW m \in Nat, NEW n \in Nat PROVE Min({m, n}) <= m /\ Min({m, n}) <= n /\ Min({m, n}) \in Nat
<1> DEFINE S == {m, n}
<1>1. \E x \in S : \A y \in S : x <= y
  <2>1. CASE m <= n
    BY <2>1
  <2>2. CASE n <= m
    BY <2>2
  <2> QED  BY <2>1, <2>2
<1>2. Min(S) \in S /\ \A y \in S : Min(S) <= y
  BY <1>1 DEF Min
<1> QED  BY <1>2

LEMMA InvGivesCopy == OsMemInv => CopyKeepsContents
<1> SUFFICES ASSUME OsMemInv, pc = "copy"
             PROVE  LET old == blocks[Current]
                        new == blocks[IndexOf(call.to)]
                    IN  /\ Listed(call.to) /\ old.addr # new.addr
                        /\ InUse(Current) /\ InUse(IndexOf(call.to))
                        /\ CopyLength >= Min({live[call.handle].size, call.size})
                        /\ CopyLength <= new.size /\ CopyLength <= old.size
  BY DEF CopyKeepsContents
<1>1. /\ TypeOK /\ Tiled(blocks, brk) /\ Away(blocks) /\ call # NoCall /\ live[call.handle] # NoMemory
      /\ Holds(blocks, call.to, Wanted) /\ Owned(blocks, live, call.to) /\ call.handle \in Handles
      /\ Outgrown(blocks, Old, Wanted)
  BY TypesAre DEF OsMemInv, CallInv, MoveInv, Taken, Moving
<1>2. PICK k \in 1..Len(blocks) : Used(blocks[k]) /\ blocks[k].addr = call.to /\ Wanted <= blocks[k].size
  BY <1>1 DEF Holds
<1>3. IndexOf(call.to) = k /\ Listed(call.to)
  BY <1>1, <1>2, IndexIs
<1>4. /\ Current \in 1..Len(blocks) /\ Used(blocks[Current]) /\ blocks[Current].addr = Old
      /\ live[call.handle].size <= blocks[Current].size
  BY <1>1, CurrentIs
<1>5. Old # call.to
  BY <1>1 DEF Owned, Old
<1>6. /\ blocks[Current].size \in Nat /\ blocks[k].size \in Nat /\ call.size \in Nat /\ Wanted \in Nat
      /\ call.size <= Wanted /\ live[call.handle].size \in Nat
  BY <1>1, <1>2, <1>4, TypesAre, BlockIs, WantedIs, PointerIs
<1> DEFINE c == Current
           m == Min({live[call.handle].size, call.size})
<1>7. m <= live[call.handle].size /\ m <= call.size /\ m \in Nat
  BY <1>6, MinIs
<1>8. blocks[c].status = "ALLOC" => blocks[c].size < Wanted
  BY <1>1, <1>4 DEF Outgrown
<1>9. blocks[c].status \in {"ALLOC", "MAPPED"}
  BY <1>4 DEF Used
<1>10. CopyLength = IF blocks[c].status = "MAPPED" /\ blocks[c].size >= call.size
                    THEN call.size ELSE blocks[c].size
  BY DEF CopyLength
<1> HIDE DEF c, m
<1>11. CopyLength >= m /\ CopyLength <= blocks[k].size /\ CopyLength <= blocks[c].size
  <2>1. CASE blocks[c].status = "MAPPED" /\ blocks[c].size >= call.size
    BY <2>1, <1>2, <1>6, <1>7, <1>10 DEF c
  <2>2. CASE ~(blocks[c].status = "MAPPED" /\ blocks[c].size >= call.size)
    <3>1. CopyLength = blocks[c].size /\ blocks[c].size <= Wanted /\ blocks[c].size \in Nat
      BY <2>2, <1>6, <1>8, <1>9, <1>10 DEF c
    <3> QED  BY <3>1, <1>2, <1>4, <1>6, <1>7 DEF c
  <2> QED  BY <2>1, <2>2
<1> QED  BY <1>2, <1>3, <1>4, <1>5, <1>11 DEF InUse, Used, c, m

(***************************************************************************)
(* OsMemInv holds in every state, for all sizes, limits and mappings.      *)
(***************************************************************************)
THEOREM AllocatorInvariant == Spec => []OsMemInv
  BY InitiallyInv, NextKeepsInv, PTL DEF Spec

(***************************************************************************)
(* The allocator's variables keep their types: the break stays in the      *)
(* heap's limit, and no size or address gets negative.                     *)
(***************************************************************************)
THEOREM TypeCorrect == Spec => []TypeOK
<1>1. OsMemInv => TypeOK
  BY DEF OsMemInv
<1> QED  BY <1>1, AllocatorInvariant, PTL

(***************************************************************************)
(* Whatever is called, the heap is filled by its blocks up to the break,   *)
(* and the blocks in use are those of the caller's pointers.               *)
(***************************************************************************)
THEOREM HeapStaysWhole == Spec => []HeapInv
<1>1. OsMemInv => HeapInv
  BY InvGivesHeapTiled, InvGivesOwnership DEF HeapInv
<1> QED  BY <1>1, AllocatorInvariant, PTL

(***************************************************************************)
(* Before a free block is looked for, coalesce_free_blocks has left no two *)
(* neighbours free, however long the list is.                              *)
(***************************************************************************)
THEOREM SearchesCoalesced == Spec => []CoalescedForSearch
  BY InvGivesCoalesced, AllocatorInvariant, PTL

(***************************************************************************)
(* A moving os_realloc copies within both blocks, and all that the caller  *)
(* may rely on.                                                            *)
(***************************************************************************)
THEOREM MovesContents == Spec => []CopyKeepsContents
  BY InvGivesCopy, AllocatorInvariant, PTL

-----------------------------------------------------------------------------
(* The steps that move the program break for os_malloc or os_calloc.       *)
LEMMA GrowsInPlace ==
  ASSUME OsMemInv, [Next]_vars, brk' # brk, call.op \in {"malloc", "calloc"}
  PROVE  pc = "place" /\ (checkPrealloc \/ Fits = {})
<1>1. pc \in {"resize", "fit"} => call.op = "realloc"
  BY DEF OsMemInv, CallInv
<1>2. ~Loop
  BY DEF Loop, MergeNext, Advance, ReadUnmapped, Coalesced, Fault
<1>3. ASSUME NEW h \in Handles PROVE ~Start(h)
  BY DEF Start, Call, Free, Fault
<1>4. CASE Place
  <2>1. pc = "place" /\ ~UseBest /\ ~MmapFails /\ \A a \in MapAddrs : ~memory_mapping(a)
    BY <1>4 DEF Place, heap_preallocation, UseBest, ExtendLast, add_new_block, memory_mapping, MmapFails,
                Die, Fault
  <2> QED  BY <2>1, <1>4 DEF Place, heap_preallocation, ExtendLast, add_new_block
<1>5. ~Resize
  <2>1. ~GrowTail /\ ~ExtendLastFree
    BY <1>1 DEF GrowTail, ExtendLastFree, TooSmall
  <2> QED  BY <2>1 DEF Resize, MoveMapped, AbsorbNext, Truncate, MoveBlock, Move, UseStaleHeader, Fault,
                       CopyAndFree
<1> QED  BY <1>2, <1>3, <1>4, <1>5 DEF Next, vars

LEMMA GrowsWhenFull ==
  ASSUME OsMemInv, [Next]_vars, brk' > brk, call.op \in {"malloc", "calloc"},
         NEW i \in DOMAIN blocks, NEW j \in DOMAIN blocks, i <= j, FreeRun(i, j)
  PROVE  End(j) - blocks[i].addr - Header < Wanted
<1>1. /\ blocks \in Seq(BlockType) /\ Len(blocks) \in Nat /\ i \in 1..Len(blocks) /\ j \in 1..Len(blocks)
      /\ brk \in Nat
  BY TypesAre DEF OsMemInv
<1>2. brk' # brk
  BY <1>1
<1>3. pc = "place" /\ (checkPrealloc \/ Fits = {})
  BY <1>2, GrowsInPlace
<1>4. NoFreePair(blocks, Len(blocks)) /\ Wanted \in Nat
  BY <1>3, PlaceIs DEF OsMemInv, ListInv
<1>5. i = j
  <2>1. SUFFICES ASSUME i < j PROVE FALSE
    BY <1>1
  <2>2. i \in 1..(Len(blocks) - 1) /\ i \in i..j /\ i + 1 \in i..j /\ i < Len(blocks)
    BY <2>1, <1>1
  <2> QED  BY <2>2, <1>4 DEF FreeRun, NoFreePair
<1>6. blocks[j].status = "FREE"
  <2>1. j \in i..j
    BY <1>1, <1>5
  <2> QED  BY <2>1 DEF FreeRun
<1>7. ~checkPrealloc /\ blocks[j].size < Wanted
  <2>1. blocks[j].size \in Nat
    BY <1>1, BlockIs
  <2>2. ~checkPrealloc
    BY <1>6 DEF checkPrealloc
  <2>3. j \notin Fits
    BY <2>2, <1>3
  <2> QED  BY <2>1, <2>2, <2>3, <1>4, <1>6 DEF Fits
<1>8. End(j) - blocks[i].addr - Header = blocks[j].size
  <2>1. blocks[j].addr \in Nat /\ blocks[j].size \in Nat /\ Header \in Nat
    BY <1>1, BlockIs, HeaderIs
  <2> QED  BY <2>1, <1>5 DEF End
<1> QED  BY <1>7, <1>8

(***************************************************************************)
(* os_malloc and os_calloc ask for more heap only if no run of free blocks *)
(* has the bytes they want.                                                *)
(***************************************************************************)
THEOREM GrowsWhenItMust == Spec => GrowsOnlyWhenFull
<1> DEFINE Step == brk' > brk /\ call.op \in {"malloc", "calloc"} =>
                     \A i, j \in DOMAIN blocks :
                        i <= j /\ FreeRun(i, j) => End(j) - blocks[i].addr - Header < Wanted
<1>1. OsMemInv /\ [Next]_vars => Step
  BY GrowsWhenFull
<1>2. OsMemInv /\ [Next]_vars => [Step]_vars
  BY <1>1
<1>3. Spec => [][Step]_vars
  BY <1>2, AllocatorInvariant, PTL DEF Spec
<1> QED  BY <1>3 DEF GrowsOnlyWhenFull

-----------------------------------------------------------------------------
(* The contract of MemoryContract.                                         *)
LEMMA PointersApart ==
  ASSUME NEW l \in Seq(BlockType), NEW lv \in LiveType, NEW top \in 0..MaxBrk,
         Tiled(l, top), Away(l), NEW x, Owned(l, lv, x)
  PROVE  /\ \A h \in Handles : lv[h] # NoMemory =>
               lv[h].ptr >= 0 /\ lv[h].ptr % Align = 0 /\ lv[h].size \in Sizes
         /\ \A g, h \in Handles : lv[g] # NoMemory /\ lv[h] # NoMemory /\ g # h =>
               Memory!Apart(lv[g], lv[h])
<1>1. /\ top \in Nat /\ MaxBrk \in Nat /\ Align \in Nat \ {0} /\ Header \in Nat /\ Header % Align = 0
      /\ \A a \in MapAddrs : a > MaxBrk /\ a \in Nat
  BY MemAssumption, HeaderIs
<1>2. ASSUME NEW h \in Handles, lv[h] # NoMemory
      PROVE  \E i \in 1..Len(l) : /\ l[i] \in BlockType /\ l[i].addr \in Nat
                                  /\ lv[h].ptr = l[i].addr + Header /\ lv[h].size <= l[i].size
                                  /\ lv[h].ptr \in Nat /\ lv[h].size \in Nat /\ lv[h].size \in Sizes
  <2>1. PICK i \in 1..Len(l) : Used(l[i]) /\ l[i].addr = lv[h].ptr - Header /\ lv[h].size <= l[i].size
    BY <1>2 DEF Owned, Holds
  <2>2. l[i] \in BlockType
    OBVIOUS
  <2>3. lv[h].ptr = l[i].addr + Header
    BY <2>1, <1>2, PointerIs
  <2> QED  BY <2>1, <2>2, <2>3, <1>2, PointerIs, BlockIs
<1>3. ASSUME NEW h \in Handles, lv[h] # NoMemory
      PROVE  lv[h].ptr >= 0 /\ lv[h].ptr % Align = 0 /\ lv[h].size \in Sizes
  <2>1. PICK i \in 1..Len(l) : /\ l[i].addr \in Nat /\ lv[h].ptr = l[i].addr + Header
                               /\ lv[h].ptr \in Nat /\ lv[h].size \in Sizes
    BY <1>2, <1>3
  <2>2. l[i].addr % Align = 0
    BY MapAssumption DEF Tiled, Sound, Away
  <2>3. l[i].addr \in Int /\ Header \in Int
    BY <2>1, <1>1
  <2>4. (l[i].addr + Header) % Align = 0
    BY <2>2, <2>3, <1>1, SumIsMultiple, Zenon
  <2>5. lv[h].ptr % Align = 0
    BY <2>1, <2>4, Zenon
  <2> QED  BY <2>1, <2>5
(* Block i lies below block j.                                             *)
<1>4. ASSUME NEW i \in 1..Len(l), NEW j \in 1..Len(l), l[i].addr < l[j].addr, OnHeap(l[i])
      PROVE  Over(l[i]) <= l[j].addr
  <2>1. l[i] \in BlockType /\ l[j] \in BlockType
    OBVIOUS
  <2>2. Over(l[i]) \in Nat /\ Over(l[j]) \in Nat /\ l[i].addr \in Nat /\ l[j].addr \in Nat
        /\ l[j].addr < Over(l[j])
    BY <2>1, BlockIs
  <2>3. CASE OnHeap(l[j])
    <3>1. ~(j < i)
      BY <2>2, <2>3, <1>1, <1>4, HeapInOrder
    <3>2. i # j
      BY <2>2, <1>4
    <3>3. i < j
      BY <3>1, <3>2
    <3> QED  BY <3>3, <2>3, <1>1, <1>4, HeapInOrder
  <2>4. CASE ~OnHeap(l[j])
    <3>1. l[j].addr > MaxBrk
      BY <2>4, <1>1 DEF Away
    <3>2. Over(l[i]) <= top
      BY <1>1, <1>4, HeapInOrder
    <3> QED  BY <3>1, <3>2, <2>2, <1>1
  <2> QED  BY <2>3, <2>4
<1>5. ASSUME NEW i \in 1..Len(l), NEW j \in 1..Len(l), l[i].addr < l[j].addr, ~OnHeap(l[i]),
             NEW n \in Sizes
      PROVE  l[i].addr + Header + n <= l[j].addr
  <2>1. l[i] \in BlockType /\ l[j] \in BlockType
    OBVIOUS
  <2>2. l[i].addr \in Nat /\ l[j].addr \in Nat /\ Over(l[j]) \in Nat /\ l[j].addr < Over(l[j])
    BY <2>1, BlockIs
  <2>3. l[i].addr \in MapAddrs /\ l[i].addr > MaxBrk
    BY <1>1, <1>5 DEF Away
  <2>4. ~OnHeap(l[j])
    <3>1. SUFFICES ASSUME OnHeap(l[j]) PROVE FALSE
      OBVIOUS
    <3>2. Over(l[j]) <= top
      BY <3>1, <1>1, HeapInOrder
    <3> QED  BY <3>2, <2>2, <2>3, <1>1, <1>5
  <2>5. l[j].addr \in MapAddrs
    BY <2>4 DEF Away
  <2>6. l[i].addr + Header + Padded(n) <= l[j].addr
    BY <2>3, <2>5, <1>5, MapAssumption
  <2>7. n \in Nat /\ Padded(n) \in Nat /\ n <= Padded(n)
    BY MemAssumption, PaddedIs
  <2> QED  BY <2>2, <2>6, <2>7, <1>1, SMTT(30)
<1>6. ASSUME NEW g \in Handles, NEW h \in Handles, lv[g] # NoMemory, lv[h] # NoMemory,
             lv[g].ptr < lv[h].ptr
      PROVE  lv[g].ptr + lv[g].size <= lv[h].ptr
  <2>1. PICK i \in 1..Len(l) : /\ l[i] \in BlockType /\ l[i].addr \in Nat
                               /\ lv[g].ptr = l[i].addr + Header /\ lv[g].size <= l[i].size
                               /\ lv[g].ptr \in Nat /\ lv[g].size \in Nat /\ lv[g].size \in Sizes
    BY <1>2, <1>6, Zenon
  <2>2. PICK j \in 1..Len(l) : /\ l[j] \in BlockType /\ l[j].addr \in Nat
                               /\ lv[h].ptr = l[j].addr + Header /\ lv[h].size <= l[j].size
                               /\ lv[h].ptr \in Nat /\ lv[h].size \in Nat /\ lv[h].size \in Sizes
    BY <1>2, <1>6, Zenon
  <2>3. l[i].addr < l[j].addr
    BY <2>1, <2>2, <1>1, <1>6
  <2>4. l[i].addr + Header + lv[g].size <= l[j].addr
    <3>1. CASE OnHeap(l[i])
      <4>1. Over(l[i]) <= l[j].addr
        BY <3>1, <2>3, <1>4
      <4>2. l[i].size \in Nat
        BY <2>1, BlockIs
      <4>3. /\ l[i].addr + Header + l[i].size <= l[j].addr
            /\ l[i].addr \in Nat /\ l[j].addr \in Nat /\ lv[g].size \in Nat
            /\ lv[g].size <= l[i].size /\ Header \in Nat
        BY <4>1, <2>1, <2>2, <1>1 DEF Over
      <4> QED  BY ONLY <4>2, <4>3, SMTT(30)
    <3>2. CASE ~OnHeap(l[i])
      BY <3>2, <2>1, <2>3, <1>5
    <3> QED  BY <3>1, <3>2
  <2>5. /\ lv[g].ptr = l[i].addr + Header /\ lv[h].ptr = l[j].addr + Header
        /\ l[i].addr \in Nat /\ l[j].addr \in Nat /\ lv[g].size \in Nat /\ Header \in Nat
    BY <2>1, <2>2, <1>1
  <2> QED  BY ONLY <2>4, <2>5
<1>7. ASSUME NEW g \in Handles, NEW h \in Handles, lv[g] # NoMemory, lv[h] # NoMemory, g # h
      PROVE  Memory!Apart(lv[g], lv[h])
  <2>1. lv[g].ptr # lv[h].ptr /\ lv[g].ptr \in Nat /\ lv[h].ptr \in Nat
    BY <1>7, PointerIs DEF Owned
  <2>2. lv[g].ptr < lv[h].ptr \/ lv[h].ptr < lv[g].ptr
    BY <2>1
  <2> QED  BY <2>2, <1>6, <1>7 DEF Memory!Apart
<1> QED  BY <1>3, <1>7

LEMMA OnePointerChanges ==
  ASSUME OsMemInv, [Next]_vars
  PROVE  live' = live \/ \E h \in Handles : live' = [live EXCEPT ![h] = live'[h]]
<1>1. live \in LiveType
  BY TypesAre DEF OsMemInv
<1>2. ASSUME NEW h \in Handles, NEW v, live' = [live EXCEPT ![h] = v]
      PROVE  \E g \in Handles : live' = [live EXCEPT ![g] = live'[g]]
  <2>1. live'[h] = v
    BY <1>1, <1>2 DEF LiveType
  <2> QED  BY <2>1, <1>2
<1>3. pc \in {"place", "resize", "fit", "copy"} => call.handle \in Handles
  BY TypesAre DEF OsMemInv, CallInv
<1> DEFINE Changes == live' = live \/ \E h \in Handles : live' = [live EXCEPT ![h] = live'[h]]
<1>4. ASSUME NEW a, Finish(call.handle, a), call.handle \in Handles PROVE Changes
  BY <1>2, <1>4 DEF Finish
<1>5. ASSUME NEW a, Return(a), call.handle \in Handles PROVE Changes
  BY <1>4, <1>5 DEF Return
<1>6. ASSUME NEW h \in Handles, Start(h) PROVE Changes
  <2>1. ASSUME Free(h) PROVE Changes
    BY <2>1, <1>2 DEF Free, Fault
  <2> QED  BY <2>1, <1>6 DEF Start, Call
<1>7. CASE Loop
  BY <1>7 DEF Loop, MergeNext, Advance, ReadUnmapped, Coalesced, Fault
<1>8. ASSUME NEW i, extend_last_block(i), call.handle \in Handles PROVE Changes
  BY <1>5, <1>8 DEF extend_last_block, Die
<1> HIDE DEF Changes
<1>9. ASSUME Place PROVE Changes
  <2>1. ASSUME heap_preallocation PROVE Changes
    BY <2>1 DEF heap_preallocation, Die, Fault, Changes
  <2>2. ASSUME MmapFails PROVE Changes
    BY <2>2 DEF MmapFails, Die, Changes
  <2>3. ASSUME UseBest PROVE Changes
    BY <2>3, <1>3, <1>5 DEF UseBest
  <2>4. ASSUME ExtendLast PROVE Changes
    BY <2>4, <1>3, <1>8 DEF ExtendLast
  <2>5. ASSUME add_new_block PROVE Changes
    <3>1. CASE Die
      BY <3>1 DEF Die, Changes
    <3> QED  BY <3>1, <2>5, <1>3, <1>5 DEF add_new_block
  <2>6. ASSUME NEW a \in MapAddrs, memory_mapping(a) PROVE Changes
    <3>1. CASE Fault("overrun")
      BY <3>1 DEF Fault, Changes
    <3> QED  BY <3>1, <2>6, <1>3, <1>5 DEF memory_mapping
  <2>7. \/ heap_preallocation \/ UseBest \/ ExtendLast \/ add_new_block
        \/ (\E a \in MapAddrs : memory_mapping(a)) \/ MmapFails
    BY ONLY <1>9 DEF Place
  <2> QED  BY ONLY <2>1, <2>2, <2>3, <2>4, <2>5, <2>6, <2>7, Zenon
<1>10. ASSUME Resize PROVE Changes
  <2>1. ASSUME MoveMapped \/ MoveBlock PROVE Changes
    BY <2>1 DEF MoveMapped, MoveBlock, Move, Changes
  <2>2. ASSUME AbsorbNext \/ UseStaleHeader PROVE Changes
    BY <2>2 DEF AbsorbNext, UseStaleHeader, Fault, Changes
  <2>3. ASSUME ExtendLastFree PROVE Changes
    BY <2>3 DEF ExtendLastFree, Die, Changes
  <2>4. ASSUME GrowTail PROVE Changes
    BY <2>4, <1>3, <1>8 DEF GrowTail
  <2>5. ASSUME Truncate PROVE Changes
    BY <2>5, <1>3, <1>4 DEF Truncate
  <2>6. ASSUME CopyAndFree PROVE Changes
    BY <2>6, <1>3, <1>4 DEF CopyAndFree
  <2>7. \/ MoveMapped \/ GrowTail \/ AbsorbNext \/ Truncate
        \/ MoveBlock \/ ExtendLastFree \/ UseStaleHeader \/ CopyAndFree
    BY ONLY <1>10 DEF Resize
  <2> QED  BY ONLY <2>1, <2>2, <2>3, <2>4, <2>5, <2>6, <2>7, Zenon
<1>11. CASE UNCHANGED vars
  BY <1>11 DEF vars, Changes
<1> QED  BY <1>6, <1>7, <1>9, <1>10, <1>11 DEF Next, Changes

LEMMA StepKeepsContract ==
  ASSUME OsMemInv, OsMemInv', [Next]_vars PROVE [Memory!Next]_live
<1>1. live' \in LiveType /\ live \in LiveType
  BY DEF OsMemInv, TypeOK, LiveType
<1>2. /\ \A h \in Handles : live'[h] # NoMemory =>
            live'[h].ptr >= 0 /\ live'[h].ptr % Align = 0 /\ live'[h].size \in Sizes
      /\ \A g, h \in Handles : live'[g] # NoMemory /\ live'[h] # NoMemory /\ g # h =>
            Memory!Apart(live'[g], live'[h])
  <2>1. /\ blocks' \in Seq(BlockType) /\ brk' \in 0..MaxBrk
        /\ Tiled(blocks', brk') /\ Away(blocks') /\ Owned(blocks', live', Taken')
    BY DEF OsMemInv, TypeOK
  <2> QED  BY <2>1, <1>1, PointersApart
<1>3. CASE live' = live
  BY <1>3
<1>4. ASSUME NEW h \in Handles, live' = [live EXCEPT ![h] = live'[h]] PROVE [Memory!Next]_live
  <2>1. \A g \in Handles \ {h} : live'[g] = live[g]
    BY <1>1, <1>4 DEF LiveType
  <2>2. Memory!NoMemory = NoMemory
    BY DEF Memory!NoMemory, NoMemory, Null
  <2>3. CASE live'[h] # NoMemory
    <3>1. Memory!Give(h)
      BY <2>1, <2>2, <2>3, <1>2 DEF Memory!Give
    <3> QED  BY <3>1, <1>4 DEF Memory!Next
  <2>4. CASE live'[h] = NoMemory /\ live[h] # NoMemory
    <3>1. Memory!Release(h)
      BY <2>2, <2>4 DEF Memory!Release
    <3> QED  BY <3>1, <1>4 DEF Memory!Next
  <2>5. CASE live'[h] = NoMemory /\ live[h] = NoMemory
    <3>1. live' = live
      BY <2>5, <1>1, <1>4 DEF LiveType
    <3> QED  BY <3>1
  <2> QED  BY <2>3, <2>4, <2>5
<1> QED  BY <1>3, <1>4, OnePointerChanges

(***************************************************************************)
(* The allocator keeps its contract: each step of it is one of             *)
(* MemoryContract or leaves the caller's pointers alone, so no byte of one *)
(* pointer is ever given to another.                                       *)
(***************************************************************************)
THEOREM KeepsContract == Spec => MemorySpec
<1>1. Init => Memory!Init
  BY DEF Init, Memory!Init, Memory!NoMemory, NoMemory, Null
<1>2. OsMemInv /\ OsMemInv' /\ [Next]_vars => [Memory!Next]_live
  BY StepKeepsContract
<1> QED  BY <1>1, <1>2, AllocatorInvariant, PTL DEF Spec, MemorySpec, Memory!Spec

-----------------------------------------------------------------------------
(* What the contract means                                                 *)

(***************************************************************************)
(* As long as an allocator keeps the contract, no byte ever belongs to two *)
(* of the caller's pointers, whatever is allocated, resized and freed.     *)
(***************************************************************************)
THEOREM ContractKeepsMemoryApart == Memory!Spec => []Memory!Disjoint
<1> DEFINE IsFunction == live = [h \in Handles |-> live[h]]
           ContractInv == IsFunction /\ Memory!Disjoint
<1>1. Memory!Init => ContractInv
  BY DEF Memory!Init, Memory!Disjoint
<1>2. ContractInv /\ [Memory!Next]_live => ContractInv'
  <2> SUFFICES ASSUME ContractInv, [Memory!Next]_live PROVE ContractInv'
    OBVIOUS
  <2>1. CASE UNCHANGED live
    BY <2>1 DEF Memory!Disjoint
  <2>2. ASSUME NEW h \in Handles, Memory!Give(h) \/ Memory!Release(h),
               live' = [live EXCEPT ![h] = live'[h]]
        PROVE  ContractInv'
    <3>1. \A g \in Handles \ {h} : live'[g] = live[g]
      BY <2>2
    <3>2. IsFunction'
      BY <2>2
    <3>3. ASSUME NEW g \in Handles, g # h, live'[g] # Memory!NoMemory, live'[h] # Memory!NoMemory
          PROVE  Memory!Apart(live'[g], live'[h]) /\ Memory!Apart(live'[h], live'[g])
      <4>1. Memory!Give(h)
        BY <2>2, <3>3 DEF Memory!Release
      <4>2. Memory!Apart(live'[h], live[g])
        BY <3>1, <3>3, <4>1 DEF Memory!Give
      <4> QED  BY <3>1, <3>3, <4>2 DEF Memory!Apart
    <3>4. Memory!Disjoint'
      BY <3>1, <3>3 DEF Memory!Disjoint
    <3> QED  BY <3>2, <3>4
  <2> QED  BY <2>1, <2>2 DEF Memory!Next
<1> QED  BY <1>1, <1>2, PTL DEF Memory!Spec

(***************************************************************************)
(* So osmem.c never gives the same byte to two of the caller's pointers.   *)
(***************************************************************************)
THEOREM PointersNeverOverlap == Spec => []Memory!Disjoint
  BY KeepsContract, ContractKeepsMemoryApart, PTL DEF MemorySpec
-----------------------------------------------------------------------------
(* How stale prev pointers and list_tail may be.                           *)

(* The address p lies in block b; in a mapping, at its header.             *)
Leads(p, b) == b.addr <= p /\ p < Over(b) /\ (b.status = "MAPPED" => p = b.addr)

Whole(l) == \A i \in 1..Len(l) : l[i].status # "UNMAPPED"
PrevsLead(l) == \A i \in 2..Len(l) : Leads(l[i].prev, l[i - 1])
TailLeads(l, t) == Len(l) > 0 => Leads(t, l[Len(l)])

LinkInv == Whole(blocks) => PrevsLead(blocks) /\ TailLeads(blocks, tail)

-----------------------------------------------------------------------------
(* The changes of the list, each with what becomes of the links.           *)

LEMMA LeadsToStart == ASSUME NEW b \in BlockType PROVE Leads(b.addr, b)
  BY BlockIs DEF Leads

LEMMA LeadsToWider ==
  ASSUME NEW b \in BlockType, NEW c \in BlockType, NEW p \in Int, Leads(p, b),
         c.addr = b.addr, b.size <= c.size, c.status = "MAPPED" => b.status = "MAPPED"
  PROVE  Leads(p, c)
<1>1. /\ b.addr \in Nat /\ b.size \in Nat /\ c.size \in Nat /\ Header \in Nat
      /\ b.addr <= p /\ p < b.addr + Header + b.size
  BY BlockIs, HeaderIs DEF Leads, Over
<1>2. p < b.addr + Header + c.size
  BY <1>1
<1> QED  BY <1>1, <1>2 DEF Leads, Over

LEMMA PrevIs == ASSUME NEW b \in BlockType PROVE b.prev \in Int
  BY DEF BlockType, Null

LEMMA LinksKept ==
  ASSUME NEW l \in Seq(BlockType), NEW l2 \in Seq(BlockType), Len(l2) = Len(l), NEW t \in Int,
         \A i \in 1..Len(l) : /\ l2[i].addr = l[i].addr /\ l[i].size <= l2[i].size
                              /\ l2[i].status = "MAPPED" => l[i].status = "MAPPED"
                              /\ l2[i].prev = l[i].prev,
         PrevsLead(l), TailLeads(l, t)
  PROVE  PrevsLead(l2) /\ TailLeads(l2, t)
<1>1. Len(l) \in Nat
  OBVIOUS
<1>2. ASSUME NEW i \in 1..Len(l), NEW p \in Int, Leads(p, l[i]) PROVE Leads(p, l2[i])
  <2>1. l[i] \in BlockType /\ l2[i] \in BlockType
    OBVIOUS
  <2> QED  BY <2>1, <1>2, LeadsToWider
<1>3. ASSUME NEW i \in 2..Len(l2) PROVE Leads(l2[i].prev, l2[i - 1])
  <2>1. i \in 1..Len(l) /\ i - 1 \in 1..Len(l) /\ l[i] \in BlockType /\ i \in 2..Len(l)
    BY <1>1
  <2>2. Leads(l[i].prev, l[i - 1]) /\ l[i].prev \in Int /\ l2[i].prev = l[i].prev
    BY <2>1, PrevIs DEF PrevsLead
  <2> QED  BY <2>1, <2>2, <1>2
<1>4. TailLeads(l2, t)
  <2>1. Len(l) > 0 => Len(l) \in 1..Len(l)
    BY <1>1
  <2> QED  BY <2>1, <1>2 DEF TailLeads
<1> QED  BY <1>3, <1>4 DEF PrevsLead

LEMMA LinksAppended ==
  ASSUME NEW l \in Seq(BlockType), NEW b \in BlockType, PrevsLead(l), TailLeads(l, b.prev)
  PROVE  PrevsLead(Append(l, b)) /\ TailLeads(Append(l, b), b.addr)
<1> DEFINE l2 == Append(l, b)
<1>1. Len(l) \in Nat /\ Len(l2) = Len(l) + 1 /\ l2[Len(l) + 1] = b /\ \A i \in 1..Len(l) : l2[i] = l[i]
  OBVIOUS
<1> HIDE DEF l2
<1>2. ASSUME NEW i \in 2..Len(l2) PROVE Leads(l2[i].prev, l2[i - 1])
  <2>1. CASE i \in 2..Len(l)
    <3>1. i \in 1..Len(l) /\ i - 1 \in 1..Len(l)
      BY <2>1, <1>1
    <3> QED  BY <3>1, <2>1, <1>1 DEF PrevsLead
  <2>2. CASE i = Len(l) + 1
    <3>1. i - 1 = Len(l) /\ Len(l) > 0 /\ Len(l) \in 1..Len(l)
      BY <2>2, <1>1
    <3> QED  BY <3>1, <2>2, <1>1 DEF TailLeads
  <2> QED  BY <2>1, <2>2, <1>1
<1>3. TailLeads(l2, b.addr)
  BY <1>1, LeadsToStart DEF TailLeads
<1> QED  BY <1>2, <1>3 DEF PrevsLead, l2

(* Block i + 1 becomes a part of block i, and the block after it may get   *)
(* its prev right.                                                         *)
LEMMA LinksMerged ==
  ASSUME NEW l \in Seq(BlockType), NEW l2 \in Seq(BlockType), NEW i \in 1..(Len(l) - 1),
         NEW top \in Nat, Tiled(l, top), OnHeap(l[i]), OnHeap(l[i + 1]),
         Len(l2) = Len(l) - 1, NEW t \in Int,
         \A j \in 1..Len(l2) : j # i => /\ Like(l2[j], l[After(i + 1, j)])
                                        /\ \/ l2[j].prev = l[After(i + 1, j)].prev
                                           \/ j = i + 1 /\ l2[j].prev = l[i].addr,
         l2[i].addr = l[i].addr, l2[i].status = l[i].status, l2[i].prev = l[i].prev,
         l2[i].size = l[i].size + l[i + 1].size + Header,
         PrevsLead(l), TailLeads(l, t)
  PROVE  PrevsLead(l2) /\ TailLeads(l2, t)
<1>1. /\ Len(l) \in Nat /\ i \in Nat /\ 1 <= i /\ i + 1 <= Len(l)
      /\ i \in 1..Len(l) /\ i + 1 \in 1..Len(l) /\ i \in 1..Len(l2)
  OBVIOUS
<1>2. l[i] \in BlockType /\ l[i + 1] \in BlockType /\ l2[i] \in BlockType
  BY <1>1
<1>3. l[i + 1].addr = Over(l[i])
  BY <1>1, NextTouches
<1>4. /\ l[i].addr \in Nat /\ l[i].size \in Nat /\ l[i + 1].size \in Nat /\ Header \in Nat
      /\ l2[i].status # "MAPPED"
  BY <1>2, BlockIs, HeaderIs DEF OnHeap
(* What led into either of the two leads into what they have become.       *)
<1>5. ASSUME NEW p \in Int, Leads(p, l[i]) \/ Leads(p, l[i + 1]) PROVE Leads(p, l2[i])
  <2> DEFINE a == l[i].addr
             n == l[i].size
             m == l[i + 1].size
             b == l[i + 1].addr
  <2>1. a \in Nat /\ n \in Nat /\ m \in Nat /\ Header \in Nat /\ b = a + Header + n
    BY <1>3, <1>4 DEF Over
  <2>2. (a <= p /\ p < a + Header + n) \/ (b <= p /\ p < b + Header + m)
    BY <1>5 DEF Leads, Over
  <2>3. l2[i].addr = a /\ l2[i].size = n + m + Header
    OBVIOUS
  <2> HIDE DEF a, b, n, m
  <2>4. a <= p /\ p < a + Header + (n + m + Header)
    BY ONLY <2>1, <2>2, <1>5
  <2> QED  BY <2>3, <2>4, <1>4 DEF Leads, Over
<1>6. ASSUME NEW j \in 1..Len(l2), j # i, NEW p \in Int, Leads(p, l[After(i + 1, j)]) PROVE Leads(p, l2[j])
  <2>1. Like(l2[j], l[After(i + 1, j)])
    BY <1>6
  <2> QED  BY <2>1, <1>6 DEF Like, Leads, Over
<1>7. ASSUME NEW j \in 2..Len(l2) PROVE Leads(l2[j].prev, l2[j - 1])
  <2> DEFINE k == After(i + 1, j)
  <2>1. /\ j \in 1..Len(l2) /\ j - 1 \in 1..Len(l2) /\ k \in 2..Len(l) /\ k \in 1..Len(l)
        /\ l2[j] \in BlockType /\ l2[j - 1] \in BlockType
    <3>1. j \in 1..Len(l2) /\ j - 1 \in 1..Len(l2) /\ k \in 2..Len(l) /\ k \in 1..Len(l)
      BY <1>1 DEF After
    <3> QED  BY <3>1
  <2>2. Leads(l[k].prev, l[k - 1]) /\ l[k].prev \in Int
    <3>1. l[k] \in BlockType
      BY <2>1
    <3> QED  BY <3>1, <2>1, PrevIs DEF PrevsLead
  <2>3. CASE j = i
    <3>1. k = i
      BY <2>3, <1>1 DEF After
    <3>2. j - 1 # i /\ After(i + 1, j - 1) = k - 1
      BY <2>3, <3>1, <1>1, <2>1 DEF After
    <3> QED  BY <2>1, <2>2, <2>3, <3>1, <3>2, <1>6
  <2>4. CASE j = i + 1 /\ l2[j].prev = l[i].addr
    <3>1. Leads(l[i].addr, l[i]) /\ l[i].addr \in Int /\ j - 1 = i
      BY <1>1, <1>2, <1>4, <2>4, LeadsToStart
    <3> QED  BY <3>1, <2>4, <1>5
  <2>5. CASE j # i /\ l2[j].prev = l[k].prev
    <3>1. CASE j = i + 1
      <4>1. k - 1 = i + 1 /\ j - 1 = i
        BY <3>1, <1>1 DEF After
      <4>2. Leads(l[k].prev, l[i + 1])
        BY <4>1, <2>2
      <4> HIDE DEF k
      <4> QED  BY <4>1, <4>2, <2>2, <2>5, <1>5
    <3>2. CASE j # i + 1
      <4>1. j - 1 # i /\ After(i + 1, j - 1) = k - 1
        <5>1. j \in Nat /\ i \in Nat /\ j # i /\ j # i + 1 /\ j >= 2
          BY <1>1, <2>5, <3>2
        <5> QED  BY ONLY <5>1 DEF After
      <4> QED  BY <4>1, <2>1, <2>2, <2>5, <1>6
    <3> QED  BY <3>1, <3>2
  <2>6. j = i \/ (j = i + 1 /\ l2[j].prev = l[i].addr) \/ (j # i /\ l2[j].prev = l[k].prev)
    BY <2>1
  <2> HIDE DEF k
  <2> QED  BY <2>3, <2>4, <2>5, <2>6
<1>8. TailLeads(l2, t)
  <2>1. Len(l) > 0 /\ Leads(t, l[Len(l)])
    BY <1>1 DEF TailLeads
  <2>2. CASE i + 1 = Len(l)
    <3>1. Len(l2) = i
      BY <2>2, <1>1
    <3> QED  BY <3>1, <2>1, <2>2, <1>5 DEF TailLeads
  <2>3. CASE i + 1 # Len(l)
    <3>1. Len(l2) \in 1..Len(l2) /\ Len(l2) # i /\ After(i + 1, Len(l2)) = Len(l)
      BY <2>3, <1>1 DEF After
    <3> QED  BY <3>1, <2>1, <1>6 DEF TailLeads
  <2> QED  BY <2>2, <2>3
<1> QED  BY <1>7, <1>8 DEF PrevsLead

LEMMA LinksSplit ==
  ASSUME NEW l \in Seq(BlockType), NEW l2 \in Seq(BlockType), NEW i \in 1..Len(l),
         Len(l2) = Len(l) + 1, NEW t, NEW t2, NEW r, l2[i + 1].addr = r,
         l2[i].addr = l[i].addr, l2[i].prev = l[i].prev, l2[i + 1].prev = l[i].addr,
         \A j \in 1..Len(l2) : j # i /\ j # i + 1 =>
            /\ Like(l2[j], l[Without(i, j)])
            /\ l2[j].prev = IF j = i + 2 THEN r ELSE l[Without(i, j)].prev,
         t2 = IF i = Len(l) THEN r ELSE t,
         PrevsLead(l), TailLeads(l, t)
  PROVE  PrevsLead(l2) /\ TailLeads(l2, t2)
<1>1. /\ Len(l) \in Nat /\ i \in Nat /\ 1 <= i /\ i <= Len(l)
      /\ i \in 1..Len(l2) /\ i + 1 \in 1..Len(l2)
  OBVIOUS
<1>2. Leads(l[i].addr, l2[i]) /\ Leads(r, l2[i + 1])
  <2>1. l2[i] \in BlockType /\ l2[i + 1] \in BlockType
    BY <1>1
  <2> QED  BY <2>1, LeadsToStart
<1>3. ASSUME NEW j \in 1..Len(l2), j # i, j # i + 1, NEW p, Leads(p, l[Without(i, j)])
      PROVE  Leads(p, l2[j])
  <2>1. Like(l2[j], l[Without(i, j)])
    BY <1>3
  <2> QED  BY <2>1, <1>3 DEF Like, Leads, Over
<1>4. ASSUME NEW j \in 2..Len(l2) PROVE Leads(l2[j].prev, l2[j - 1])
  <2>1. /\ j \in Nat /\ j \in 1..Len(l2) /\ j - 1 \in 1..Len(l2)
        /\ j = i \/ j = i + 1 \/ j = i + 2 \/ j < i \/ j > i + 2
    BY <1>1
  <2>2. CASE j = i + 1
    <3>1. j - 1 = i
      BY <2>2, <1>1
    <3> QED  BY <3>1, <2>2, <1>2
  <2>3. CASE j = i + 2
    <3>1. j - 1 = i + 1 /\ j # i /\ j # i + 1
      BY <2>3, <1>1
    <3>2. l2[j].prev = r
      BY <3>1, <2>1, <2>3
    <3> QED  BY <3>1, <3>2, <1>2
  <2>4. CASE j = i
    <3>1. j - 1 # i /\ j - 1 # i + 1 /\ Without(i, j - 1) = i - 1 /\ i \in 2..Len(l)
      BY <2>4, <2>1, <1>1 DEF Without
    <3> QED  BY <3>1, <2>1, <2>4, <1>3 DEF PrevsLead
  <2>5. CASE j < i \/ j > i + 2
    <3>1. /\ j - 1 # i /\ j - 1 # i + 1 /\ j # i /\ j # i + 1 /\ j # i + 2
          /\ Without(i, j - 1) = Without(i, j) - 1 /\ Without(i, j) \in 2..Len(l)
      BY <2>5, <1>1 DEF Without
    <3> QED  BY <3>1, <2>1, <1>3 DEF PrevsLead
  <2> QED  BY <2>1, <2>2, <2>3, <2>4, <2>5
<1>5. TailLeads(l2, t2)
  <2>1. CASE i = Len(l)
    BY <2>1, <1>1, <1>2 DEF TailLeads
  <2>2. CASE i # Len(l)
    <3>1. Len(l2) \in 1..Len(l2) /\ Len(l2) # i /\ Len(l2) # i + 1 /\ Without(i, Len(l2)) = Len(l)
          /\ Len(l) > 0
      BY <2>2, <1>1 DEF Without
    <3> QED  BY <3>1, <2>2, <1>3 DEF TailLeads
  <2> QED  BY <2>1, <2>2
<1> QED  BY <1>4, <1>5 DEF PrevsLead

LEMMA LinksDeleted ==
  ASSUME NEW l \in Seq(BlockType), NEW l2 \in Seq(BlockType), NEW i \in 1..Len(l),
         l[i].status = "MAPPED", i = 1 \/ l[i].prev = l[i - 1].addr,
         Len(l2) = Len(l) - 1, NEW t, NEW t2,
         \A j \in 1..Len(l2) : /\ Like(l2[j], l[After(i, j)])
                               /\ j > 1 => l2[j].prev = IF j = i THEN l[i].prev ELSE l[After(i, j)].prev,
         t2 = IF i > 1 /\ l[i].addr = t THEN l[i].prev ELSE t,
         i # Len(l) => l[i].addr # t,
         PrevsLead(l), TailLeads(l, t)
  PROVE  PrevsLead(l2) /\ TailLeads(l2, t2)
<1>1. Len(l) \in Nat /\ i \in Nat /\ 1 <= i /\ i <= Len(l) /\ Len(l2) \in Nat
  OBVIOUS
<1>2. ASSUME NEW j \in 1..Len(l2), NEW p, Leads(p, l[After(i, j)]) PROVE Leads(p, l2[j])
  <2>1. Like(l2[j], l[After(i, j)])
    OBVIOUS
  <2> QED  BY <2>1, <1>2 DEF Like, Leads, Over
<1>3. ASSUME NEW j \in 2..Len(l2) PROVE Leads(l2[j].prev, l2[j - 1])
  <2>1. j \in Nat /\ j > 1 /\ j \in 1..Len(l2) /\ j - 1 \in 1..Len(l2)
    BY <1>1
  <2>2. CASE j = i
    <3>1. After(i, j - 1) = i - 1 /\ i \in 2..Len(l)
      BY <2>1, <2>2, <1>1 DEF After
    <3>2. Leads(l[i].prev, l[i - 1]) /\ l2[j].prev = l[i].prev
      BY <3>1, <2>1, <2>2 DEF PrevsLead
    <3> QED  BY <3>1, <3>2, <2>1, <1>2
  <2>3. CASE j # i
    <3>1. After(i, j) \in 2..Len(l)
      BY <2>1, <2>3, <1>1 DEF After
    <3>2. After(i, j - 1) = After(i, j) - 1
      BY <2>1, <2>3, <1>1 DEF After
    <3>3. Leads(l[After(i, j)].prev, l[After(i, j) - 1]) /\ l2[j].prev = l[After(i, j)].prev
      BY <3>1, <2>1, <2>3 DEF PrevsLead
    <3> QED  BY <3>2, <3>3, <2>1, <1>2
  <2> QED  BY <2>2, <2>3
<1>4. TailLeads(l2, t2)
  <2>1. SUFFICES ASSUME Len(l2) > 0 PROVE Leads(t2, l2[Len(l2)])
    BY DEF TailLeads
  <2>2. Leads(t, l[Len(l)]) /\ Len(l2) \in 1..Len(l2)
    BY <2>1, <1>1 DEF TailLeads
  <2>3. CASE i = Len(l)
    <3>1. After(i, Len(l2)) = i - 1 /\ i > 1 /\ i \in 2..Len(l)
      BY <2>1, <2>3, <1>1 DEF After
    <3>2. t = l[i].addr
      BY <2>2, <2>3 DEF Leads
    <3>3. Leads(l[i].prev, l[i - 1]) /\ t2 = l[i].prev
      BY <3>1, <3>2 DEF PrevsLead
    <3> QED  BY <3>1, <3>3, <2>2, <1>2
  <2>4. CASE i # Len(l)
    <3>1. After(i, Len(l2)) = Len(l) /\ t2 = t
      BY <2>4, <1>1 DEF After
    <3> QED  BY <3>1, <2>2, <1>2
  <2> QED  BY <2>3, <2>4
<1> QED  BY <1>3, <1>4 DEF PrevsLead

-----------------------------------------------------------------------------
(* What the operations make of the list.                                   *)

LEMMA LinkTypes ==
  ASSUME TypeOK
  PROVE  /\ blocks \in Seq(BlockType) /\ Len(blocks) \in Nat /\ tail \in Int /\ brk \in Nat
         /\ \A i \in 1..Len(blocks) : blocks[i] \in BlockType
  BY TypesAre DEF TypeOK, Null

LEMMA AppendLinks ==
  ASSUME TypeOK, LinkInv, Whole(blocks), NEW b \in BlockType, b.prev = tail,
         blocks' = Append(blocks, b), tail' = b.addr
  PROVE  LinkInv'
<1>1. PrevsLead(blocks) /\ TailLeads(blocks, b.prev) /\ blocks \in Seq(BlockType)
  BY LinkTypes DEF LinkInv
<1>2. PrevsLead(blocks') /\ TailLeads(blocks', tail')
  BY <1>1, LinksAppended
<1> QED  BY <1>2 DEF LinkInv

LEMMA GrowLinks ==
  ASSUME TypeOK, LinkInv, Whole(blocks), NEW i \in 1..Len(blocks), NEW n \in Nat, blocks[i].size <= n,
         blocks' = [blocks EXCEPT ![i].size = n, ![i].status = "ALLOC"], tail' = tail
  PROVE  LinkInv'
<1> DEFINE b == [blocks[i] EXCEPT !.size = n, !.status = "ALLOC"]
<1>1. /\ blocks \in Seq(BlockType) /\ blocks[i] \in BlockType /\ tail \in Int
      /\ \A j \in 1..Len(blocks) : blocks[j] \in BlockType
  BY LinkTypes
<1>2. /\ b \in BlockType /\ b.addr = blocks[i].addr /\ b.size = n /\ b.prev = blocks[i].prev
      /\ b.status = "ALLOC"
  BY <1>1 DEF BlockType, Statuses
<1>3. blocks' = [blocks EXCEPT ![i] = b]
  BY <1>1
<1> HIDE DEF b
<1>4. /\ blocks' \in Seq(BlockType) /\ Len(blocks') = Len(blocks) /\ blocks'[i] = b
      /\ \A j \in 1..Len(blocks) : j # i => blocks'[j] = blocks[j]
  <2> DEFINE l2 == [blocks EXCEPT ![i] = b]
  <2>1. /\ l2 \in Seq(BlockType) /\ Len(l2) = Len(blocks) /\ l2[i] = b
        /\ \A j \in 1..Len(blocks) : j # i => l2[j] = blocks[j]
    BY ONLY <1>1, <1>2, i \in 1..Len(blocks), ReplaceIs
  <2>2. blocks' = l2
    BY <1>3
  <2> QED  BY <2>1, <2>2, Zenon
<1>5. \A j \in 1..Len(blocks) : blocks[j].size \in Nat
  BY <1>1, BlockIs
<1>6. ASSUME NEW j \in 1..Len(blocks)
      PROVE  /\ blocks'[j].addr = blocks[j].addr /\ blocks[j].size <= blocks'[j].size
             /\ blocks'[j].status = "MAPPED" => blocks[j].status = "MAPPED"
             /\ blocks'[j].prev = blocks[j].prev
  <2>1. CASE j = i
    BY <2>1, <1>2, <1>4
  <2>2. CASE j # i
    BY <2>2, <1>4, <1>5
  <2> QED  BY <2>1, <2>2
<1>7. PrevsLead(blocks) /\ TailLeads(blocks, tail)
  BY DEF LinkInv
<1>8. PrevsLead(blocks') /\ TailLeads(blocks', tail)
  BY <1>1, <1>4, <1>6, <1>7, LinksKept
<1> QED  BY <1>8 DEF LinkInv

LEMMA KeepLinks ==
  ASSUME TypeOK, LinkInv, Whole(blocks), NEW i \in 1..Len(blocks), Keep(i)
  PROVE  LinkInv'
<1>1. /\ blocks \in Seq(BlockType) /\ blocks[i] \in BlockType /\ blocks[i].size \in Nat
      /\ blocks[i].size <= blocks[i].size
  <2>1. blocks[i] \in BlockType
    BY LinkTypes
  <2> QED  BY <2>1, LinkTypes, BlockIs
<1>2. [blocks[i] EXCEPT !.status = "ALLOC"] = [blocks[i] EXCEPT !.size = blocks[i].size, !.status = "ALLOC"]
  BY <1>1 DEF BlockType
<1>3. blocks' = [blocks EXCEPT ![i].size = blocks[i].size, ![i].status = "ALLOC"] /\ tail' = tail
  BY <1>1, <1>2 DEF Keep
<1> QED  BY <1>1, <1>3, GrowLinks

LEMMA SplitLinks ==
  ASSUME TypeOK, LinkInv, Whole(blocks), NEW i \in 1..Len(blocks), NEW n \in Nat,
         n + Header < blocks[i].size, Split(i, n)
  PROVE  LinkInv'
<1> DEFINE r == blocks[i].addr + Header + n
<1>1. /\ blocks' \in Seq(BlockType) /\ Len(blocks') = Len(blocks) + 1
      /\ blocks'[i].addr = blocks[i].addr /\ blocks'[i].prev = blocks[i].prev
      /\ blocks'[i + 1] = Block(r, blocks[i].size - n - Header, "FREE", blocks[i].addr)
      /\ \A j \in 1..Len(blocks') : j # i /\ j # i + 1 =>
            /\ Like(blocks'[j], blocks[Without(i, j)])
            /\ blocks'[j].prev = IF j = i + 2 THEN r ELSE blocks[Without(i, j)].prev
      /\ tail' = IF i = Len(blocks) THEN r ELSE tail
  BY SplitList
<1>2. blocks'[i + 1].addr = r /\ blocks'[i + 1].prev = blocks[i].addr
  BY <1>1 DEF Block
<1>3. blocks \in Seq(BlockType) /\ PrevsLead(blocks) /\ TailLeads(blocks, tail)
  BY LinkTypes DEF LinkInv
<1> HIDE DEF r
<1>4. PrevsLead(blocks') /\ TailLeads(blocks', tail')
  BY <1>1, <1>2, <1>3, LinksSplit
<1> QED  BY <1>4 DEF LinkInv

(* A block is merged with the free one behind it.                          *)
LEMMA MergeLinks ==
  ASSUME TypeOK, LinkInv, Tiled(blocks, brk), NEW i \in 1..(Len(blocks) - 1),
         OnHeap(blocks[i]), blocks[i + 1].status = "FREE", NEW l2 \in Seq(BlockType),
         Len(l2) = Len(blocks) - 1, l2[i] = Merged(i),
         \A j \in 1..Len(l2) : j # i => /\ Like(l2[j], blocks[After(i + 1, j)])
                                        /\ \/ l2[j].prev = blocks[After(i + 1, j)].prev
                                           \/ j = i + 1 /\ l2[j].prev = blocks[i].addr,
         Whole(l2)
  PROVE  PrevsLead(l2) /\ TailLeads(l2, tail)
<1>1. /\ blocks \in Seq(BlockType) /\ Len(blocks) \in Nat /\ tail \in Int /\ brk \in Nat
      /\ blocks[i] \in BlockType
  BY LinkTypes
<1>2. /\ l2[i].addr = blocks[i].addr /\ l2[i].status = blocks[i].status /\ l2[i].prev = blocks[i].prev
      /\ l2[i].size = blocks[i].size + blocks[i + 1].size + Header
  BY <1>1 DEF Merged, BlockType
<1>3. OnHeap(blocks[i + 1])
  BY DEF OnHeap
<1>4. Whole(blocks)
  <2>1. SUFFICES ASSUME NEW m \in 1..Len(blocks), ~OnHeap(blocks[m]) PROVE blocks[m].status # "UNMAPPED"
    BY DEF Whole, OnHeap
  <2>2. m # i /\ m # i + 1
    BY <2>1, <1>3
  <2>3. PICK j \in 1..Len(l2) : j # i /\ After(i + 1, j) = m
    <3>1. CASE m < i + 1
      <4>1. m \in 1..Len(l2) /\ m # i /\ After(i + 1, m) = m
        BY <3>1, <2>2, <1>1 DEF After
      <4> QED  BY <4>1
    <3>2. CASE m > i + 1
      <4>1. m - 1 \in 1..Len(l2) /\ m - 1 # i /\ After(i + 1, m - 1) = m
        BY <3>2, <2>2, <1>1 DEF After
      <4> QED  BY <4>1
    <3> QED  BY <3>1, <3>2, <2>2, <1>1
  <2> QED  BY <2>3 DEF Whole, Like
<1>5. PrevsLead(blocks) /\ TailLeads(blocks, tail)
  BY <1>4 DEF LinkInv
<1> QED  BY <1>1, <1>2, <1>3, <1>5, LinksMerged

LEMMA MergeNextLinks == ASSUME OsMemInv, LinkInv, MergeNext PROVE LinkInv'
<1> DEFINE i == cur
<1>1. /\ i \in 1..(Len(blocks) - 1) /\ blocks[i].status = "FREE" /\ blocks[i + 1].status = "FREE"
      /\ blocks' = RemoveAt([blocks EXCEPT ![i] = Merged(i)], i + 1) /\ tail' = tail
      /\ TypeOK /\ Tiled(blocks, brk)
  BY TypesAre DEF OsMemInv, TypeOK, MergeNext
<1> HIDE DEF i
<1>2. /\ blocks' \in Seq(BlockType) /\ Len(blocks') = Len(blocks) - 1 /\ blocks'[i] = Merged(i)
      /\ \A j \in 1..Len(blocks') : j # i => blocks'[j] = blocks[After(i + 1, j)]
  BY <1>1, MergedList
<1>3. OnHeap(blocks[i])
  BY <1>1 DEF OnHeap
<1>4. Whole(blocks') => PrevsLead(blocks') /\ TailLeads(blocks', tail)
  <2>1. ASSUME NEW j \in 1..Len(blocks'), j # i
        PROVE  /\ Like(blocks'[j], blocks[After(i + 1, j)])
               /\ blocks'[j].prev = blocks[After(i + 1, j)].prev
    BY <2>1, <1>2 DEF Like
  <2> QED  BY <2>1, <1>1, <1>2, <1>3, MergeLinks
<1> QED  BY <1>1, <1>4 DEF LinkInv

LEMMA AbsorbNextLinks == ASSUME OsMemInv, LinkInv, AbsorbNext PROVE LinkInv'
<1> DEFINE i == Current
           merged == RemoveAt([blocks EXCEPT ![i] = Merged(i)], i + 1)
<1>1. /\ pc = "resize" /\ blocks[i].status = "ALLOC" /\ blocks[i].addr # tail
      /\ blocks' = IF blocks[i + 1].status # "FREE" THEN blocks
                   ELSE IF i = Len(merged) THEN merged
                   ELSE [merged EXCEPT ![i + 1].prev = blocks[i].addr]
      /\ tail' = tail
  BY DEF AbsorbNext, IsTail
<1>2. TypeOK /\ Tiled(blocks, brk) /\ call # NoCall /\ live[call.handle] # NoMemory
  BY <1>1, ResizeIs
<1>3. /\ i \in 1..Len(blocks) /\ blocks \in Seq(BlockType) /\ Len(blocks) \in Nat
      /\ blocks[i].addr \in Nat
  BY <1>2, CurrentIs, TypesAre
<1> HIDE DEF i
<1>4. i \in 1..(Len(blocks) - 1) /\ i \in Nat
  <2>1. blocks # <<>>
    BY <1>3
  <2>2. tail = blocks[Len(blocks)].addr
    BY <2>1, <1>1 DEF OsMemInv, ListInv, TailIsLast, Last
  <2> QED  BY <2>2, <1>1, <1>3
<1>5. CASE blocks[i + 1].status # "FREE"
  BY <1>1, <1>5 DEF LinkInv
<1>6. CASE blocks[i + 1].status = "FREE"
  <2>1. /\ merged \in Seq(BlockType) /\ Len(merged) = Len(blocks) - 1 /\ merged[i] = Merged(i)
        /\ \A j \in 1..Len(merged) : j # i => merged[j] = blocks[After(i + 1, j)]
    <3>1. merged = RemoveAt([blocks EXCEPT ![i] = Merged(i)], i + 1)
      OBVIOUS
    <3>2. TypeOK /\ i \in 1..(Len(blocks) - 1)
      BY <1>2, <1>4
    <3> HIDE DEF merged
    <3> QED  BY <3>1, <3>2, MergedList
  <2>2. blocks' = IF i = Len(merged) THEN merged ELSE [merged EXCEPT ![i + 1].prev = blocks[i].addr]
    BY <1>1, <1>6
  <2> HIDE DEF merged
  <2>3. /\ blocks' \in Seq(BlockType) /\ Len(blocks') = Len(merged) /\ blocks'[i] = merged[i]
        /\ \A j \in 1..Len(merged) : /\ Like(blocks'[j], merged[j])
                                     /\ \/ blocks'[j].prev = merged[j].prev
                                        \/ j = i + 1 /\ blocks'[j].prev = blocks[i].addr
    <3>1. CASE i = Len(merged)
      BY <3>1, <2>1, <2>2 DEF Like
    <3>2. CASE i # Len(merged)
      <4> DEFINE b == [merged[i + 1] EXCEPT !.prev = blocks[i].addr]
                 l2 == [merged EXCEPT ![i + 1] = b]
      <4>1. i + 1 \in 1..Len(merged) /\ i \in 1..Len(merged) /\ i # i + 1 /\ merged[i + 1] \in BlockType
        BY <3>2, <2>1, <1>4, <1>3
      <4>2. b \in BlockType /\ Like(b, merged[i + 1]) /\ b.prev = blocks[i].addr
        BY <4>1, <1>3 DEF BlockType, Like
      <4>3. blocks' = l2
        BY <3>2, <4>1, <2>1, <2>2
      <4> HIDE DEF b
      <4>4. /\ l2 \in Seq(BlockType) /\ Len(l2) = Len(merged) /\ l2[i + 1] = b
            /\ \A j \in 1..Len(merged) : j # i + 1 => l2[j] = merged[j]
        BY ONLY <4>1, <4>2, <2>1, ReplaceIs
      <4> HIDE DEF l2
      <4> QED  BY <4>1, <4>2, <4>3, <4>4 DEF Like
    <3> QED  BY <3>1, <3>2
  <2>4. ASSUME NEW j \in 1..Len(blocks'), j # i
        PROVE  /\ Like(blocks'[j], blocks[After(i + 1, j)])
               /\ \/ blocks'[j].prev = blocks[After(i + 1, j)].prev
                  \/ j = i + 1 /\ blocks'[j].prev = blocks[i].addr
    <3>1. j \in 1..Len(merged) /\ merged[j] = blocks[After(i + 1, j)]
      BY <2>4, <2>1, <2>3
    <3> QED  BY ONLY <3>1, <2>3
  <2>5. OnHeap(blocks[i])
    BY <1>1 DEF OnHeap
  <2>6. Whole(blocks') => PrevsLead(blocks') /\ TailLeads(blocks', tail)
    BY <2>1, <2>3, <2>4, <2>5, <1>2, <1>4, <1>6, MergeLinks
  <2> QED  BY <2>6, <1>1 DEF LinkInv
<1> QED  BY <1>5, <1>6

LEMMA FreeLinks ==
  ASSUME TypeOK, Tiled(blocks, brk), Away(blocks), LinkInv, NEW i \in 1..Len(blocks),
         Used(blocks[i]), os_free(i)
  PROVE  LinkInv'
<1> SUFFICES ASSUME Whole(blocks') PROVE PrevsLead(blocks') /\ TailLeads(blocks', tail')
  BY DEF LinkInv
<1>1. /\ blocks \in Seq(BlockType) /\ Len(blocks) \in Nat /\ tail \in Int /\ brk \in Nat /\ brk \in 0..MaxBrk
      /\ \A j \in 1..Len(blocks) : blocks[j] \in BlockType
      /\ i \in Nat /\ 1 <= i /\ i <= Len(blocks)
  BY LinkTypes, TypesAre
<1>2. CASE blocks[i].status # "MAPPED"
  <2> DEFINE b == [blocks[i] EXCEPT !.status = "FREE"]
             l2 == [blocks EXCEPT ![i] = b]
  <2>1. /\ b \in BlockType /\ b.addr = blocks[i].addr /\ b.size = blocks[i].size /\ b.status = "FREE"
        /\ b.prev = blocks[i].prev
    BY <1>1 DEF BlockType, Statuses
  <2>2. blocks' = l2 /\ tail' = tail /\ blocks[i].status = "ALLOC"
    BY <1>1, <1>2 DEF os_free, Used
  <2> HIDE DEF b
  <2>3. /\ l2 \in Seq(BlockType) /\ Len(l2) = Len(blocks) /\ l2[i] = b
        /\ \A j \in 1..Len(blocks) : j # i => l2[j] = blocks[j]
    BY ONLY <1>1, <2>1, i \in 1..Len(blocks), ReplaceIs
  <2> HIDE DEF l2
  <2>4. Whole(blocks)
    BY <2>2, <2>3 DEF Whole
  <2>5. \A j \in 1..Len(blocks) : blocks[j].size \in Nat
    BY <1>1, BlockIs
  <2>6. ASSUME NEW j \in 1..Len(blocks)
        PROVE  /\ l2[j].addr = blocks[j].addr /\ blocks[j].size <= l2[j].size
               /\ l2[j].status = "MAPPED" => blocks[j].status = "MAPPED"
               /\ l2[j].prev = blocks[j].prev
    <3>1. CASE j = i
      BY <3>1, <2>1, <2>3, <2>5
    <3>2. CASE j # i
      BY <3>2, <2>3, <2>5
    <3> QED  BY <3>1, <3>2
  <2>7. PrevsLead(blocks) /\ TailLeads(blocks, tail)
    BY <2>4 DEF LinkInv
  <2> QED  BY <1>1, <2>2, <2>3, <2>6, <2>7, LinksKept
<1>3. CASE blocks[i].status = "MAPPED"
  <2> DEFINE gone == IF i = 1 \/ Linked(i) THEN RemoveAt(blocks, i)
                     ELSE [blocks EXCEPT ![i].status = "UNMAPPED"]
             next == IF Len(gone) = Len(blocks) THEN i + 1 ELSE i
             p == IF i = 1 THEN Null ELSE blocks[i].prev
  <2>1. /\ blocks' = IF i = Len(blocks) THEN gone ELSE [gone EXCEPT ![next].prev = p]
        /\ tail' = IF i > 1 /\ blocks[i].addr = tail THEN blocks[i].prev ELSE tail
    BY <1>3 DEF os_free, Unlinked
  <2>2. p \in Nat \cup {Null} /\ (i > 1 => p = blocks[i].prev)
    BY <1>1 DEF BlockType
  <2> HIDE DEF p
  (* A mapping unlinked through a stale prev stays in the list.            *)
  <2>3. CASE ~(i = 1 \/ Linked(i))
    <3> DEFINE b == [blocks[i] EXCEPT !.status = "UNMAPPED"]
               l2 == [blocks EXCEPT ![i] = b]
    <3>1. b \in BlockType /\ b.status = "UNMAPPED"
      BY <1>1 DEF BlockType, Statuses
    <3>2. gone = l2
      BY <2>3, <1>1
    <3> HIDE DEF b, gone
    <3>3. l2 \in Seq(BlockType) /\ Len(l2) = Len(blocks) /\ l2[i] = b
      BY ONLY <1>1, <3>1, i \in 1..Len(blocks), ReplaceIs
    <3> HIDE DEF l2
    <3>4. blocks' = IF i = Len(blocks) THEN l2 ELSE [l2 EXCEPT ![i + 1].prev = p]
      BY <2>1, <3>2, <3>3
    <3>5. Len(blocks') = Len(blocks) /\ blocks'[i] = b
      BY <3>3, <3>4, <1>1
    <3> QED  BY <3>1, <3>5 DEF Whole
  <2>4. CASE i = 1 \/ Linked(i)
    <3> DEFINE g == RemoveAt(blocks, i)
    <3>1. gone = g
      BY <2>4
    <3>2. /\ g \in Seq(BlockType) /\ Len(g) = Len(blocks) - 1
          /\ \A j \in 1..(Len(blocks) - 1) : g[j] = IF j < i THEN blocks[j] ELSE blocks[j + 1]
      BY <1>1, RemoveAtIs
    <3> HIDE DEF gone, g
    <3>3. \A j \in 1..Len(g) : g[j] = blocks[After(i, j)]
      BY <3>2 DEF After
    <3>4. next = i
      BY <3>1, <3>2, <1>1
    <3> HIDE DEF next
    <3>5. blocks' = IF i = Len(blocks) THEN g ELSE [g EXCEPT ![i].prev = p]
      BY <2>1, <3>1, <3>4
    <3>6. /\ blocks' \in Seq(BlockType) /\ Len(blocks') = Len(g)
          /\ \A j \in 1..Len(g) : /\ Like(blocks'[j], g[j])
                                  /\ blocks'[j].prev = IF j = i THEN p ELSE g[j].prev
      <4>1. CASE i = Len(blocks)
        <5>1. \A j \in 1..Len(g) : j # i
          BY <4>1, <3>2, <1>1
        <5> QED  BY <5>1, <4>1, <3>2, <3>5 DEF Like
      <4>2. CASE i # Len(blocks)
        <5> DEFINE b == [g[i] EXCEPT !.prev = p]
                   l2 == [g EXCEPT ![i] = b]
        <5>1. i \in 1..Len(g) /\ g[i] \in BlockType
          BY <4>2, <3>2, <1>1
        <5>2. b \in BlockType /\ Like(b, g[i]) /\ b.prev = p
          BY <5>1, <2>2 DEF BlockType, Like
        <5>3. blocks' = l2
          BY <4>2, <5>1, <3>5, <3>2
        <5> HIDE DEF b
        <5>4. /\ l2 \in Seq(BlockType) /\ Len(l2) = Len(g) /\ l2[i] = b
              /\ \A j \in 1..Len(g) : j # i => l2[j] = g[j]
          BY ONLY <5>1, <5>2, <3>2, ReplaceIs
        <5> HIDE DEF l2
        <5> QED  BY <5>1, <5>2, <5>3, <5>4 DEF Like
      <4> QED  BY <4>1, <4>2
    <3>7. ASSUME NEW j \in 1..Len(blocks')
          PROVE  /\ Like(blocks'[j], blocks[After(i, j)])
                 /\ j > 1 => blocks'[j].prev = IF j = i THEN blocks[i].prev ELSE blocks[After(i, j)].prev
      <4>1. j \in 1..Len(g) /\ g[j] = blocks[After(i, j)]
        BY <3>7, <3>6, <3>3
      <4> QED  BY ONLY <4>1, <3>6, <2>2
    <3>8. Whole(blocks)
      <4>1. SUFFICES ASSUME NEW m \in 1..Len(blocks), m # i PROVE blocks[m].status # "UNMAPPED"
        BY <1>3 DEF Whole
      <4>2. PICK j \in 1..Len(blocks') : After(i, j) = m
        <5>1. CASE m < i
          <6>1. m \in 1..Len(blocks') /\ After(i, m) = m
            BY <5>1, <3>2, <3>6, <1>1 DEF After
          <6> QED  BY <6>1
        <5>2. CASE m > i
          <6>1. m - 1 \in 1..Len(blocks') /\ After(i, m - 1) = m
            BY <5>2, <3>2, <3>6, <1>1 DEF After
          <6> QED  BY <6>1
        <5> QED  BY <5>1, <5>2, <4>1, <1>1
      <4> QED  BY <4>2, <3>7 DEF Whole, Like
    <3>9. PrevsLead(blocks) /\ TailLeads(blocks, tail)
      BY <3>8 DEF LinkInv
    (* list_tail is in the last block, which no mapping before it shares.  *)
    <3>10. ASSUME i # Len(blocks) PROVE blocks[i].addr # tail
      <4> DEFINE n == Len(blocks)
      <4>1. n \in 1..Len(blocks) /\ Leads(tail, blocks[n]) /\ blocks[n] \in BlockType
        BY <3>9, <1>1 DEF TailLeads
      <4>2. CASE OnHeap(blocks[n])
        <5>1. Over(blocks[n]) <= brk /\ Over(blocks[n]) \in Nat
          BY <4>1, <4>2, <1>1, HeapInOrder, BlockIs
        <5>2. blocks[i].addr \in MapAddrs
          BY <1>3 DEF Away, OnHeap
        <5>3. MaxBrk \in Nat /\ \A a \in MapAddrs : a > MaxBrk /\ a \in Nat
          BY MemAssumption
        <5>4. tail < Over(blocks[n])
          BY <4>1 DEF Leads
        <5> HIDE DEF n
        <5> QED  BY <5>1, <5>2, <5>3, <5>4, <1>1
      <4>3. CASE ~OnHeap(blocks[n])
        <5>1. blocks[n].status = "MAPPED"
          BY <4>1, <4>3, <3>8, BlockIs DEF OnHeap, Whole, Statuses
        <5>2. tail = blocks[n].addr
          BY <4>1, <5>1 DEF Leads
        <5> QED  BY <5>2, <4>1, <3>10, <1>1, AddressesDiffer
      <4> QED  BY <4>2, <4>3
    <3>11. i = 1 \/ blocks[i].prev = blocks[i - 1].addr
      BY <2>4 DEF Linked
    <3>12. /\ blocks' \in Seq(BlockType) /\ Len(blocks') = Len(blocks) - 1
           /\ tail' = IF i > 1 /\ blocks[i].addr = tail THEN blocks[i].prev ELSE tail
      BY <2>1, <3>2, <3>6
    <3>13. blocks \in Seq(BlockType)
      BY <1>1
    <3> HIDE DEF g
    <3> QED  BY ONLY <1>3, <3>7, <3>9, <3>10, <3>11, <3>12, <3>13, i \in 1..Len(blocks), LinksDeleted
  <2> QED  BY <2>3, <2>4
<1> QED  BY <1>2, <1>3

-----------------------------------------------------------------------------
(* The steps of a call.                                                    *)

LEMMA SameLinks == ASSUME LinkInv, blocks' = blocks, tail' = tail PROVE LinkInv'
  BY DEF LinkInv

LEMMA PlaceLinks == ASSUME OsMemInv, LinkInv, Place PROVE LinkInv'
<1>1. pc = "place"
  BY DEF Place, heap_preallocation, UseBest, ExtendLast, add_new_block, memory_mapping, MmapFails
<1>2. /\ Whole(blocks) /\ TypeOK /\ Wanted \in Nat /\ Wanted > 0 /\ call # NoCall
  BY <1>1, PlaceIs DEF Whole
<1>3. /\ brk \in Nat /\ tail \in Nat \cup {Null} /\ Len(blocks) \in Nat
      /\ \A i \in 1..Len(blocks) : blocks[i] \in BlockType /\ blocks[i].size \in Nat
  BY <1>2, LinkTypes, BlockIs DEF TypeOK
<1>4. ASSUME heap_preallocation PROVE LinkInv'
  <2> DEFINE b == Block(brk, MmapThreshold - Header, "FREE", tail)
  <2>1. CASE Die \/ Fault("dangling tail")
    BY <2>1, SameLinks DEF Die, Fault
  <2>2. CASE blocks' = Append(blocks, b) /\ tail' = brk
    <3>1. MmapThreshold - Header \in Nat
      BY HeaderIs, MemAssumption
    <3>2. b \in BlockType /\ b.addr = brk /\ b.prev = tail
      BY <3>1, <1>3 DEF Block, BlockType, Statuses
    <3> HIDE DEF b
    <3> QED  BY <3>2, <2>2, <1>2, AppendLinks
  <2> QED  BY <2>1, <2>2, <1>4 DEF heap_preallocation
<1>5. ASSUME UseBest PROVE LinkInv'
  <2> DEFINE i == find_best_block
  <2>1. Fits # {} /\ IF LeavesRoom(i) THEN Split(i, Wanted) ELSE Keep(i)
    BY <1>5 DEF UseBest
  <2>2. i \in 1..Len(blocks)
    BY <2>1, <1>2, BestFits
  <2> HIDE DEF i
  <2>3. CASE LeavesRoom(i)
    <3>1. Wanted + Header < blocks[i].size
      BY <2>2, <2>3, <1>2, <1>3, HeaderIs DEF LeavesRoom
    <3> QED  BY <3>1, <2>1, <2>2, <2>3, <1>2, SplitLinks
  <2>4. CASE ~LeavesRoom(i)
    BY <2>1, <2>2, <2>4, <1>2, KeepLinks
  <2> QED  BY <2>3, <2>4
<1>6. ASSUME ExtendLast PROVE LinkInv'
  <2> DEFINE i == Len(blocks)
  <2>1. ~checkPrealloc /\ Last(blocks).status = "FREE" /\ Fits = {} /\ extend_last_block(i)
    BY <1>6 DEF ExtendLast
  <2>2. i \in 1..Len(blocks) /\ Last(blocks) = blocks[i]
    BY <2>1, <1>2, NotEmpty
  <2> HIDE DEF i
  <2>3. blocks[i].size <= Wanted
    BY <2>1, <2>2, <1>2, <1>3, TypesAre DEF Fits
  <2>4. CASE Die
    BY <2>4, SameLinks DEF Die
  <2>5. CASE blocks' = [blocks EXCEPT ![i].size = Wanted, ![i].status = "ALLOC"] /\ tail' = tail
    BY <2>2, <2>3, <2>5, <1>2, GrowLinks
  <2> QED  BY <2>1, <2>4, <2>5 DEF extend_last_block
<1>7. ASSUME add_new_block PROVE LinkInv'
  <2> DEFINE b == Block(brk, Wanted, "ALLOC", tail)
  <2>1. CASE Die
    BY <2>1, SameLinks DEF Die
  <2>2. CASE blocks' = Append(blocks, b) /\ tail' = brk
    <3>1. b \in BlockType /\ b.addr = brk /\ b.prev = tail
      BY <1>2, <1>3 DEF Block, BlockType, Statuses
    <3> HIDE DEF b
    <3> QED  BY <3>1, <2>2, <1>2, AppendLinks
  <2> QED  BY <2>1, <2>2, <1>7 DEF add_new_block
<1>8. ASSUME NEW a \in MapAddrs, memory_mapping(a) PROVE LinkInv'
  <2> DEFINE b == Block(a, Wanted, "MAPPED", tail)
  <2>1. CASE Fault("overrun")
    BY <2>1, SameLinks DEF Fault
  <2>2. CASE blocks' = Append(blocks, b) /\ tail' = a
    <3>1. b \in BlockType /\ b.addr = a /\ b.prev = tail
      BY <1>2, <1>3, MemAssumption DEF Block, BlockType, Statuses
    <3> HIDE DEF b
    <3> QED  BY <3>1, <2>2, <1>2, AppendLinks
  <2> QED  BY <2>1, <2>2, <1>8 DEF memory_mapping
<1>9. ASSUME MmapFails PROVE LinkInv'
  BY <1>9, SameLinks DEF MmapFails, Die
<1> QED  BY <1>4, <1>5, <1>6, <1>7, <1>8, <1>9 DEF Place

LEMMA ResizeLinks == ASSUME OsMemInv, LinkInv, Resize, pc # "copy" PROVE LinkInv'
<1>1. pc \in {"resize", "fit"}
  BY DEF Resize, MoveMapped, GrowTail, AbsorbNext, Truncate, MoveBlock, TooSmall, ExtendLastFree,
         UseStaleHeader, CopyAndFree
<1>2. /\ Whole(blocks) /\ TypeOK /\ Wanted \in Nat /\ Wanted > 0
      /\ call # NoCall /\ live[call.handle] # NoMemory /\ call.op = "realloc"
  <2>1. NoneGone(blocks, Len(blocks) + 1) /\ TypeOK
    BY <1>1, ResizeIs
  <2>2. \A i \in 1..Len(blocks) : i < Len(blocks) + 1
    BY <2>1, LinkTypes
  <2>3. Whole(blocks)
    BY <2>1, <2>2 DEF NoneGone, Whole
  <2> QED  BY <2>3, <1>1, ResizeIs
<1>3. /\ \A i \in 1..Len(blocks) : blocks[i] \in BlockType /\ blocks[i].size \in Nat
      /\ Current \in 1..Len(blocks)
  BY <1>2, LinkTypes, BlockIs, CurrentIs
<1>4. ASSUME MoveMapped \/ MoveBlock \/ UseStaleHeader PROVE LinkInv'
  BY <1>4, SameLinks DEF MoveMapped, MoveBlock, UseStaleHeader, Move, Fault
<1>5. ASSUME GrowTail PROVE LinkInv'
  <2> DEFINE i == Current
  <2>1. blocks[i].size <= Wanted /\ extend_last_block(i) /\ i \in 1..Len(blocks)
    BY <1>2, <1>3, <1>5 DEF GrowTail
  <2> HIDE DEF i
  <2>2. CASE Die
    BY <2>2, SameLinks DEF Die
  <2>3. CASE blocks' = [blocks EXCEPT ![i].size = Wanted, ![i].status = "ALLOC"] /\ tail' = tail
    BY <2>1, <2>3, <1>2, GrowLinks
  <2> QED  BY <2>1, <2>2, <2>3 DEF extend_last_block
<1>6. ASSUME AbsorbNext PROVE LinkInv'
  BY <1>6, AbsorbNextLinks
<1>7. ASSUME Truncate PROVE LinkInv'
  <2> DEFINE i == Current
  <2>1. /\ IF blocks[i].size - Wanted >= Header + Align THEN Split(i, Wanted) ELSE Keep(i)
        /\ i \in 1..Len(blocks)
    BY <1>3, <1>7 DEF Truncate
  <2> HIDE DEF i
  <2>2. CASE blocks[i].size - Wanted >= Header + Align
    <3>1. Wanted + Header < blocks[i].size
      <4>1. Align \in Nat \ {0} /\ Header \in Nat /\ blocks[i].size \in Nat
        BY <2>1, <1>3, HeaderIs, MemAssumption
      <4> QED  BY <4>1, <2>2, <1>2
    <3> QED  BY <3>1, <2>1, <2>2, <1>2, SplitLinks
  <2>3. CASE ~(blocks[i].size - Wanted >= Header + Align)
    BY <2>1, <2>3, <1>2, KeepLinks
  <2> QED  BY <2>2, <2>3
<1>8. ASSUME ExtendLastFree PROVE LinkInv'
  <2> DEFINE i == LastBrk
  <2>1. Fits = {} /\ blocks[i].status = "FREE" /\ pc = "fit"
    BY <1>8 DEF ExtendLastFree, TooSmall
  <2>2. i \in 1..Len(blocks)
    <3>1. blocks[Current].addr = Old
      BY <1>2, CurrentIs
    <3>2. blocks[Current].status = "ALLOC"
      BY <3>1, <2>1, <1>3 DEF OsMemInv, MoveInv
    <3>3. OnHeap(blocks[Current])
      BY <3>2 DEF OnHeap
    <3> QED  BY <3>3, <1>2, <1>3, LastBrkIs
  <2>3. \/ Die
        \/ blocks' = [blocks EXCEPT ![i].size = Wanted, ![i].status = "ALLOC"] /\ tail' = tail
    BY <1>8 DEF ExtendLastFree
  <2> HIDE DEF i
  <2>4. blocks[i].size <= Wanted
    BY <2>1, <2>2, <1>2, <1>3, TypesAre, SMTT(30) DEF Fits
  <2>5. CASE Die
    BY <2>5, SameLinks DEF Die
  <2>6. CASE blocks' = [blocks EXCEPT ![i].size = Wanted, ![i].status = "ALLOC"] /\ tail' = tail
    BY <2>2, <2>4, <2>6, <1>2, GrowLinks
  <2> QED  BY <2>3, <2>5, <2>6
<1>9. ~CopyAndFree
  BY DEF CopyAndFree
<1> QED  BY <1>4, <1>5, <1>6, <1>7, <1>8, <1>9 DEF Resize

LEMMA StepLinks == ASSUME OsMemInv, LinkInv, [Next]_vars PROVE LinkInv'
<1>1. TypeOK /\ Tiled(blocks, brk) /\ Away(blocks)
  BY DEF OsMemInv
<1>2. ASSUME NEW h \in Handles, Start(h) PROVE LinkInv'
  <2>1. ASSUME NEW op, NEW n, Call(op, h, n) PROVE LinkInv'
    BY <2>1, SameLinks DEF Call
  <2>2. ASSUME Free(h) PROVE LinkInv'
    <3> DEFINE i == IndexOf(live[h].ptr - Header)
    <3>1. i \in 1..Len(blocks) /\ Used(blocks[i])
      BY <2>2, BlockOf DEF Free
    <3>2. Fault("unmapped block") \/ os_free(i)
      BY <2>2 DEF Free
    <3> HIDE DEF i
    <3>3. CASE Fault("unmapped block")
      BY <3>3, SameLinks DEF Fault
    <3>4. CASE os_free(i)
      BY <3>1, <3>4, <1>1, FreeLinks
    <3> QED  BY <3>2, <3>3, <3>4
  <2> QED  BY <2>1, <2>2, <1>2 DEF Start
<1>3. ASSUME Loop PROVE LinkInv'
  <2>1. ASSUME Advance PROVE LinkInv'
    <3>1. blocks' = blocks /\ tail' = IF cur = Len(blocks) THEN blocks[cur].addr ELSE tail
      BY <2>1 DEF Advance
    <3>2. CASE cur = Len(blocks)
      <4>1. SUFFICES ASSUME Whole(blocks) PROVE PrevsLead(blocks) /\ TailLeads(blocks, blocks[Len(blocks)].addr)
        BY <3>1, <3>2 DEF LinkInv
      <4>2. TailLeads(blocks, blocks[Len(blocks)].addr)
        <5>1. Len(blocks) > 0 => blocks[Len(blocks)] \in BlockType
          BY <1>1, LinkTypes
        <5> QED  BY <5>1, LeadsToStart DEF TailLeads
      <4> QED  BY <4>1, <4>2 DEF LinkInv
    <3>3. CASE cur # Len(blocks)
      BY <3>1, <3>3, SameLinks
    <3> QED  BY <3>2, <3>3
  <2>2. ASSUME ReadUnmapped \/ Coalesced PROVE LinkInv'
    BY <2>2, SameLinks DEF ReadUnmapped, Coalesced, Fault
  <2> QED  BY <2>1, <2>2, <1>3, MergeNextLinks DEF Loop
<1>4. ASSUME CopyAndFree PROVE LinkInv'
  <2>1. call # NoCall /\ live[call.handle] # NoMemory /\ os_free(Current)
    BY <1>4 DEF CopyAndFree, OsMemInv, CallInv
  <2>2. Current \in 1..Len(blocks) /\ Used(blocks[Current])
    BY <2>1, CurrentIs
  <2> QED  BY <2>1, <2>2, <1>1, FreeLinks
<1>5. ASSUME Resize PROVE LinkInv'
  <2>1. CASE pc = "copy"
    <3>1. CopyAndFree
      BY <2>1, <1>5 DEF Resize, MoveMapped, GrowTail, AbsorbNext, Truncate, MoveBlock, TooSmall,
                        ExtendLastFree, UseStaleHeader
    <3> QED  BY <3>1, <1>4
  <2>2. CASE pc # "copy"
    BY <2>2, <1>5, ResizeLinks
  <2> QED  BY <2>1, <2>2
<1>6. CASE UNCHANGED vars
  BY <1>6, SameLinks DEF vars
<1> QED  BY <1>2, <1>3, <1>5, <1>6, PlaceLinks DEF Next

(***************************************************************************)
(* However the program calls the allocator, a prev pointer is never off by *)
(* more than the blocks its own predecessor has swallowed: following it    *)
(* leads into the block before, until a mapping has been unlinked through  *)
(* one that was already stale.                                             *)
(***************************************************************************)
THEOREM StalePointersStayNear == Spec => []PrevLeadsIntoPredecessor
<1>1. Init => LinkInv
  BY DEF Init, LinkInv, PrevsLead, TailLeads
<1>2. OsMemInv /\ LinkInv /\ [Next]_vars => LinkInv'
  BY StepLinks
<1>3. OsMemInv /\ LinkInv => PrevLeadsIntoPredecessor
  <2>1. SUFFICES ASSUME TypeOK, LinkInv, Whole(blocks), NEW i \in 2..Len(blocks)
                 PROVE  blocks[i].prev \in blocks[i - 1].addr .. End(i - 1) - 1
    BY TypesAre DEF PrevLeadsIntoPredecessor, OsMemInv, Whole
  <2>2. i \in 1..Len(blocks) /\ i - 1 \in 1..Len(blocks)
    BY <2>1, LinkTypes
  <2>3. Leads(blocks[i].prev, blocks[i - 1])
    BY <2>1 DEF LinkInv, PrevsLead
  <2>4. blocks[i].prev \in Int /\ blocks[i - 1].addr \in Nat /\ Over(blocks[i - 1]) \in Nat
    BY <2>1, <2>2, LinkTypes, BlockIs, PrevIs
  <2>5. End(i - 1) = Over(blocks[i - 1])
    BY DEF End, Over
  <2> QED  BY <2>3, <2>4, <2>5 DEF Leads
<1> QED  BY <1>1, <1>2, <1>3, AllocatorInvariant, PTL DEF Spec
=============================================================================
