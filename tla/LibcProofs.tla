----------------------------- MODULE LibcProofs ----------------------------
(***************************************************************************)
(* mini-libc's heap stays consistent with what the program holds and the   *)
(* kernel has mapped, for all addresses, sizes and numbers of refusals.    *)
(* TypeOK and HeapAgrees are inductive together.  The lemmas follow one    *)
(* change of the list each; they are about any list l, blocks h, mapped    *)
(* addresses m and number r of refusals.                                   *)
(*                                                                         *)
(* Behind them come puts and the system calls, then the string routines.   *)
(* Each of their loops is shown to compute a closed form: a function that  *)
(* satisfies its recursion exists, and any such function is that form, as  *)
(* the first index at which it were not would have no neighbour at which   *)
(* it is.  The closed forms are then compared with what the routines are   *)
(* for, over any block of memory with strings in it.                       *)
(***************************************************************************)
EXTENDS Libc, SequenceTheorems, SetLemmas, TLAPS

Uses(h) == {b \in h : b.start > 0}
Covered(h) == UNION {Cells(b) : b \in Uses(h)}
Single(l, i) == \A j \in 1..Len(l) : l[j].start = l[i].start => j = i
Real(l, h, i) ==
  l[i].start \in Addresses /\ l[i].len > 0 /\ l[i] \in h /\ Single(l, i)
Listed(l, h, r) ==
  /\ \A b \in h : \E i \in 1..Len(l) : b = l[i]
  /\ \A i \in 1..Len(l) : Real(l, h, i) \/ (l[i].start < 0 /\ r > 0)
Kept(h, m, r) ==
  /\ Covered(h) \subseteq m
  /\ \A b, c \in Uses(h) : b = c \/ Cells(b) \cap Cells(c) = {}
  /\ r = 0 => m = Covered(h)
Agree(l, h, m, r) == Listed(l, h, r) /\ Kept(h, m, r)

(* The invariant's heap is a heap of the lemmas.                           *)
LEMMA HeapAgreesIsAgree == TypeOK => (HeapAgrees <=> Agree(list, held, mapped, refused))
<1> SUFFICES ASSUME TypeOK PROVE HeapAgrees <=> Agree(list, held, mapped, refused)
  OBVIOUS
<1>1. ASSUME NEW i \in 1..Len(list) PROVE (Nodes(list[i].start) = {i}) <=> Single(list, i)
  BY DEF Nodes, Single
<1>2. HeldIsListed <=> Listed(list, held, refused)
  BY <1>1 DEF HeldIsListed, Listed, Real
<1>3. HeldIsMapped <=> Kept(held, mapped, refused)
  BY DEF HeldIsMapped, Kept, InBlock, Usable, Uses, Covered
<1> QED  BY <1>2, <1>3 DEF HeapAgrees, Agree

----------------------------------------------------------------------------
(* A block that is used starts at an address of its own cells.             *)
LEMMA StartIsCovered ==
  ASSUME NEW l, NEW h, NEW i, Real(l, h, i), l[i] \in Blocks
  PROVE  l[i].start \in Covered(h) /\ l[i].start \in Cells(l[i]) /\ l[i] \in Uses(h)
<1>1. l[i].start \in Nat \ {0} /\ l[i].len \in Nat \ {0}
  BY MemoryAssumption DEF Real, Blocks
<1>2. l[i].start \in Cells(l[i])
  BY <1>1 DEF Cells
<1>3. l[i] \in Uses(h)
  BY <1>1 DEF Uses, Real
<1> QED  BY <1>2, <1>3 DEF Covered

(* A block with room for it is apart from what is mapped.                  *)
LEMMA RoomIsApart ==
  ASSUME NEW m, NEW len \in Nat \ {0}, NEW b \in Room(len, m)
  PROVE  /\ b \in Blocks /\ b.start \in Addresses /\ b.len = len
         /\ b.start \in Cells(b) /\ Cells(b) \cap m = {} /\ Cells(b) \subseteq Addresses
<1>1. PICK a \in Addresses : b = Block(a, len) /\ Cells(b) \subseteq Addresses \ m
  BY DEF Room
<1>2. a \in Nat
  BY MemoryAssumption
<1>3. b.start = a /\ b.len = len /\ b \in Blocks
  BY <1>1, <1>2 DEF Block, Blocks
<1>4. b.start \in Cells(b)
  BY <1>2, <1>3 DEF Cells
<1> QED  BY <1>1, <1>3, <1>4

LEMMA NothingAgrees == ASSUME NEW r PROVE Agree(<<>>, {}, {}, r)
  BY DEF Agree, Listed, Kept, Uses, Covered

LEMMA RefusedAgrees ==
  ASSUME NEW l, NEW h, NEW m, NEW r \in Nat, Agree(l, h, m, r)
  PROVE  Agree(l, h, m, r + 1)
  BY DEF Agree, Listed, Kept

(* HeapAgrees after a step, in the terms of the lemmas.                    *)
LEMMA HeapAgreesIsAgreeNext ==
  TypeOK' => (HeapAgrees' <=> Agree(list', held', mapped', refused'))
<1> SUFFICES ASSUME TypeOK' PROVE HeapAgrees' <=> Agree(list', held', mapped', refused')
  OBVIOUS
<1>1. ASSUME NEW i \in 1..Len(list') PROVE (Nodes(list[i].start)' = {i}) <=> Single(list', i)
  BY DEF Nodes, Single
<1>2. HeldIsListed' <=> Listed(list', held', refused')
  BY <1>1 DEF HeldIsListed, Listed, Real, Nodes, Single
<1>3. HeldIsMapped' <=> Kept(held', mapped', refused')
  BY DEF HeldIsMapped, Kept, InBlock, Usable, Uses, Covered
<1> QED  BY <1>2, <1>3 DEF HeapAgrees, Agree

----------------------------------------------------------------------------
(* mem_list_add for a new mapping.                                         *)
LEMMA AddedAgrees ==
  ASSUME NEW l \in Seq(Blocks), NEW h \in SUBSET Blocks, NEW m, NEW r \in Nat, Agree(l, h, m, r),
         NEW len \in Nat \ {0}, NEW b \in Room(len, m)
  PROVE  Agree(Append(l, b), h \cup {b}, m \cup Cells(b), r)
<1> DEFINE l2 == Append(l, b)
           h2 == h \cup {b}
<1>1. /\ b \in Blocks /\ b.start \in Addresses /\ b.len = len
      /\ b.start \in Cells(b) /\ Cells(b) \cap m = {}
  BY RoomIsApart
<1>2. b.start \in Nat \ {0}
  BY <1>1, MemoryAssumption
<1>3. Len(l) \in Nat /\ Len(l2) = Len(l) + 1 /\ l2[Len(l) + 1] = b
  BY <1>1
<1>4. ASSUME NEW i \in 1..Len(l) PROVE l2[i] = l[i] /\ l[i] \in Blocks
  BY <1>1
<1>5. Covered(h) \subseteq m /\ Listed(l, h, r)
  BY DEF Agree, Kept
<1>6. ASSUME NEW i \in 1..Len(l) PROVE l[i].start # b.start
  <2>1. CASE Real(l, h, i)
    <3>1. l[i].start \in Covered(h)
      BY <2>1, <1>4, StartIsCovered
    <3> QED  BY <3>1, <1>5, <1>1
  <2>2. CASE l[i].start < 0
    BY <2>2, <1>2, <1>4
  <2> QED  BY <2>1, <2>2, <1>5 DEF Listed
<1> HIDE DEF l2, h2
<1>7. Listed(l2, h2, r)
  <2>1. ASSUME NEW c \in h2 PROVE \E i \in 1..Len(l2) : c = l2[i]
    <3>1. CASE c = b
      BY <3>1, <1>3
    <3>2. CASE c \in h
      <4>1. PICK i \in 1..Len(l) : c = l[i]
        BY <3>2, <1>5 DEF Listed
      <4> QED  BY <4>1, <1>3, <1>4
    <3> QED  BY <3>1, <3>2 DEF h2
  <2>2. ASSUME NEW i \in 1..Len(l2) PROVE Real(l2, h2, i) \/ (l2[i].start < 0 /\ r > 0)
    <3>1. CASE i = Len(l) + 1
      <4>1. ASSUME NEW j \in 1..Len(l2), l2[j].start = l2[i].start PROVE j = i
        BY <4>1, <3>1, <1>3, <1>4, <1>6
      <4> QED  BY <4>1, <3>1, <1>1, <1>3 DEF Real, Single, h2
    <3>2. CASE i \in 1..Len(l)
      <4>1. ASSUME NEW j \in 1..Len(l2), Real(l, h, i), l2[j].start = l2[i].start PROVE j = i
        BY <4>1, <3>2, <1>3, <1>4, <1>6 DEF Real, Single
      <4> QED  BY <4>1, <3>2, <1>4, <1>5 DEF Real, Single, Listed, h2
    <3> QED  BY <3>1, <3>2, <1>3
  <2> QED  BY <2>1, <2>2 DEF Listed
<1>8. Uses(h2) = Uses(h) \cup {b}
  BY <1>2 DEF Uses, h2
<1>9. Covered(h2) = Covered(h) \cup Cells(b)
  BY <1>8 DEF Covered
<1>10. ASSUME NEW c \in Uses(h) PROVE Cells(c) \subseteq m
  BY <1>5 DEF Covered
<1>11. Kept(h2, m \cup Cells(b), r)
  BY <1>1, <1>8, <1>9, <1>10 DEF Kept, Agree
<1> QED  BY <1>7, <1>11 DEF Agree, l2, h2

(* mem_list_add at an error number.                                        *)
LEMMA AddedRefusedAgrees ==
  ASSUME NEW l \in Seq(Blocks), NEW h \in SUBSET Blocks, NEW m, NEW r \in Nat, Agree(l, h, m, r),
         NEW b \in Blocks, b.start < 0
  PROVE  Agree(Append(l, b), h \cup {b}, m, r + 1)
<1> DEFINE l2 == Append(l, b)
           h2 == h \cup {b}
<1>1. b.start \in Int
  BY DEF Blocks
<1>3. Len(l) \in Nat /\ Len(l2) = Len(l) + 1 /\ l2[Len(l) + 1] = b
  OBVIOUS
<1>4. ASSUME NEW i \in 1..Len(l) PROVE l2[i] = l[i] /\ l[i] \in Blocks
  OBVIOUS
<1>5. Listed(l, h, r)
  BY DEF Agree
<1> HIDE DEF l2, h2
<1>7. Listed(l2, h2, r + 1)
  <2>1. ASSUME NEW c \in h2 PROVE \E i \in 1..Len(l2) : c = l2[i]
    <3>1. CASE c = b
      BY <3>1, <1>3
    <3>2. CASE c \in h
      <4>1. PICK i \in 1..Len(l) : c = l[i]
        BY <3>2, <1>5 DEF Listed
      <4> QED  BY <4>1, <1>3, <1>4
    <3> QED  BY <3>1, <3>2 DEF h2
  <2>2. ASSUME NEW i \in 1..Len(l2) PROVE Real(l2, h2, i) \/ (l2[i].start < 0 /\ r + 1 > 0)
    <3>1. CASE i = Len(l) + 1
      BY <3>1, <1>3
    <3>2. CASE i \in 1..Len(l)
      <4>1. ASSUME NEW j \in 1..Len(l2), Real(l, h, i), l2[j].start = l2[i].start PROVE j = i
        <5>1. l[i].start \in Nat
          BY <4>1, MemoryAssumption DEF Real
        <5>2. j \in 1..Len(l)
          BY <5>1, <4>1, <3>2, <1>1, <1>3, <1>4
        <5> QED  BY <5>2, <4>1, <3>2, <1>4 DEF Real, Single
      <4> QED  BY <4>1, <3>2, <1>4, <1>5 DEF Real, Single, Listed, h2
    <3> QED  BY <3>1, <3>2, <1>3
  <2> QED  BY <2>1, <2>2 DEF Listed
<1>8. Uses(h2) = Uses(h)
  BY <1>1 DEF Uses, h2
<1>11. Kept(h2, m, r + 1)
  BY <1>8 DEF Kept, Agree, Covered
<1> QED  BY <1>7, <1>11 DEF Agree, l2, h2

----------------------------------------------------------------------------
(* mem_list_del: the list without the node i.                              *)
Del(l, i) == [j \in 1..(Len(l) - 1) |-> IF j < i THEN l[j] ELSE l[j + 1]]

LEMMA DeletedIsList ==
  ASSUME NEW l \in Seq(Blocks), NEW i \in 1..Len(l)
  PROVE  /\ Del(l, i) \in Seq(Blocks) /\ Len(Del(l, i)) = Len(l) - 1
         /\ \A j \in 1..(Len(l) - 1) : Del(l, i)[j] = IF j < i THEN l[j] ELSE l[j + 1]
<1>1. Len(l) \in Nat /\ Len(l) - 1 \in Nat /\ \A j \in 1..Len(l) : l[j] \in Blocks
  OBVIOUS
<1>2. ASSUME NEW j \in 1..(Len(l) - 1)
      PROVE  (IF j < i THEN l[j] ELSE l[j + 1]) \in Blocks
  BY <1>1
<1>3. Del(l, i) \in [1..(Len(l) - 1) -> Blocks]
  BY <1>2 DEF Del
<1>4. Del(l, i) \in Seq(Blocks) /\ DOMAIN Del(l, i) = 1..(Len(l) - 1)
  BY <1>1, <1>3, SeqDef
<1>5. Len(Del(l, i)) = Len(l) - 1
  BY <1>1, <1>4, LenProperties
<1> QED  BY <1>4, <1>5 DEF Del

(* Where the nodes of the shorter list are in the longer one, and back.    *)
LEMMA DeletedNodes ==
  ASSUME NEW l \in Seq(Blocks), NEW i \in 1..Len(l)
  PROVE  /\ \A j \in 1..Len(Del(l, i)) : \E k \in 1..Len(l) :
              k # i /\ Del(l, i)[j] = l[k] /\ k = IF j < i THEN j ELSE j + 1
         /\ \A k \in 1..Len(l) : k # i => \E j \in 1..Len(Del(l, i)) :
              Del(l, i)[j] = l[k] /\ k = IF j < i THEN j ELSE j + 1
<1>1. Len(l) \in Nat /\ Len(Del(l, i)) = Len(l) - 1
  BY DeletedIsList
<1>2. ASSUME NEW j \in 1..(Len(l) - 1) PROVE Del(l, i)[j] = IF j < i THEN l[j] ELSE l[j + 1]
  BY DeletedIsList
<1>3. ASSUME NEW j \in 1..Len(Del(l, i))
      PROVE  \E k \in 1..Len(l) : k # i /\ Del(l, i)[j] = l[k] /\ k = IF j < i THEN j ELSE j + 1
  BY <1>1, <1>2
<1>4. ASSUME NEW k \in 1..Len(l), k # i
      PROVE  \E j \in 1..Len(Del(l, i)) : Del(l, i)[j] = l[k] /\ k = IF j < i THEN j ELSE j + 1
  <2>1. CASE k < i
    <3>1. k \in 1..(Len(l) - 1) /\ Del(l, i)[k] = l[k]
      BY <2>1, <1>1, <1>2
    <3> QED  BY <3>1, <2>1, <1>1
  <2>2. CASE k > i
    <3>1. k - 1 \in 1..(Len(l) - 1) /\ ~(k - 1 < i) /\ (k - 1) + 1 = k
      BY <2>2, <1>1
    <3>2. Del(l, i)[k - 1] = l[k]
      BY <3>1, <1>2
    <3> QED  BY <3>1, <3>2, <1>1
  <2> QED  BY <2>1, <2>2, <1>4
<1> QED  BY <1>3, <1>4

(* A block of the program that starts where a real node does is that node. *)
LEMMA RealIsHeldOnce ==
  ASSUME NEW l \in Seq(Blocks), NEW h \in SUBSET Blocks, NEW r, Listed(l, h, r),
         NEW i \in 1..Len(l), Real(l, h, i), NEW b \in h, b.start = l[i].start
  PROVE  b = l[i]
<1>1. PICK j \in 1..Len(l) : b = l[j]
  BY DEF Listed
<1> QED  BY <1>1 DEF Real, Single

(* A node at an address is real.                                           *)
LEMMA AtAddressIsReal ==
  ASSUME NEW l \in Seq(Blocks), NEW h, NEW r, Listed(l, h, r),
         NEW i \in 1..Len(l), l[i].start \in Addresses
  PROVE  Real(l, h, i)
<1>1. l[i].start \in Nat
  BY MemoryAssumption
<1> QED  BY <1>1 DEF Listed

(* free, as far as the list and the program go: the node i is the only one *)
(* with its start, or its start is an error number.                        *)
LEMMA DeletedIsListed ==
  ASSUME NEW l \in Seq(Blocks), NEW h \in SUBSET Blocks, NEW r \in Nat, Listed(l, h, r),
         NEW i \in 1..Len(l)
  PROVE  Listed(Del(l, i), {b \in h : b.start # l[i].start}, r)
<1> DEFINE l2 == Del(l, i)
           h2 == {b \in h : b.start # l[i].start}
<1>1. ASSUME NEW j \in 1..Len(l2)
      PROVE  \E k \in 1..Len(l) : k # i /\ l2[j] = l[k] /\ k = IF j < i THEN j ELSE j + 1
  BY DeletedNodes
<1>2. ASSUME NEW k \in 1..Len(l), k # i
      PROVE  \E j \in 1..Len(l2) : l2[j] = l[k] /\ k = IF j < i THEN j ELSE j + 1
  <2>1. \A q \in 1..Len(l) : q # i => \E j \in 1..Len(l2) : l2[j] = l[q] /\ q = IF j < i THEN j ELSE j + 1
    BY DeletedNodes
  <2> QED  BY <2>1, <1>2
<1>3. ASSUME NEW b \in h2 PROVE b \in h /\ b.start # l[i].start
  OBVIOUS
<1>4. ASSUME NEW b \in h, b.start # l[i].start PROVE b \in h2
  BY <1>4
<1> HIDE DEF l2, h2
<1>5. ASSUME NEW b \in h2 PROVE \E j \in 1..Len(l2) : b = l2[j]
  <2>1. PICK k \in 1..Len(l) : b = l[k]
    BY <1>3 DEF Listed
  <2>2. k # i
    BY <2>1, <1>3
  <2> QED  BY <2>1, <2>2, <1>2
<1>6. ASSUME NEW j \in 1..Len(l2) PROVE Real(l2, h2, j) \/ (l2[j].start < 0 /\ r > 0)
  <2>1. PICK k \in 1..Len(l) : k # i /\ l2[j] = l[k] /\ k = IF j < i THEN j ELSE j + 1
    BY <1>1
  <2>2. CASE Real(l, h, k)
    <3>1. l[i].start # l[k].start
      BY <2>1, <2>2 DEF Real, Single
    <3>2. l2[j] \in h2
      BY <3>1, <2>1, <2>2, <1>4 DEF Real
    <3>3. ASSUME NEW q \in 1..Len(l2), l2[q].start = l2[j].start PROVE q = j
      <4>1. PICK k2 \in 1..Len(l) : k2 # i /\ l2[q] = l[k2] /\ k2 = IF q < i THEN q ELSE q + 1
        BY <1>1
      <4>2. k2 = k
        BY <4>1, <3>3, <2>1, <2>2 DEF Real, Single
      <4> QED  BY <4>1, <4>2, <2>1
    <3> QED  BY <3>2, <3>3, <2>1, <2>2 DEF Real, Single
  <2>3. CASE l[k].start < 0 /\ r > 0
    BY <2>1, <2>3
  <2> QED  BY <2>2, <2>3 DEF Listed
<1> QED  BY <1>5, <1>6 DEF Listed, l2, h2

(* The blocks that stay when the block at p goes.                          *)
LEMMA RestIsKept ==
  ASSUME NEW l \in Seq(Blocks), NEW h \in SUBSET Blocks, NEW m, NEW r \in Nat, Agree(l, h, m, r),
         NEW i \in 1..Len(l), l[i].start \in Addresses
  PROVE  /\ Covered({b \in h : b.start # l[i].start}) = Covered(h) \ Cells(l[i])
         /\ Uses({b \in h : b.start # l[i].start}) \subseteq Uses(h)
         /\ Cells(l[i]) \subseteq Covered(h)
<1> DEFINE h2 == {b \in h : b.start # l[i].start}
<1>1. Real(l, h, i)
  BY AtAddressIsReal DEF Agree
<1>2. l[i] \in Uses(h) /\ l[i] \in Blocks
  BY <1>1, StartIsCovered
<1>3. ASSUME NEW b \in Uses(h), b # l[i] PROVE b \in Uses(h2)
  BY <1>3, <1>1, RealIsHeldOnce DEF Uses, Agree
<1>4. ASSUME NEW b \in Uses(h2) PROVE b \in Uses(h) /\ b # l[i]
  BY DEF Uses
<1> HIDE DEF h2
<1>5. ASSUME NEW b \in Uses(h2) PROVE Cells(b) \cap Cells(l[i]) = {}
  BY <1>4, <1>2 DEF Agree, Kept
<1>6. Covered(h2) = Covered(h) \ Cells(l[i])
  <2>1. ASSUME NEW a \in Covered(h2) PROVE a \in Covered(h) \ Cells(l[i])
    BY <1>4, <1>5 DEF Covered
  <2>2. ASSUME NEW a \in Covered(h) \ Cells(l[i]) PROVE a \in Covered(h2)
    <3>1. PICK b \in Uses(h) : a \in Cells(b)
      BY DEF Covered
    <3>2. b # l[i]
      BY <3>1
    <3> QED  BY <3>1, <3>2, <1>3 DEF Covered
  <2> QED  BY <2>1, <2>2
<1> QED  BY <1>2, <1>4, <1>6 DEF Covered, h2

(* free, at an address and at an error number.                             *)
LEMMA FreedAgrees ==
  ASSUME NEW l \in Seq(Blocks), NEW h \in SUBSET Blocks, NEW m, NEW r \in Nat, Agree(l, h, m, r),
         NEW i \in 1..Len(l), l[i].start \in Addresses
  PROVE  Agree(Del(l, i), {b \in h : b.start # l[i].start}, m \ Cells(l[i]), r)
<1> DEFINE h2 == {b \in h : b.start # l[i].start}
<1>1. Listed(Del(l, i), h2, r)
  BY DeletedIsListed DEF Agree
<1>2. Covered(h2) = Covered(h) \ Cells(l[i]) /\ Uses(h2) \subseteq Uses(h)
  BY RestIsKept
<1> HIDE DEF h2
<1>3. Kept(h2, m \ Cells(l[i]), r)
  BY <1>2 DEF Kept, Agree
<1> QED  BY <1>1, <1>3 DEF Agree, h2

LEMMA DroppedAgrees ==
  ASSUME NEW l \in Seq(Blocks), NEW h \in SUBSET Blocks, NEW m, NEW r \in Nat, Agree(l, h, m, r),
         NEW i \in 1..Len(l), l[i].start < 0
  PROVE  Agree(Del(l, i), {b \in h : b.start # l[i].start}, m, r)
<1> DEFINE h2 == {b \in h : b.start # l[i].start}
<1>1. Listed(Del(l, i), h2, r)
  BY DeletedIsListed DEF Agree
<1>2. l[i].start \in Int /\ ~(l[i].start > 0)
  <2>1. l[i] \in Blocks
    OBVIOUS
  <2> QED  BY <2>1 DEF Blocks
<1>3. Uses(h2) = Uses(h)
  BY <1>2 DEF Uses
<1> HIDE DEF h2
<1>4. Kept(h2, m, r)
  BY <1>3 DEF Kept, Agree, Covered
<1> QED  BY <1>1, <1>4 DEF Agree, h2

----------------------------------------------------------------------------
(* realloc: the node i is changed to b, and so is the program's block.     *)
Set(l, i, b) == [l EXCEPT ![i] = b]
Swapped(h, p, b) == {c \in h : c.start # p} \cup {b}

LEMMA SetIsListed ==
  ASSUME NEW l \in Seq(Blocks), NEW h \in SUBSET Blocks, NEW r \in Nat, NEW s \in Nat, r <= s,
         Listed(l, h, r), NEW i \in 1..Len(l), NEW b \in Blocks,
         \/ b.start \in Addresses /\ b.len > 0 /\ \A k \in 1..Len(l) : k # i => l[k].start # b.start
         \/ b.start < 0 /\ s > 0
  PROVE  Listed(Set(l, i, b), Swapped(h, l[i].start, b), s)
<1> DEFINE l2 == Set(l, i, b)
           h2 == Swapped(h, l[i].start, b)
<1>1. l2 \in Seq(Blocks) /\ Len(l2) = Len(l) /\ l2[i] = b
  BY DEF Set
<1>2. ASSUME NEW k \in 1..Len(l), k # i PROVE l2[k] = l[k] /\ l[k] \in Blocks
  BY <1>2 DEF Set
<1>3. b \in h2 /\ \A c \in h2 : c = b \/ (c \in h /\ c.start # l[i].start)
  BY DEF Swapped
<1>4. \A c \in h : c.start # l[i].start => c \in h2
  BY DEF Swapped
<1>5. b.start \in Int /\ \A a \in Addresses : a \in Nat \ {0}
  BY MemoryAssumption DEF Blocks
<1> HIDE DEF l2, h2
<1>6. ASSUME NEW c \in h2 PROVE \E k \in 1..Len(l2) : c = l2[k]
  <2>1. CASE c = b
    BY <2>1, <1>1
  <2>2. CASE c \in h /\ c.start # l[i].start
    <3>1. PICK k \in 1..Len(l) : c = l[k]
      BY <2>2 DEF Listed
    <3>2. k # i
      BY <3>1, <2>2
    <3> QED  BY <3>1, <3>2, <1>1, <1>2
  <2> QED  BY <2>1, <2>2, <1>3
<1>7. ASSUME NEW k \in 1..Len(l2) PROVE Real(l2, h2, k) \/ (l2[k].start < 0 /\ s > 0)
  <2>1. CASE k = i
    <3>1. CASE b.start < 0 /\ s > 0
      BY <3>1, <2>1, <1>1
    <3>2. CASE /\ b.start \in Addresses /\ b.len > 0
               /\ \A q \in 1..Len(l) : q # i => l[q].start # b.start
      <4>1. ASSUME NEW j \in 1..Len(l2), l2[j].start = l2[k].start PROVE j = k
        BY <4>1, <3>2, <2>1, <1>1, <1>2
      <4> QED  BY <4>1, <3>2, <2>1, <1>1, <1>3 DEF Real, Single
    <3> QED  BY <3>1, <3>2
  <2>2. CASE k # i /\ Real(l, h, k)
    <3>1. l2[k] = l[k] /\ l[k].start # l[i].start /\ l2[k] \in h2
      BY <2>2, <1>1, <1>2, <1>4 DEF Real, Single
    <3>2. ASSUME NEW j \in 1..Len(l2), l2[j].start = l2[k].start PROVE j = k
      <4>1. CASE j = i
        <5>1. l[k].start = b.start
          BY <4>1, <3>1, <3>2, <1>1
        <5>2. b.start \in Addresses /\ ~(b.start < 0)
          BY <5>1, <2>2, <1>5 DEF Real
        <5> QED  BY <5>1, <5>2, <2>2, <1>1
      <4>2. CASE j # i
        BY <4>2, <3>1, <3>2, <2>2, <1>1, <1>2 DEF Real, Single
      <4> QED  BY <4>1, <4>2
    <3> QED  BY <3>1, <3>2, <2>2 DEF Real, Single
  <2>3. CASE k # i /\ l[k].start < 0 /\ r > 0
    <3>1. l2[k].start < 0 /\ s > 0
      BY <2>3, <1>1, <1>2
    <3> QED  BY <3>1
  <2> QED  BY <2>1, <2>2, <2>3, <1>1 DEF Listed
<1> QED  BY <1>6, <1>7 DEF Listed, l2, h2

LEMMA ResizedAgrees ==
  ASSUME NEW l \in Seq(Blocks), NEW h \in SUBSET Blocks, NEW m, NEW r \in Nat, Agree(l, h, m, r),
         NEW i \in 1..Len(l), l[i].start \in Addresses,
         NEW len \in Nat \ {0}, NEW b \in Room(len, m \ Cells(l[i]))
  PROVE  Agree(Set(l, i, b), Swapped(h, l[i].start, b), (m \ Cells(l[i])) \cup Cells(b), r)
<1> DEFINE rest == {c \in h : c.start # l[i].start}
           left == m \ Cells(l[i])
<1>1. /\ b \in Blocks /\ b.start \in Addresses /\ b.len = len
      /\ b.start \in Cells(b) /\ Cells(b) \cap left = {}
  BY RoomIsApart
<1>2. b.start \in Nat \ {0} /\ b.start > 0 /\ b.len > 0
  <2> HIDE DEF left
  <2>1. b.start \in Nat \ {0}
    BY <1>1, MemoryAssumption
  <2> QED  BY <2>1, <1>1
<1>3. Listed(l, h, r) /\ Covered(h) \subseteq m
  BY DEF Agree, Kept
<1>4. Covered(rest) = Covered(h) \ Cells(l[i]) /\ Uses(rest) \subseteq Uses(h)
  BY RestIsKept
<1>5. Covered(rest) \subseteq left
  BY <1>3, <1>4
<1>6. ASSUME NEW k \in 1..Len(l), k # i PROVE l[k].start # b.start
  <2>1. l[k] \in Blocks
    OBVIOUS
  <2>2. CASE Real(l, h, k)
    <3>1. l[k].start # l[i].start
      BY <1>6, <2>2 DEF Real, Single
    <3>2. l[k].start \in Cells(l[k]) /\ l[k] \in Uses(h)
      BY <2>1, <2>2, StartIsCovered
    <3>3. l[k] \in Uses(rest)
      BY <3>1, <3>2 DEF Uses
    <3>4. l[k].start \in left
      BY <3>2, <3>3, <1>5 DEF Covered
    <3> QED  BY <3>4, <1>1
  <2>3. CASE l[k].start < 0
    BY <2>1, <2>3, <1>2 DEF Blocks
  <2> QED  BY <2>2, <2>3, <1>3 DEF Listed
<1>7. Listed(Set(l, i, b), Swapped(h, l[i].start, b), r)
  BY <1>1, <1>2, <1>3, <1>6, SetIsListed
<1>8. Swapped(h, l[i].start, b) = rest \cup {b}
  BY DEF Swapped
<1> HIDE DEF rest, left
<1>9. Uses(rest \cup {b}) = Uses(rest) \cup {b}
  BY <1>2 DEF Uses
<1>10. Covered(rest \cup {b}) = Covered(rest) \cup Cells(b)
  BY <1>9 DEF Covered
<1>11. ASSUME NEW c \in Uses(rest) PROVE Cells(c) \subseteq left
  BY <1>5 DEF Covered
<1>12. r = 0 => left = Covered(rest)
  BY <1>4 DEF Agree, Kept, left
<1>13. Kept(rest \cup {b}, left \cup Cells(b), r)
  <2>1. \A c, d \in Uses(rest) : c = d \/ Cells(c) \cap Cells(d) = {}
    BY <1>4 DEF Agree, Kept
  <2>2. \A c \in Uses(rest) : Cells(c) \cap Cells(b) = {}
    BY <1>1, <1>11
  <2> QED  BY <2>1, <2>2, <1>5, <1>9, <1>10, <1>12 DEF Kept
<1> QED  BY <1>7, <1>8, <1>13 DEF Agree, left

LEMMA ResizeRefusedAgrees ==
  ASSUME NEW l \in Seq(Blocks), NEW h \in SUBSET Blocks, NEW m, NEW r \in Nat, Agree(l, h, m, r),
         NEW i \in 1..Len(l), NEW b \in Blocks, b.start < 0
  PROVE  Agree(Set(l, i, b), Swapped(h, l[i].start, b), m, r + 1)
<1>1. Listed(Set(l, i, b), Swapped(h, l[i].start, b), r + 1)
  BY SetIsListed DEF Agree
<1>2. ~(b.start > 0)
  BY DEF Blocks
<1>3. Uses(Swapped(h, l[i].start, b)) \subseteq Uses(h)
  BY <1>2 DEF Uses, Swapped
<1>4. Kept(Swapped(h, l[i].start, b), m, r + 1)
  BY <1>3 DEF Kept, Agree, Covered
<1> QED  BY <1>1, <1>4 DEF Agree

----------------------------------------------------------------------------
(* mem_list_find answers a node with the start, and there is one for every *)
(* block that the program holds.                                           *)
LEMMA FindsANode ==
  ASSUME list \in Seq(Blocks), NEW start, Nodes(start) # {}
  PROVE  mem_list_find(start) \in 1..Len(list) /\ list[mem_list_find(start)].start = start
<1>1. Nodes(start) \subseteq Nat /\ Nodes(start) \subseteq 1..Len(list)
  BY DEF Nodes
<1>2. \E i \in Nodes(start) : \A j \in Nodes(start) : i <= j
  BY <1>1, HasALeast
<1>3. mem_list_find(start) \in Nodes(start)
  BY <1>2 DEF mem_list_find
<1> QED  BY <1>3 DEF Nodes

LEMMA StartIsAddressOrError ==
  ASSUME NEW l \in Seq(Blocks), NEW h, NEW r, Listed(l, h, r), NEW i \in 1..Len(l)
  PROVE  l[i].start \in Addresses \/ (l[i].start < 0 /\ l[i].start \notin Addresses)
<1>1. l[i] \in Blocks
  OBVIOUS
<1>2. l[i].start < 0 => l[i].start \notin Addresses
  BY <1>1, MemoryAssumption DEF Blocks
<1> QED  BY <1>2 DEF Listed, Real

----------------------------------------------------------------------------
(* One lemma for each call: what it leaves is a heap again.                *)
HeapOK ==
  /\ mem \in [Addresses -> 0..255] /\ mapped \subseteq Addresses
  /\ list \in Seq(Blocks) /\ held \subseteq Blocks /\ errno \in Nat /\ refused \in 0..MaxRefused
  /\ run \in {"runs", "puts", "printed", "exited", "fault"}
Heaps == HeapOK /\ Agree(list, held, mapped, refused)

LEMMA ZeroedIsMemory ==
  ASSUME mem \in [Addresses -> 0..255], NEW b
  PROVE  Zeroed(b) \in [Addresses -> 0..255]
BY DEF Zeroed

LEMMA EndsStep == ASSUME Heaps, NEW how \in {"exited", "fault"}, Ends(how) PROVE Heaps'
<1>1. Agree(<<>>, {}, {}, refused)
  BY NothingAgrees
<1>2. <<>> \in Seq(Blocks)
  OBVIOUS
<1>3. mem' \in [Addresses -> 0..255]
  BY DEF Ends
<1> QED  BY <1>1, <1>2, <1>3 DEF Ends, Heaps, HeapOK

(* What the kernel answers when it refuses.                                *)
LEMMA RefuseStep ==
  ASSUME Heaps, Refuse
  PROVE  refused \in Nat /\ refused' = refused + 1 /\ refused' \in 0..MaxRefused
BY MemoryAssumption DEF Heaps, HeapOK, Refuse

LEMMA MappedStep ==
  ASSUME Heaps, NEW len \in Nat \ {0}, NEW b \in Room(len, mapped),
         mapped' = mapped \cup Cells(b), Gets(b), mem' \in [Addresses -> 0..255],
         UNCHANGED <<errno, refused, run>>
  PROVE  Heaps'
<1>1. Agree(Append(list, b), held \cup {b}, mapped \cup Cells(b), refused)
  BY AddedAgrees, MemoryAssumption DEF Heaps, HeapOK
<1>2. b \in Blocks /\ Cells(b) \subseteq Addresses
  BY RoomIsApart
<1>3. Append(list, b) \in Seq(Blocks) /\ held \cup {b} \subseteq Blocks
  BY <1>2 DEF Heaps, HeapOK
<1>4. list' = Append(list, b) /\ held' = held \cup {b}
  BY DEF Gets, mem_list_add
<1>5. Agree(list', held', mapped', refused')
  BY <1>1, <1>4
<1> QED  BY <1>2, <1>3, <1>4, <1>5 DEF Heaps, HeapOK

LEMMA MallocStep ==
  ASSUME Heaps, NEW size \in Nat, Malloc(size) PROVE Heaps'
<1>1. CASE UNCHANGED heapVars
  BY <1>1 DEF heapVars, Heaps, HeapOK
<1>2. ASSUME size > 0, NEW b \in Room(size, mapped), mapped' = mapped \cup Cells(b), mem' = Zeroed(b),
             Gets(b), UNCHANGED <<errno, refused, run>>
      PROVE  Heaps'
  <2>1. mem' \in [Addresses -> 0..255]
    BY <1>2, ZeroedIsMemory DEF Heaps, HeapOK
  <2>2. size \in Nat \ {0}
    BY <1>2
  <2> QED  BY <2>1, <2>2, <1>2, MappedStep
<1>3. CASE size > 0 /\ Refuse /\ Gets(Block(-ENOMEM, size)) /\ UNCHANGED <<errno, mem, mapped, run>>
  <2> DEFINE b == Block(-ENOMEM, size)
  <2>1. b \in Blocks /\ b.start < 0
    BY DEF Block, Blocks, ENOMEM
  <2> HIDE DEF b
  <2>2. refused \in Nat /\ refused' = refused + 1 /\ refused' \in 0..MaxRefused
    BY <1>3, RefuseStep
  <2>3. list \in Seq(Blocks) /\ held \in SUBSET Blocks /\ Agree(list, held, mapped, refused)
    BY DEF Heaps, HeapOK
  <2>4. Agree(Append(list, b), held \cup {b}, mapped, refused + 1)
    BY <2>1, <2>2, <2>3, AddedRefusedAgrees
  <2>5. list' = Append(list, b) /\ held' = held \cup {b}
    BY <1>3 DEF Gets, mem_list_add, b
  <2>6. Agree(list', held', mapped', refused')
    BY <2>2, <2>4, <2>5, <1>3
  <2>7. list' \in Seq(Blocks) /\ held' \subseteq Blocks
    BY <2>1, <2>3, <2>5
  <2> QED  BY <2>2, <2>6, <2>7, <1>3 DEF Heaps, HeapOK
<1>4. CASE size > 0 /\ Refuse /\ errno' = EPERM /\ UNCHANGED <<list, held, mem, mapped, run>>
  <2>1. refused \in Nat /\ refused' = refused + 1 /\ refused' \in 0..MaxRefused
    BY <1>4, RefuseStep
  <2>2. Agree(list', held', mapped', refused')
    BY <2>1, <1>4, RefusedAgrees DEF Heaps, HeapOK
  <2> QED  BY <2>1, <2>2, <1>4 DEF Heaps, HeapOK, EPERM
<1>5. CASE Fault
  BY <1>5, EndsStep DEF Fault
<1> QED  BY <1>1, <1>2, <1>3, <1>4, <1>5 DEF Malloc

LEMMA CallocStep ==
  ASSUME Heaps, NEW nmemb \in Nat, NEW size \in Nat, Calloc(nmemb, size) PROVE Heaps'
<1> DEFINE len == nmemb * size
<1>1. len \in Nat
  OBVIOUS
<1> HIDE DEF len
<1>2. \/ UNCHANGED heapVars
      \/ /\ len > 0 /\ UNCHANGED <<errno, refused, run>>
         /\ \E b \in Room(len, mapped) :
              mapped' = mapped \cup Cells(b) /\ Gets(b) /\ mem' = memset(Zeroed(b), b.start, 0, len)
      \/ Refuse /\ errno' = EPERM /\ UNCHANGED <<mem, mapped, list, held, run>>
      \/ Fault
  BY DEF Calloc, len
<1>3. CASE UNCHANGED heapVars
  BY <1>3 DEF heapVars, Heaps, HeapOK
<1>4. ASSUME len > 0, NEW b \in Room(len, mapped), mapped' = mapped \cup Cells(b), Gets(b),
             mem' = memset(Zeroed(b), b.start, 0, len), UNCHANGED <<errno, refused, run>>
      PROVE  Heaps'
  <2>1. Zeroed(b) \in [Addresses -> 0..255]
    BY ZeroedIsMemory DEF Heaps, HeapOK
  <2>2. 0 % 256 \in 0..255
    OBVIOUS
  <2>3. memset(Zeroed(b), b.start, 0, len) \in [Addresses -> 0..255]
    BY <2>1, <2>2 DEF memset
  <2> QED  BY <2>3, <1>1, <1>4, MappedStep
<1>5. CASE Refuse /\ errno' = EPERM /\ UNCHANGED <<mem, mapped, list, held, run>>
  <2>1. refused \in Nat /\ refused' = refused + 1 /\ refused' \in 0..MaxRefused
    BY <1>5, RefuseStep
  <2>2. Agree(list', held', mapped', refused')
    BY <2>1, <1>5, RefusedAgrees DEF Heaps, HeapOK
  <2> QED  BY <2>1, <2>2, <1>5 DEF Heaps, HeapOK, EPERM
<1>6. CASE Fault
  BY <1>6, EndsStep DEF Fault
<1> QED  BY <1>2, <1>3, <1>4, <1>5, <1>6

LEMMA FreeStep ==
  ASSUME Heaps, NEW ptr, FreeBlock(ptr) PROVE Heaps'
<1>1. CASE Nodes(ptr) = {}
  <2>1. Fault
    BY <1>1 DEF FreeBlock
  <2> QED  BY <2>1, EndsStep DEF Fault
<1>2. CASE Nodes(ptr) # {}
  <2> DEFINE i == mem_list_find(ptr)
             unmapped == Block(ptr, IF ptr \in Addresses THEN list[i].len ELSE 0)
  <2>1. i \in 1..Len(list) /\ list[i].start = ptr
    BY <1>2, FindsANode DEF Heaps, HeapOK
  <2>2. /\ mapped' = mapped \ Cells(unmapped) /\ list' = Del(list, i)
        /\ held' = {b \in held : b.start # list[i].start}
        /\ errno' = 0 /\ mem' = Zeroed(unmapped) /\ refused' = refused /\ run' = run
    BY <1>2, <2>1 DEF FreeBlock, mem_list_del, Del
  <2>3. mem' \in [Addresses -> 0..255]
    BY <2>2, ZeroedIsMemory DEF Heaps, HeapOK
  <2> HIDE DEF i
  <2>4. /\ list \in Seq(Blocks) /\ held \in SUBSET Blocks /\ refused \in Nat
        /\ Agree(list, held, mapped, refused)
    BY MemoryAssumption DEF Heaps, HeapOK
  <2>5. list[i] \in Blocks /\ list[i] = Block(ptr, list[i].len)
    <3>1. list[i] \in Blocks
      BY <2>1, <2>4
    <3>2. ASSUME NEW b \in Blocks, b.start = ptr PROVE b = Block(ptr, b.len)
      BY <3>2 DEF Blocks, Block
    <3> QED  BY <3>1, <3>2, <2>1
  <2>6. Del(list, i) \in Seq(Blocks)
    BY <2>1, <2>4, DeletedIsList
  <2>7. Agree(list', held', mapped', refused')
    <3>1. CASE ptr \in Addresses
      <4>1. unmapped = list[i]
        BY <3>1, <2>5
      <4>2. Agree(Del(list, i), {b \in held : b.start # list[i].start}, mapped \ Cells(list[i]), refused)
        BY <3>1, <2>1, <2>4, FreedAgrees
      <4> QED  BY <4>1, <4>2, <2>2
    <3>2. CASE ptr \notin Addresses
      <4>1. list[i].start < 0
        BY <3>2, <2>1, <2>4, StartIsAddressOrError DEF Agree
      <4>2. Agree(Del(list, i), {b \in held : b.start # list[i].start}, mapped, refused)
        BY <4>1, <2>1, <2>4, DroppedAgrees
      <4>3. ptr \in Int /\ Cells(unmapped) = {}
        <5>1. ptr \in Int
          BY <2>1, <2>5 DEF Blocks
        <5> QED  BY <5>1, <3>2 DEF Cells, Block
      <4>4. mapped' = mapped
        BY <4>3, <2>2
      <4> QED  BY <4>2, <4>4, <2>2
    <3> QED  BY <3>1, <3>2
  <2> HIDE DEF unmapped
  <2> QED  BY <2>2, <2>3, <2>6, <2>7, <2>4 DEF Heaps, HeapOK
<1> QED  BY <1>1, <1>2

LEMMA MovedIsMemory ==
  ASSUME mem \in [Addresses -> 0..255], NEW from \in Blocks, NEW to \in Blocks,
         Cells(from) \subseteq Addresses
  PROVE  Moved(from, to) \in [Addresses -> 0..255]
<1>1. ASSUME NEW a \in Addresses
      PROVE  (LET source == from.start + a - to.start IN
              IF a \in Cells(to) THEN IF source \in Cells(from) THEN mem[source] ELSE 0
              ELSE IF a \in Cells(from) THEN 0 ELSE mem[a]) \in 0..255
  BY <1>1
<1> QED  BY <1>1 DEF Moved

LEMMA ReallocStep ==
  ASSUME Heaps, NEW ptr, NEW size \in Nat, Realloc(ptr, size) PROVE Heaps'
<1>1. CASE Nodes(ptr) = {}
  <2>1. Fault
    BY <1>1 DEF Realloc
  <2> QED  BY <2>1, EndsStep DEF Fault
<1>2. CASE Nodes(ptr) # {}
  <2> DEFINE i == mem_list_find(ptr)
             old == list[i]
             rest == mapped \ Cells(old)
             error == Block(IF size = 0 \/ ptr \notin Addresses THEN -EINVAL ELSE -ENOMEM, size)
  <2>1. i \in 1..Len(list) /\ list[i].start = ptr
    BY <1>2, FindsANode DEF Heaps, HeapOK
  <2>2. \/ /\ size > 0 /\ ptr \in Addresses /\ UNCHANGED <<errno, refused, run>>
           /\ \E b \in Room(size, rest) :
                /\ mapped' = rest \cup Cells(b) /\ mem' = Moved(old, b)
                /\ list' = SetNode(i, b) /\ Holds(ptr, b)
        \/ /\ Refuse /\ list' = SetNode(i, error) /\ Holds(ptr, error)
           /\ UNCHANGED <<errno, mem, mapped, run>>
        \/ Refuse /\ errno' = EPERM /\ UNCHANGED <<list, held, mem, mapped, run>>
    BY <1>2 DEF Realloc, Invalid, Resized
  <2> HIDE DEF i
  <2>3. /\ list \in Seq(Blocks) /\ held \in SUBSET Blocks /\ refused \in Nat
        /\ Agree(list, held, mapped, refused)
    BY MemoryAssumption DEF Heaps, HeapOK
  <2>4. old \in Blocks
    BY <2>1, <2>3
  <2> HIDE DEF old
  <2>5. ASSUME size > 0, ptr \in Addresses, UNCHANGED <<errno, refused, run>>, NEW b \in Room(size, rest),
               mapped' = rest \cup Cells(b), mem' = Moved(old, b), list' = SetNode(i, b), Holds(ptr, b)
        PROVE  Heaps'
    <3>1. size \in Nat \ {0} /\ list[i].start \in Addresses
      BY <2>5, <2>1
    <3>2. b \in Room(size, mapped \ Cells(list[i]))
      BY <2>5 DEF old
    <3>3. Agree(Set(list, i, b), Swapped(held, list[i].start, b), (mapped \ Cells(list[i])) \cup Cells(b), refused)
      BY <3>1, <3>2, <2>1, <2>3, ResizedAgrees
    <3>4. b \in Blocks /\ Cells(b) \subseteq Addresses
      BY <3>1, RoomIsApart
    <3>5. list' = Set(list, i, b) /\ held' = Swapped(held, list[i].start, b)
      BY <2>5, <2>1 DEF SetNode, Set, Holds, Swapped
    <3>6. Agree(list', held', mapped', refused')
      BY <3>3, <3>5, <2>5 DEF old
    <3>7. list' \in Seq(Blocks) /\ held' \subseteq Blocks
      BY <3>4, <3>5, <2>1, <2>3 DEF Set, Swapped
    <3>8. Cells(old) \subseteq Addresses /\ mapped \subseteq Addresses
      <4>1. Cells(list[i]) \subseteq Covered(held)
        BY <3>1, <2>1, <2>3, RestIsKept
      <4> QED  BY <4>1, <2>3 DEF Agree, Kept, old, Heaps, HeapOK
    <3>9. mem' \in [Addresses -> 0..255]
      BY <3>4, <3>8, <2>4, <2>5, MovedIsMemory DEF Heaps, HeapOK
    <3>10. mapped' \subseteq Addresses
      BY <3>4, <3>8, <2>5
    <3> QED  BY <3>6, <3>7, <3>9, <3>10, <2>5 DEF Heaps, HeapOK
  <2>6. CASE /\ Refuse /\ list' = SetNode(i, error) /\ Holds(ptr, error)
             /\ UNCHANGED <<errno, mem, mapped, run>>
    <3>1. error \in Blocks /\ error.start < 0
      BY DEF Block, Blocks, ENOMEM, EINVAL
    <3> HIDE DEF error
    <3>2. refused \in Nat /\ refused' = refused + 1 /\ refused' \in 0..MaxRefused
      BY <2>6, RefuseStep
    <3>3. Agree(Set(list, i, error), Swapped(held, list[i].start, error), mapped, refused + 1)
      BY <3>1, <2>1, <2>3, ResizeRefusedAgrees
    <3>4. list' = Set(list, i, error) /\ held' = Swapped(held, list[i].start, error)
      BY <2>6, <2>1 DEF SetNode, Set, Holds, Swapped
    <3>5. Agree(list', held', mapped', refused')
      BY <3>2, <3>3, <3>4, <2>6
    <3>6. list' \in Seq(Blocks) /\ held' \subseteq Blocks
      BY <3>1, <3>4, <2>1, <2>3 DEF Set, Swapped
    <3> QED  BY <3>2, <3>5, <3>6, <2>6 DEF Heaps, HeapOK
  <2>7. CASE Refuse /\ errno' = EPERM /\ UNCHANGED <<list, held, mem, mapped, run>>
    <3>1. refused \in Nat /\ refused' = refused + 1 /\ refused' \in 0..MaxRefused
      BY <2>7, RefuseStep
    <3>2. Agree(list', held', mapped', refused')
      BY <3>1, <2>7, <2>3, RefusedAgrees
    <3> QED  BY <3>1, <3>2, <2>7 DEF Heaps, HeapOK, EPERM
  <2> QED  BY <2>2, <2>5, <2>6, <2>7
<1> QED  BY <1>1, <1>2

----------------------------------------------------------------------------
(* The wrappers: an int of the width, and errno when it is negative.       *)
LEMMA ToIntRange == ASSUME NEW x \in Int PROVE ToInt(x) \in -IntHalf..(IntHalf - 1)
<1>1. IntHalf \in Nat \ {0}
  BY ProgramAssumption
<1> DEFINE y == x + IntHalf
           w == 2 * IntHalf
<1>2. y \in Int /\ w \in Nat \ {0}
  BY <1>1
<1> HIDE DEF y, w
<1>3. y % w \in 0..(w - 1)
  BY <1>2
<1>4. ToInt(x) = (y % w) - IntHalf
  BY DEF ToInt, y, w
<1>5. w = 2 * IntHalf
  BY DEF w
<1> HIDE DEF w
<1> QED  BY <1>1, <1>3, <1>4, <1>5

LEMMA ReportsRange ==
  ASSUME errno \in Nat, NEW answer \in Answers
  PROVE  Reports(answer)[1] \in -1..(IntHalf - 1) /\ Reports(answer)[2] \in Nat
<1>1. answer \in Int /\ IntHalf \in Nat \ {0}
  BY ProgramAssumption
<1>2. ToInt(answer) \in Int /\ ToInt(answer) < IntHalf
  BY <1>1, ToIntRange
<1>3. Reports(answer) = IF ToInt(answer) < 0 THEN <<-1, -ToInt(answer)>> ELSE <<ToInt(answer), errno>>
  BY DEF Reports
<1>4. CASE ToInt(answer) < 0
  BY <1>1, <1>2, <1>3, <1>4
<1>5. CASE ~(ToInt(answer) < 0)
  BY <1>1, <1>2, <1>3, <1>5
<1> QED  BY <1>4, <1>5

Inv == TypeOK /\ HeapAgrees

LEMMA InvIsHeaps ==
  Inv => Heaps /\ DOMAIN todo = DOMAIN NoString /\ todo.total \in Int /\ last.ret \in -1..(IntHalf - 1)
BY HeapAgreesIsAgree DEF Inv, Heaps, HeapOK, TypeOK

LEMMA HeapsIsInvNext ==
  /\ Heaps' /\ DOMAIN todo' = DOMAIN NoString /\ todo'.total \in Int
  /\ last'.ret \in -1..(IntHalf - 1)
  => Inv'
<1>1. Heaps' /\ DOMAIN todo' = DOMAIN NoString /\ todo'.total \in Int /\ last'.ret \in -1..(IntHalf - 1)
      => TypeOK'
  BY DEF Heaps, HeapOK, TypeOK, NoString
<1> QED  BY <1>1, HeapAgreesIsAgreeNext DEF Inv, Heaps

LEMMA NoCallRange == NoCall.ret \in -1..(IntHalf - 1) /\ NoString.total \in Int
BY ProgramAssumption DEF NoCall, NoString

LEMMA HeapStep == ASSUME Inv, Heap PROVE Inv'
<1>1. Heaps /\ DOMAIN todo = DOMAIN NoString /\ todo.total \in Int
  BY InvIsHeaps
<1>2. \A size \in Sizes : size \in Nat /\ 2 * size \in Nat
  BY MemoryAssumption
<1>3. Heaps'
  <2>1. CASE \E size \in Sizes : Malloc(size)
    BY <2>1, <1>1, <1>2, MallocStep
  <2>2. CASE \E size \in Sizes : Calloc(1, size)
    <3>1. 1 \in Nat
      OBVIOUS
    <3> QED  BY <3>1, <2>2, <1>1, <1>2, CallocStep
  <2>3. CASE \E ptr : FreeBlock(ptr)
    BY <2>3, <1>1, FreeStep
  <2>4. ASSUME NEW b \in held, NEW size \in Sizes, Realloc(b.start, size) PROVE Heaps'
    BY <2>4, <1>1, <1>2, ReallocStep
  <2>5. ASSUME NEW b \in held, NEW size \in Sizes, reallocarray(b.start, 2, size) PROVE Heaps'
    BY <2>5, <1>1, <1>2, ReallocStep DEF reallocarray
  <2>6. CASE Return
    BY <2>6, <1>1, EndsStep DEF Return
  <2> QED  BY <2>1, <2>2, <2>3, <2>4, <2>5, <2>6 DEF Heap
<1>4. last' = NoCall /\ todo' = todo
  BY DEF Heap
<1> QED  BY <1>1, <1>3, <1>4, NoCallRange, HeapsIsInvNext

(* A step that leaves the blocks alone.                                    *)
LEMMA SameHeap ==
  ASSUME Heaps, UNCHANGED <<mapped, list, held>>, mem' \in [Addresses -> 0..255],
         errno' \in Nat, refused' = refused \/ Refuse,
         run' \in {"runs", "puts", "printed", "exited", "fault"}
  PROVE  Heaps'
<1>1. list \in Seq(Blocks) /\ held \subseteq Blocks /\ mapped \subseteq Addresses /\ Agree(list, held, mapped, refused)
  BY DEF Heaps, HeapOK
<1>2. refused' \in 0..MaxRefused /\ Agree(list, held, mapped, refused')
  <2>1. CASE refused' = refused
    BY <2>1 DEF Heaps, HeapOK
  <2>2. CASE Refuse
    BY <2>2, <1>1, RefuseStep, RefusedAgrees
  <2> QED  BY <2>1, <2>2
<1> QED  BY <1>1, <1>2 DEF Heaps, HeapOK

LEMMA SystemCallStep == ASSUME Inv, SystemCall PROVE Inv'
<1>1. Heaps /\ DOMAIN todo = DOMAIN NoString /\ todo.total \in Int
  BY InvIsHeaps
<1>2. errno \in Nat /\ run \in {"runs", "puts", "printed", "exited", "fault"} /\ mem \in [Addresses -> 0..255]
  BY <1>1 DEF Heaps, HeapOK
<1>3. PICK answer \in Answers :
        \E r \in {<<"open", open(answer)>>, <<"close", close(answer)>>, <<"read", read(answer)>>,
                  <<"write", write(answer)>>, <<"lseek", lseek(answer)>>,
                  <<"truncate", truncate(answer)>>, <<"ftruncate", ftruncate(answer)>>,
                  <<"stat", stat(answer)>>, <<"fstat", fstat(answer)>>,
                  <<"nanosleep", nanosleep(answer)>>, <<"sleep", sleep(answer)>>} :
          /\ last' = [name |-> r[1], answer |-> answer, ret |-> r[2][1]] /\ errno' = r[2][2]
          /\ UNCHANGED <<mem, mapped, list, held, refused, run, output, todo>>
  BY DEF SystemCall
<1>4. ASSUME NEW name, NEW pair, pair[1] \in -1..(IntHalf - 1), pair[2] \in Nat,
             last' = [name |-> name, answer |-> answer, ret |-> pair[1]], errno' = pair[2],
             UNCHANGED <<mem, mapped, list, held, refused, run, output, todo>>
      PROVE  Inv'
  <2>1. Heaps'
    BY <1>1, <1>2, <1>4, SameHeap
  <2>2. last'.ret = pair[1]
    BY <1>4
  <2> QED  BY <2>1, <2>2, <1>1, <1>4, HeapsIsInvNext
<1>5. Reports(answer)[1] \in -1..(IntHalf - 1) /\ Reports(answer)[2] \in Nat
  BY <1>2, ReportsRange
<1>6. sleep(answer)[1] \in -1..(IntHalf - 1) /\ sleep(answer)[2] \in Nat
  <2>1. <<-1, 1>>[1] \in -1..(IntHalf - 1) /\ <<-1, 1>>[2] \in Nat
    BY ProgramAssumption
  <2>2. sleep(answer) = <<-1, 1>> \/ sleep(answer) = Reports(answer)
    BY DEF sleep, nanosleep
  <2> QED  BY <2>1, <2>2, <1>5
<1>7. PICK r : /\ r[2] = Reports(answer) \/ r[2] = sleep(answer)
               /\ last' = [name |-> r[1], answer |-> answer, ret |-> r[2][1]] /\ errno' = r[2][2]
               /\ UNCHANGED <<mem, mapped, list, held, refused, run, output, todo>>
  <2>1. ASSUME NEW name, NEW pair, NEW r, r = <<name, pair>> PROVE r[2] = pair
    BY <2>1
  <2> QED  BY <2>1, <1>3 DEF open, close, read, write, lseek, truncate, ftruncate, stat, fstat, nanosleep
<1>8. r[2][1] \in -1..(IntHalf - 1) /\ r[2][2] \in Nat
  BY <1>5, <1>6, <1>7
<1> QED  BY <1>4, <1>7, <1>8

----------------------------------------------------------------------------
LEMMA StoreStep ==
  ASSUME Inv, run = "runs", NEW a, NEW byte \in Bytes, Store(a, byte) PROVE Inv'
<1>1. Heaps /\ DOMAIN todo = DOMAIN NoString /\ todo.total \in Int
  BY InvIsHeaps
<1>2. mem \in [Addresses -> 0..255] /\ byte \in 0..255 /\ errno \in Nat
  BY <1>1, ProgramAssumption DEF Heaps, HeapOK
<1>3. mem' \in [Addresses -> 0..255]
  BY <1>2 DEF Store
<1>4. Heaps'
  BY <1>1, <1>2, <1>3, SameHeap DEF Store
<1> QED  BY <1>1, <1>4, NoCallRange, HeapsIsInvNext DEF Store

LEMMA PutsStartStep ==
  ASSUME Inv, NEW str, PutsStart(str) PROVE Inv'
<1>1. Heaps
  BY InvIsHeaps
<1>2. mem \in [Addresses -> 0..255] /\ errno \in Nat
  BY <1>1 DEF Heaps, HeapOK
<1>3. Heaps'
  BY <1>1, <1>2, SameHeap DEF PutsStart
<1>4. DOMAIN todo' = DOMAIN NoString /\ todo'.total = 0
  BY DEF PutsStart, NoString
<1> QED  BY <1>3, <1>4, NoCallRange, HeapsIsInvNext DEF PutsStart

LEMMA PutsWriteStep == ASSUME Inv, PutsWrite PROVE Inv'
<1>1. Heaps /\ DOMAIN todo = DOMAIN NoString /\ todo.total \in Int /\ last.ret \in -1..(IntHalf - 1)
  BY InvIsHeaps
<1>2. /\ mem \in [Addresses -> 0..255] /\ errno \in Nat
      /\ run \in {"runs", "puts", "printed", "exited", "fault"}
  BY <1>1 DEF Heaps, HeapOK
<1>3. PICK n \in Int :
        /\ todo' = [todo EXCEPT !.total = todo.total + n]
        /\ refused' = refused \/ Refuse
        /\ run' \in {run, "fault"}
        /\ UNCHANGED <<mem, mapped, list, held, errno, last>>
  BY DEF PutsWrite, Adds, EPERM, EINTR
<1>4. Heaps'
  BY <1>1, <1>2, <1>3, SameHeap
<1>5. DOMAIN todo' = DOMAIN NoString /\ todo'.total \in Int
  BY <1>1, <1>3 DEF NoString
<1> QED  BY <1>1, <1>3, <1>4, <1>5, HeapsIsInvNext

LEMMA PutsEndStep == ASSUME Inv, PutsEnd \/ PutsReturn PROVE Inv'
<1>1. Heaps /\ DOMAIN todo = DOMAIN NoString /\ todo.total \in Int /\ last.ret \in -1..(IntHalf - 1)
  BY InvIsHeaps
<1>2. mem \in [Addresses -> 0..255] /\ errno \in Nat
  BY <1>1 DEF Heaps, HeapOK
<1>3. Heaps'
  BY <1>1, <1>2, SameHeap DEF PutsEnd, PutsReturn
<1> QED  BY <1>1, <1>3, NoCallRange, HeapsIsInvNext DEF PutsEnd, PutsReturn

LEMMA InvInit == Init => Inv
<1> SUFFICES ASSUME Init PROVE Inv
  OBVIOUS
<1>1. <<>> \in Seq(Blocks) /\ 0 \in 0..MaxRefused /\ mem \in [Addresses -> 0..255]
  BY MemoryAssumption DEF Init, HeapInit
<1>2. TypeOK
  BY <1>1, NoCallRange DEF Init, HeapInit, TypeOK, NoString
<1>3. Agree(list, held, mapped, refused)
  BY NothingAgrees DEF Init, HeapInit
<1> QED  BY <1>2, <1>3, HeapAgreesIsAgree DEF Inv

LEMMA InvStutters == ASSUME Inv, UNCHANGED vars PROVE Inv'
<1>1. Heaps /\ DOMAIN todo = DOMAIN NoString /\ todo.total \in Int /\ last.ret \in -1..(IntHalf - 1)
  BY InvIsHeaps
<1>2. Heaps'
  BY <1>1 DEF vars, heapVars, Heaps, HeapOK
<1> QED  BY <1>1, <1>2, HeapsIsInvNext DEF vars

LEMMA InvNext == Inv /\ [Next]_vars => Inv'
<1> SUFFICES ASSUME Inv, [Next]_vars PROVE Inv'
  OBVIOUS
<1>1. CASE Heap
  BY <1>1, HeapStep
<1>2. CASE SystemCall
  BY <1>2, SystemCallStep
<1>3. ASSUME run = "runs", NEW a \in InBlock, NEW v \in Bytes, Store(a, v) PROVE Inv'
  BY <1>3, StoreStep
<1>4. ASSUME NEW s \in Strings, PutsStart(s) PROVE Inv'
  BY <1>4, PutsStartStep
<1>5. CASE PutsWrite
  BY <1>5, PutsWriteStep
<1>6. CASE PutsEnd \/ PutsReturn
  BY <1>6, PutsEndStep
<1>7. CASE UNCHANGED vars
  BY <1>7, InvStutters
<1> QED  BY <1>1, <1>2, <1>3, <1>4, <1>5, <1>6, <1>7 DEF Next

\* Whatever a program allocates, resizes and frees, stores, prints and calls,
\* and whatever the kernel refuses, the state keeps its types (src/mm/,
\* src/stdio/puts.c and the wrappers in src/io/ and src/stat/).
THEOREM TypeCorrect == Spec => []TypeOK
<1>1. Inv => TypeOK
  BY DEF Inv
<1> QED  BY <1>1, InvInit, InvNext, PTL DEF Spec

\* mem_list, the program and the kernel always agree on the blocks: what the
\* program holds is in the list with its length and is mapped, blocks do not
\* overlap, only error numbers stand in several nodes, and nothing leaks until
\* a request is refused (malloc, calloc, free, realloc and reallocarray).
THEOREM HeapStaysConsistent == Spec => []HeapAgrees
<1>1. Inv => HeapAgrees
  BY DEF Inv
<1> QED  BY <1>1, InvInit, InvNext, PTL DEF Spec
----------------------------------------------------------------------------
(* A loop that goes on until an index in S and answers v there: there is a *)
(* function that it computes, and any such function is that answer.        *)
LoopOver(D, S, v, g) == g = [k \in D |-> IF k \in S THEN v[k] ELSE g[k + 1]]

LEMMA LoopExists ==
  ASSUME NEW D \in SUBSET Nat, NEW S \in SUBSET D, NEW v, \A k \in D \ S : k + 1 \in D
  PROVE  \E g : LoopOver(D, S, v, g)
<1> DEFINE Ahead(k) == {z \in S : k <= z}
           From(T) == IF T = {} THEN 0 ELSE v[CHOOSE z \in T : \A y \in T : z <= y]
           g == [k \in D |-> From(Ahead(k))]
<1>0. \A z \in S : z \in Nat
  OBVIOUS
<1>1. ASSUME NEW k \in D PROVE g[k] = IF k \in S THEN v[k] ELSE g[k + 1]
  <2>1. CASE k \in S
    <3>1. k \in Ahead(k) /\ \A y \in Ahead(k) : k <= y
      BY <2>1
    <3>2. ASSUME NEW z \in Ahead(k), \A y \in Ahead(k) : z <= y PROVE z = k
      BY <3>1, <3>2
    <3>3. (CHOOSE z \in Ahead(k) : \A y \in Ahead(k) : z <= y) = k
      BY <3>1, <3>2
    <3>4. From(Ahead(k)) = v[k]
      BY <3>1, <3>3
    <3> QED  BY <2>1, <3>4
  <2>2. CASE k \notin S
    <3>1. Ahead(k) = Ahead(k + 1)
      <4>1. \A z \in S : k <= z <=> k + 1 <= z
        BY <1>0, <2>2
      <4> QED  BY <4>1
    <3>2. k + 1 \in D
      BY <2>2
    <3>3. g[k] = From(Ahead(k)) /\ g[k + 1] = From(Ahead(k + 1))
      BY <3>2
    <3> HIDE DEF g, From, Ahead
    <3> QED  BY <2>2, <3>1, <3>3
  <2> QED  BY <2>1, <2>2
<1>2. g = [k \in D |-> g[k]]
  OBVIOUS
<1> HIDE DEF g
<1>3. g = [k \in D |-> IF k \in S THEN v[k] ELSE g[k + 1]]
  BY <1>1, <1>2
<1> QED  BY <1>3 DEF LoopOver

(* z is the first index of S from k on.                                    *)
RunsTo(D, S, k, z) ==
  /\ k \in Nat /\ z \in S /\ k <= z /\ k..z \subseteq D
  /\ \A j \in k..(z - 1) : j \notin S

LEMMA LoopStops ==
  ASSUME NEW D \in SUBSET Nat, NEW S \in SUBSET D, NEW v, NEW g, LoopOver(D, S, v, g),
         NEW k, NEW z, RunsTo(D, S, k, z)
  PROVE  g[k] = v[z]
<1>0. /\ k \in Nat /\ z \in S /\ k <= z /\ k..z \subseteq D
      /\ \A j \in k..(z - 1) : j \notin S
  BY DEF RunsTo
<1> DEFINE A == {j \in k..z : g[j] # v[z]}
<1>1. \A j \in D : g[j] = IF j \in S THEN v[j] ELSE g[j + 1]
  <2>1. g = [j \in D |-> IF j \in S THEN v[j] ELSE g[j + 1]]
    BY DEF LoopOver
  <2> QED  BY <2>1
<1>2. z \in Nat /\ A \in SUBSET (0..z)
  <2>1. z \in Nat
    BY <1>0
  <2> QED  BY <1>0, <2>1
<1>3. SUFFICES ASSUME A # {} PROVE FALSE
  BY <1>0, <1>2
<1>4. PICK j \in A : \A i \in A : i <= j
  BY <1>2, <1>3, HasAGreatest
<1>5. j \in k..z /\ g[j] # v[z] /\ j \in D
  BY <1>0
<1>6. j # z
  BY <1>0, <1>1, <1>5
<1>7. j \in k..(z - 1) /\ j + 1 \in k..z /\ j + 1 \notin A
  BY <1>0, <1>2, <1>4, <1>5, <1>6
<1>8. g[j] = g[j + 1]
  BY <1>0, <1>1, <1>5, <1>7
<1> QED  BY <1>5, <1>7, <1>8

----------------------------------------------------------------------------
(* The string at a ends at z.                                              *)
EndsAt(m, a, z) ==
  /\ a \in Nat /\ z \in Nat /\ a <= z /\ a..z \subseteq DOMAIN m
  /\ m[z] = 0 /\ \A p \in a..(z - 1) : m[p] # 0

LEMMA StrlenIs == ASSUME NEW m, NEW a, NEW z, EndsAt(m, a, z) PROVE strlen(m, a) = z - a
<1> DEFINE Is(g) == g = [p \in Nat |-> IF m[p] = 0 THEN 0 ELSE 1 + g[p + 1]]
           f == CHOOSE g : Is(g)
<1>0. a \in Nat /\ z \in Nat /\ a <= z /\ m[z] = 0 /\ \A p \in a..(z - 1) : m[p] # 0
  BY DEF EndsAt
<1>1. \E g : Is(g)
  <2> DEFINE S == {p \in Nat : m[p] = 0}
             Ahead(k) == {p \in S : k <= p}
             From(T, k) == IF T = {} THEN 0 - k ELSE (CHOOSE p \in T : \A y \in T : p <= y) - k
             g == [k \in Nat |-> From(Ahead(k), k)]
  <2>1. ASSUME NEW k \in Nat PROVE g[k] = IF m[k] = 0 THEN 0 ELSE 1 + g[k + 1]
    <3>1. CASE m[k] = 0
      <4>1. k \in Ahead(k) /\ \A y \in Ahead(k) : k <= y
        BY <3>1
      <4>2. ASSUME NEW p \in Ahead(k), \A y \in Ahead(k) : p <= y PROVE p = k
        BY <4>1, <4>2
      <4>3. (CHOOSE p \in Ahead(k) : \A y \in Ahead(k) : p <= y) = k
        BY <4>1, <4>2
      <4>4. From(Ahead(k), k) = k - k
        BY <4>1, <4>3
      <4> QED  BY <3>1, <4>4
    <3>2. CASE m[k] # 0
      <4>1. Ahead(k) = Ahead(k + 1)
        BY <3>2
      <4>2. g[k] = From(Ahead(k), k) /\ g[k + 1] = From(Ahead(k + 1), k + 1)
        OBVIOUS
      <4>3. CASE Ahead(k) = {}
        <5>1. g[k] = 0 - k /\ g[k + 1] = 0 - (k + 1)
          BY <4>1, <4>2, <4>3
        <5> HIDE DEF g
        <5> QED  BY <3>2, <5>1
      <4>4. CASE Ahead(k) # {}
        <5> DEFINE least == CHOOSE p \in Ahead(k) : \A y \in Ahead(k) : p <= y
        <5>1. Ahead(k) \in SUBSET Nat
          OBVIOUS
        <5> HIDE DEF Ahead
        <5>2. \E p \in Ahead(k) : \A y \in Ahead(k) : p <= y
          BY <4>4, <5>1, HasALeast
        <5>3. least \in Nat
          BY <5>1, <5>2
        <5>4. g[k] = least - k /\ g[k + 1] = least - (k + 1)
          BY <4>1, <4>2, <4>4
        <5> HIDE DEF least, g
        <5> QED  BY <3>2, <5>3, <5>4
      <4> QED  BY <4>3, <4>4
    <3> QED  BY <3>1, <3>2
  <2>2. g = [k \in Nat |-> g[k]]
    OBVIOUS
  <2> HIDE DEF g
  <2>3. g = [p \in Nat |-> IF m[p] = 0 THEN 0 ELSE 1 + g[p + 1]]
    BY <2>1, <2>2
  <2> QED  BY <2>3
<1>2. Is(f)
  BY <1>1
<1>3. strlen(m, a) = f[a]
  BY DEF strlen
<1> HIDE DEF f
<1>4. \A p \in Nat : f[p] = IF m[p] = 0 THEN 0 ELSE 1 + f[p + 1]
  BY <1>2
<1> HIDE DEF Is
<1> DEFINE A == {j \in a..z : f[j] # z - j}
<1>5. SUFFICES ASSUME A # {} PROVE FALSE
  BY <1>0, <1>3
<1>6. A \in SUBSET (0..z)
  BY <1>0
<1>7. PICK j \in A : \A i \in A : i <= j
  BY <1>0, <1>5, <1>6, HasAGreatest
<1>8. j \in a..z /\ f[j] # z - j
  OBVIOUS
<1>9. j # z
  BY <1>0, <1>4, <1>8
<1>10. j \in a..(z - 1) /\ j + 1 \in a..z /\ j + 1 \notin A
  BY <1>0, <1>7, <1>8, <1>9
<1>11. f[j + 1] = z - (j + 1)
  BY <1>10
<1>12. f[j] = 1 + f[j + 1]
  BY <1>0, <1>4, <1>8, <1>10
<1>13. j \in Int /\ z \in Int
  BY <1>0, <1>8
<1> QED  BY <1>8, <1>11, <1>12, <1>13

LEMMA StringIs ==
  ASSUME NEW m, NEW a, NEW z, EndsAt(m, a, z), DOMAIN m \subseteq Nat
  PROVE  StringAt(m, a) = [k \in 1..(z - a) |-> m[a + k - 1]]
<1> DEFINE nuls == {p \in DOMAIN m : p >= a /\ m[p] = 0}
           nul == CHOOSE p \in nuls : \A q \in nuls : p <= q
<1>1. /\ a \in Nat /\ z \in Nat /\ a <= z /\ a..z \subseteq DOMAIN m
      /\ m[z] = 0 /\ \A p \in a..(z - 1) : m[p] # 0
  BY DEF EndsAt
<1>2. z \in nuls
  BY <1>1
<1>3. ASSUME NEW q \in nuls PROVE z <= q
  <2>1. q \in Nat /\ q >= a /\ m[q] = 0
    OBVIOUS
  <2> QED  BY <1>1, <2>1
<1>4. ASSUME NEW p \in nuls, \A q \in nuls : p <= q PROVE p = z
  <2>1. p \in Nat /\ p <= z /\ z <= p
    BY <1>2, <1>3, <1>4
  <2> QED  BY <1>1, <2>1
<1> HIDE DEF nuls
<1>5. nul = z
  BY <1>2, <1>3, <1>4
<1>6. nuls # {}
  BY <1>2
<1> QED  BY <1>5, <1>6 DEF StringAt, nuls

LEMMA HasATerminator ==
  ASSUME NEW m, NEW a \in Nat, NEW p \in Nat, a <= p, a..p \subseteq DOMAIN m, m[p] = 0
  PROVE  \E z \in a..p : EndsAt(m, a, z)
<1> DEFINE A == {q \in a..p : m[q] = 0}
<1>1. A \in SUBSET Nat /\ A # {}
  OBVIOUS
<1>2. PICK z \in A : \A q \in A : z <= q
  BY <1>1, HasALeast
<1>3. z \in a..p /\ m[z] = 0
  OBVIOUS
<1>4. ASSUME NEW q \in a..(z - 1) PROVE m[q] # 0
  <2>1. q \in a..p /\ ~(z <= q)
    BY <1>3
  <2> QED  BY <1>2, <2>1
<1>5. a..z \subseteq a..p
  BY <1>3
<1> QED  BY <1>3, <1>4, <1>5 DEF EndsAt

----------------------------------------------------------------------------
(* A sequence given by its length and elements.                            *)
LEMMA ListOf ==
  ASSUME NEW S, NEW n \in Nat, NEW f, \A k \in 1..n : f[k] \in S
  PROVE  LET s == [k \in 1..n |-> f[k]] IN
         s \in Seq(S) /\ Len(s) = n /\ \A k \in 1..n : s[k] = f[k]
<1> DEFINE s == [k \in 1..n |-> f[k]]
<1>1. s \in Seq(S)
  OBVIOUS
<1>2. Len(s) \in Nat /\ 1..Len(s) = 1..n
  BY <1>1
<1>3. Len(s) = n
  BY <1>2
<1> QED  BY <1>1, <1>3

LEMMA SameList ==
  ASSUME NEW S, NEW s \in Seq(S), NEW t \in Seq(S), Len(s) = Len(t),
         \A k \in 1..Len(s) : s[k] = t[k]
  PROVE  s = t
OBVIOUS

LEMMA PrefixIs ==
  ASSUME NEW S, NEW t \in Seq(S), NEW n \in Nat, n <= Len(t)
  PROVE  /\ SubSeq(t, 1, n) \in Seq(S) /\ Len(SubSeq(t, 1, n)) = n
         /\ \A k \in 1..n : SubSeq(t, 1, n)[k] = t[k]
<1>1. Len(t) \in Nat
  OBVIOUS
<1> QED  BY <1>1

LEMMA PrefixGrows ==
  ASSUME NEW S, NEW t \in Seq(S), NEW i \in Nat, NEW j \in Nat, i + j <= Len(t)
  PROVE  SubSeq(t, 1, i) \o [k \in 1..j |-> t[i + k]] = SubSeq(t, 1, i + j)
<1> DEFINE p == SubSeq(t, 1, i)
           q == [k \in 1..j |-> t[i + k]]
           r == SubSeq(t, 1, i + j)
<1>0. Len(t) \in Nat
  OBVIOUS
<1>1. p \in Seq(S) /\ Len(p) = i /\ \A k \in 1..i : p[k] = t[k]
  BY <1>0
<1>2. r \in Seq(S) /\ Len(r) = i + j /\ \A k \in 1..(i + j) : r[k] = t[k]
  BY <1>0
<1>3. q \in Seq(S) /\ Len(q) = j /\ \A k \in 1..j : q[k] = t[i + k]
  <2> DEFINE f == [k \in 1..j |-> t[i + k]]
  <2>1. \A k \in 1..j : i + k \in 1..Len(t)
    BY <1>0
  <2>2. \A k \in 1..j : f[k] \in S
    BY <2>1
  <2>3. q = [k \in 1..j |-> f[k]]
    OBVIOUS
  <2> HIDE DEF q, f
  <2>4. q \in Seq(S) /\ Len(q) = j /\ \A k \in 1..j : q[k] = f[k]
    BY <2>2, <2>3, ListOf
  <2> QED  BY <2>4 DEF f
<1> HIDE DEF p, q, r
<1>4. /\ p \o q \in Seq(S) /\ Len(p \o q) = i + j
      /\ \A k \in 1..(i + j) : (p \o q)[k] = IF k <= i THEN p[k] ELSE q[k - i]
  BY <1>1, <1>3, ConcatProperties
<1>5. ASSUME NEW k \in 1..(i + j) PROVE (p \o q)[k] = r[k]
  <2>1. CASE k <= i
    BY <1>1, <1>2, <1>4, <2>1
  <2>2. CASE ~(k <= i)
    <3>1. k - i \in 1..j /\ i + (k - i) = k
      BY <2>2
    <3>2. q[k - i] = t[k]
      BY <1>3, <3>1
    <3> QED  BY <1>2, <1>4, <2>2, <3>2
  <2> QED  BY <2>1, <2>2
<1>6. p \o q = r
  BY <1>2, <1>4, <1>5, SameList
<1> QED  BY <1>6 DEF p, q, r

Memory == [Addresses -> 0..255]

(* The sequence s is the n bytes of a memory at a.                         *)
Spells(s, m, a, n) ==
  s \in Seq(0..255) /\ Len(s) = n /\ \A k \in 1..n : s[k] = m[a + k - 1]
Area(a, n) == a..(a + n - 1) \subseteq Addresses

LEMMA ListSpells ==
  ASSUME NEW m \in Memory, NEW a \in Nat, NEW n \in Nat, Area(a, n)
  PROVE  Spells([k \in 1..n |-> m[a + k - 1]], m, a, n)
<1> DEFINE f == [k \in 1..n |-> m[a + k - 1]]
           s == [k \in 1..n |-> f[k]]
<1>1. \A k \in 1..n : a + k - 1 \in a..(a + n - 1)
  OBVIOUS
<1>2. \A k \in 1..n : f[k] \in 0..255 /\ f[k] = m[a + k - 1]
  BY <1>1 DEF Area, Memory
<1>3. f = s
  OBVIOUS
<1> HIDE DEF f
<1>4. s \in Seq(0..255) /\ Len(s) = n /\ \A k \in 1..n : s[k] = f[k]
  BY <1>2, ListOf
<1> HIDE DEF s
<1>5. Spells(s, m, a, n)
  BY <1>2, <1>4 DEF Spells
<1> QED  BY <1>3, <1>5 DEF f

(* A string of the memory is a sequence of bytes.                          *)
LEMMA StringIsList ==
  ASSUME NEW m \in Memory, NEW a, NEW z, EndsAt(m, a, z)
  PROVE  /\ Spells(StringAt(m, a), m, a, z - a)
         /\ a \in Nat /\ z - a \in Nat /\ Area(a, z - a + 1)
<1>1. /\ a \in Nat /\ z \in Nat /\ a <= z /\ a..z \subseteq Addresses
  BY DEF EndsAt, Memory
<1>2. StringAt(m, a) = [k \in 1..(z - a) |-> m[a + k - 1]]
  <2>1. DOMAIN m \subseteq Nat
    BY MemoryAssumption DEF Memory
  <2> QED  BY <2>1, StringIs
<1>3. PICK n \in Nat : n = z - a
  BY <1>1
<1>4. a + (n + 1) - 1 = z /\ a..(a + n - 1) \subseteq a..z
  BY <1>1, <1>3
<1>5. Area(a, n) /\ Area(a, n + 1)
  BY <1>1, <1>4 DEF Area
<1>6. Spells([k \in 1..n |-> m[a + k - 1]], m, a, n)
  BY <1>1, <1>5, ListSpells
<1> QED  BY <1>1, <1>2, <1>3, <1>5, <1>6

LEMMA RoomIs ==
  ASSUME Inv, NEW a \in InBlock
  PROVE  /\ a \in Nat /\ RoomAt(a) \in Nat \ {0}
         /\ a..(a + RoomAt(a) - 1) \subseteq Addresses /\ a..(a + RoomAt(a) - 1) \subseteq InBlock
<1>1. held \subseteq Blocks /\ mapped \subseteq Addresses /\ InBlock \subseteq mapped /\ Addresses \subseteq Nat \ {0}
  BY MemoryAssumption DEF Inv, TypeOK, HeapAgrees, HeldIsMapped
<1>2. \E x \in Usable : a \in Cells(x)
  BY DEF InBlock
<1>3. PICK b \in Usable : a \in Cells(b) /\ RoomAt(a) = b.start + b.len - a
  <2> DEFINE b == CHOOSE x \in Usable : a \in Cells(x)
  <2>1. b \in Usable /\ a \in Cells(b)
    BY <1>2
  <2>2. RoomAt(a) = b.start + b.len - a
    BY DEF RoomAt
  <2> QED  BY <2>1, <2>2
<1>4. b.start \in Int /\ b.len \in Nat /\ b.start > 0
  BY <1>1 DEF Usable, Blocks
<1>5. Cells(b) \subseteq InBlock
  BY DEF InBlock
<1>6. a \in b.start..(b.start + b.len - 1)
  BY <1>3 DEF Cells
<1>7. a \in Nat /\ RoomAt(a) \in Nat \ {0} /\ a + RoomAt(a) - 1 = b.start + b.len - 1
  BY <1>3, <1>4, <1>6
<1>8. a..(a + RoomAt(a) - 1) \subseteq Cells(b)
  BY <1>4, <1>6, <1>7 DEF Cells
<1> QED  BY <1>1, <1>5, <1>7, <1>8

LEMMA StringEnds ==
  ASSUME Inv, NEW a \in Strings
  PROVE  \E z \in a..(a + RoomAt(a) - 1) : EndsAt(mem, a, z)
<1>1. a \in InBlock /\ Terminated(a)
  BY DEF Strings
<1>2. PICK p \in a..(a + RoomAt(a) - 1) : mem[p] = 0
  BY <1>1 DEF Terminated
<1>3. /\ a \in Nat /\ RoomAt(a) \in Nat /\ a..(a + RoomAt(a) - 1) \subseteq Addresses
  BY <1>1, RoomIs
<1>4. p \in Nat /\ a <= p /\ a..p \subseteq a..(a + RoomAt(a) - 1)
  BY <1>3
<1>5. DOMAIN mem = Addresses
  BY DEF Inv, TypeOK
<1>6. PICK z \in a..p : EndsAt(mem, a, z)
  BY <1>2, <1>3, <1>4, <1>5, HasATerminator
<1> QED  BY <1>4, <1>6

----------------------------------------------------------------------------
(* puts and the wrappers.                                                  *)

(* While puts runs, the string it was given is there, and what it has      *)
(* written of it so far is as long as it believes.                         *)
PutsInv ==
  /\ run \in {"puts", "printed"} => \E z \in Nat : EndsAt(mem, todo.str, z) /\ todo.size = z - todo.str
  /\ run = "puts" /\ refused = 0 => todo.total \in 0..todo.size
  /\ PutsPrints

LEMMA ToIntIs ==
  ASSUME NEW x \in Int, -IntHalf <= x, x < IntHalf PROVE ToInt(x) = x
<1>1. IntHalf \in Nat \ {0}
  BY ProgramAssumption
<1> DEFINE y == x + IntHalf
           w == 2 * IntHalf
<1>2. y \in Nat /\ w \in Nat \ {0} /\ y < w
  BY <1>1
<1>3. ToInt(x) = (y % w) - IntHalf /\ y - IntHalf = x
  BY <1>1 DEF ToInt
<1> HIDE DEF y, w
<1>4. y % w = y
  BY <1>2
<1> QED  BY <1>3, <1>4

LEMMA ReportedIs ==
  ASSUME NEW answer \in Answers
  PROVE  /\ answer < 0 => Reports(answer) = <<-1, -answer>>
         /\ answer \in 0..(IntHalf - 1) => Reports(answer) = <<answer, errno>>
<1>1. answer \in Int /\ IntHalf \in Nat \ {0} /\ -IntHalf <= answer
  BY ProgramAssumption
<1>2. answer < IntHalf => ToInt(answer) = answer
  BY <1>1, ToIntIs
<1> QED  BY <1>1, <1>2 DEF Reports

LEMMA SystemCallReports == ASSUME Inv, SystemCall PROVE CallsReport'
<1> DEFINE Call(answer, r) ==
      /\ last' = [name |-> r[1], answer |-> answer, ret |-> r[2][1]] /\ errno' = r[2][2]
<1>1. PICK answer \in Answers :
        \E r \in {<<"open", open(answer)>>, <<"close", close(answer)>>, <<"read", read(answer)>>,
                  <<"write", write(answer)>>, <<"lseek", lseek(answer)>>,
                  <<"truncate", truncate(answer)>>, <<"ftruncate", ftruncate(answer)>>,
                  <<"stat", stat(answer)>>, <<"fstat", fstat(answer)>>,
                  <<"nanosleep", nanosleep(answer)>>, <<"sleep", sleep(answer)>>} : Call(answer, r)
  BY DEF SystemCall
<1>2. PICK name, pair : /\ Call(answer, <<name, pair>>)
                        /\ pair = IF name = "sleep" THEN sleep(answer) ELSE Reports(answer)
  <2> HIDE DEF Call
  <2> QED  BY <1>1 DEF open, close, read, write, lseek, truncate, ftruncate, stat, fstat, nanosleep
<1>3. last'.name = name /\ last'.answer = answer /\ last'.ret = pair[1] /\ errno' = pair[2]
  <2>1. \A r : r = <<name, pair>> => r[1] = name /\ r[2] = pair
    OBVIOUS
  <2> QED  BY <2>1, <1>2
<1>4. answer \in Int /\ IntHalf \in Nat \ {0}
  BY ProgramAssumption
<1>5. CASE answer < 0
  <2>1. Reports(answer) = <<-1, -answer>>
    BY <1>5, ReportedIs
  <2>2. pair = IF name = "sleep" THEN <<-1, 1>> ELSE <<-1, -answer>>
    BY <1>2, <2>1 DEF sleep, nanosleep
  <2>3. pair[1] = -1 /\ (name = "sleep" \/ pair[2] = -answer)
    BY <2>2
  <2> QED  BY <1>3, <1>4, <1>5, <2>3 DEF CallsReport
<1>6. CASE answer \in 0..(IntHalf - 1)
  <2>1. Reports(answer) = <<answer, errno>>
    BY <1>6, ReportedIs
  <2>2. ~(answer < 0)
    BY <1>6
  <2>3. pair = <<answer, errno>>
    BY <1>2, <2>1, <2>2 DEF sleep, nanosleep
  <2> QED  BY <1>3, <2>2, <2>3 DEF CallsReport
<1>7. CASE ~(answer < 0) /\ answer \notin 0..(IntHalf - 1)
  BY <1>3, <1>7 DEF CallsReport
<1> QED  BY <1>5, <1>6, <1>7

LEMMA ReportStep == Inv /\ CallsReport /\ [Next]_vars => CallsReport'
<1> SUFFICES ASSUME Inv, CallsReport, [Next]_vars PROVE CallsReport'
  OBVIOUS
<1>1. CASE last' = NoCall
  BY <1>1 DEF CallsReport, NoCall
<1>2. CASE UNCHANGED <<last, errno>>
  BY <1>2 DEF CallsReport
<1>3. CASE SystemCall
  BY <1>3, SystemCallReports
<1>4. Heap \/ (\E a, v : Store(a, v)) \/ (\E s : PutsStart(s)) => last' = NoCall
  BY DEF Heap, Store, PutsStart
<1>5. PutsWrite \/ PutsEnd \/ PutsReturn \/ UNCHANGED vars => UNCHANGED <<last, errno>>
  BY DEF PutsWrite, PutsEnd, PutsReturn, vars, heapVars
<1> QED  BY <1>1, <1>2, <1>3, <1>4, <1>5 DEF Next

LEMMA HeapRuns == ASSUME run = "runs", Heap PROVE run' \notin {"puts", "printed"}
<1>1. ASSUME NEW how \in {"exited", "fault"}, Ends(how) PROVE run' \notin {"puts", "printed"}
  BY <1>1 DEF Ends
<1>2. Fault \/ Return => run' \notin {"puts", "printed"}
  BY <1>1 DEF Fault, Return
<1>3. \A size : Malloc(size) => run' \notin {"puts", "printed"}
  BY <1>2 DEF Malloc, heapVars
<1>4. \A size : Calloc(1, size) => run' \notin {"puts", "printed"}
  BY <1>2 DEF Calloc, heapVars
<1>5. \A ptr : FreeBlock(ptr) => run' \notin {"puts", "printed"}
  BY <1>2 DEF FreeBlock
<1>6. \A ptr, size : Realloc(ptr, size) => run' \notin {"puts", "printed"}
  BY <1>2 DEF Realloc
<1> QED  BY <1>2, <1>3, <1>4, <1>5, <1>6 DEF Heap, reallocarray

LEMMA StartPrints ==
  ASSUME Inv, NEW s \in Strings, PutsStart(s) PROVE PutsInv'
<1>1. PICK z \in Nat : EndsAt(mem, s, z)
  <2>1. s \in InBlock
    BY DEF Strings
  <2> QED  BY <2>1, StringEnds, RoomIs
<1>2. mem \in Memory /\ mem' = mem
  BY DEF Inv, TypeOK, PutsStart, Memory
<1>3. StringAt(mem, s) \in Seq(0..255) /\ z - s \in Nat
  BY <1>1, <1>2, StringIsList DEF Spells
<1>4. todo'.str = s /\ todo'.size = z - s /\ todo'.total = 0 /\ output' = <<>> /\ run' = "puts"
  BY <1>1, StrlenIs DEF PutsStart
<1>5. SubSeq(Str(todo.str)', 1, 0) = <<>>
  BY <1>3, SubSeqEmpty
<1> QED  BY <1>1, <1>2, <1>3, <1>4, <1>5 DEF PutsInv, PutsPrints

LEMMA WritePrints ==
  ASSUME Inv, PutsInv, PutsWrite PROVE PutsInv'
<1>1. mem \in Memory /\ mem' = mem /\ refused \in Nat /\ DOMAIN todo = DOMAIN NoString
      /\ todo.total \in Int /\ run = "puts"
  BY MemoryAssumption DEF Inv, TypeOK, PutsWrite, Memory
<1>2. PICK z \in Nat : EndsAt(mem, todo.str, z) /\ todo.size = z - todo.str
  BY <1>1 DEF PutsInv
<1> DEFINE a == todo.str
           i == todo.total
           t == StringAt(mem, a)
<1>3. /\ t \in Seq(0..255) /\ Len(t) = todo.size /\ todo.size \in Nat /\ a \in Nat
      /\ \A k \in 1..todo.size : t[k] = mem[a + k - 1]
  <2>1. Spells(t, mem, a, todo.size) /\ a \in Nat /\ todo.size \in Nat
    BY <1>1, <1>2, StringIsList
  <2> HIDE DEF t, a
  <2> QED  BY <2>1 DEF Spells
<1>4. todo'.str = a /\ todo'.size = todo.size /\ run' # "printed"
  BY <1>1 DEF PutsWrite, NoString
<1>5. CASE Refuse
  <2>1. refused' # 0
    BY <1>1, <1>5 DEF Refuse
  <2> QED  BY <1>1, <1>2, <1>4, <2>1 DEF PutsInv, PutsPrints
<1>6. CASE UNCHANGED <<refused, run>> /\ refused # 0
  BY <1>1, <1>2, <1>4, <1>6 DEF PutsInv, PutsPrints
<1>7. ASSUME UNCHANGED <<refused, run>>, refused = 0,
             NEW n \in 1..(todo.size - i), todo' = [todo EXCEPT !.total = Adds(@, n)],
             output' = output \o [k \in 1..n |-> mem[(a + i) + k - 1]]
      PROVE  PutsInv'
  <2>1. i \in 0..todo.size /\ output = SubSeq(t, 1, i)
    BY <1>1, <1>7 DEF PutsInv, PutsPrints, Str
  <2>2. n \in Nat /\ i \in Nat /\ i + n <= Len(t) /\ i + n \in 0..todo.size
    BY <1>3, <1>7, <2>1
  <2>3. ASSUME NEW k \in 1..n PROVE mem[(a + i) + k - 1] = t[i + k]
    <3>1. a \in Nat /\ todo.size \in Nat /\ i + n <= todo.size
      BY <1>3, <2>2
    <3> HIDE DEF t, i, a
    <3>2. i + k \in 1..todo.size /\ (a + i) + k - 1 = a + (i + k) - 1
      BY <2>2, <3>1
    <3> QED  BY <1>3, <3>2
  <2>4. [k \in 1..n |-> mem[(a + i) + k - 1]] = [k \in 1..n |-> t[i + k]]
    BY <2>3
  <2>5. todo'.total = i + n
    BY <1>1, <1>7 DEF Adds, NoString
  <2>6. output' = SubSeq(t, 1, i + n)
    <3> HIDE DEF t, i, a
    <3> QED  BY <1>3, <1>7, <2>1, <2>2, <2>4, PrefixGrows
  <2>7. Str(todo.str)' = t
    BY <1>1, <1>4 DEF Str
  <2> HIDE DEF t, i
  <2> QED  BY <1>1, <1>2, <1>4, <1>7, <2>2, <2>5, <2>6, <2>7 DEF PutsInv, PutsPrints
<1> QED  BY <1>5, <1>6, <1>7 DEF PutsWrite

LEMMA EndPrints ==
  ASSUME Inv, PutsInv, PutsEnd PROVE PutsInv'
<1>1. mem \in Memory /\ mem' = mem /\ run = "puts" /\ run' = "printed"
      /\ todo' = todo /\ refused' = refused
  BY DEF Inv, TypeOK, PutsEnd, Memory
<1>2. PICK z \in Nat : EndsAt(mem, todo.str, z) /\ todo.size = z - todo.str
  BY <1>1 DEF PutsInv
<1>3. Str(todo.str) \in Seq(0..255) /\ Len(Str(todo.str)) = todo.size /\ todo.size \in Nat
  <2>1. Spells(Str(todo.str), mem, todo.str, todo.size) /\ todo.size \in Nat
    BY <1>1, <1>2, StringIsList DEF Str
  <2> QED  BY <2>1 DEF Spells
<1>4. refused = 0 => output = Str(todo.str)
  <2>1. SUFFICES ASSUME refused = 0 PROVE output = Str(todo.str)
    OBVIOUS
  <2>2. todo.total = todo.size
    BY <1>1, <1>3, <2>1 DEF PutsInv, PutsEnd
  <2>3. output = SubSeq(Str(todo.str), 1, todo.size)
    BY <1>1, <2>1, <2>2 DEF PutsInv, PutsPrints
  <2> QED  BY <1>3, <2>3, SubSeqFull
<1>5. output' = Append(output, Newline) /\ Str(todo.str)' = Str(todo.str)
  BY <1>1 DEF PutsEnd, Str
<1> QED  BY <1>1, <1>2, <1>4, <1>5 DEF PutsInv, PutsPrints

LEMMA PutsStep == Inv /\ PutsInv /\ [Next]_vars => PutsInv'
<1> SUFFICES ASSUME Inv, PutsInv, [Next]_vars PROVE PutsInv'
  OBVIOUS
<1>1. CASE run' \notin {"puts", "printed"}
  BY <1>1 DEF PutsInv, PutsPrints
<1>2. CASE run = "runs" /\ (Heap \/ SystemCall \/ \E a \in InBlock, v \in Bytes : Store(a, v))
  <2>1. SystemCall \/ (\E a, v : Store(a, v)) => run' = run
    BY DEF SystemCall, Store
  <2> QED  BY <1>1, <1>2, <2>1, HeapRuns
<1>3. CASE \E s \in Strings : PutsStart(s)
  BY <1>3, StartPrints
<1>4. CASE PutsWrite
  BY <1>4, WritePrints
<1>5. CASE PutsEnd
  BY <1>5, EndPrints
<1>6. CASE PutsReturn
  BY <1>1, <1>6 DEF PutsReturn
<1>7. CASE UNCHANGED vars
  BY <1>7 DEF vars, heapVars, PutsInv, PutsPrints, Str
<1> QED  BY <1>2, <1>3, <1>4, <1>5, <1>6, <1>7 DEF Next

\* However the kernel cuts the writes, puts prints the string once, in order
\* and with a newline, unless a write is refused; and a wrapper returns -1 with
\* the kernel's error number, or the answer if an int can hold it.
THEOREM CallersAreToldTheTruth == Spec => []CallsAgree
<1>1. Init => PutsInv /\ CallsReport
  BY DEF Init, HeapInit, PutsInv, PutsPrints, CallsReport, NoCall
<1>2. PutsInv /\ CallsReport => CallsAgree
  BY DEF PutsInv, CallsAgree
<1> QED  BY <1>1, <1>2, InvInit, InvNext, PutsStep, ReportStep, PTL DEF Spec

----------------------------------------------------------------------------
(* What the copying routines do to a memory, all at once.                  *)
Carried(m, d, s, n) ==
  [x \in Addresses |-> IF x \in d..(d + n - 1) THEN m[s + (x - d)] ELSE m[x]]
Put(m, a, byte) == [m EXCEPT ![a] = byte]
(* The first n bytes at s and a terminator, at e.                          *)
Ended(m, e, s, n) == Put(Carried(m, e, s, n), e + n, 0)
(* The n bytes at d are those at s, and no others have changed.            *)
Copies(w, m, d, s, n) == \A k \in 1..n : w[d + k - 1] = m[s + k - 1]
Keeps(w, m, d, n) == \A x \in Addresses \ (d..(d + n - 1)) : w[x] = m[x]

LEMMA CarriedByOne ==
  ASSUME NEW m \in Memory, NEW d \in Nat, NEW s \in Nat, NEW n \in Nat,
         Area(d, n + 1), Area(s, n + 1), Apart(d, n + 1, s, n + 1)
  PROVE  Carried(m, d, s, n + 1) = Put(Carried(m, d, s, n), d + n, Carried(m, d, s, n)[s + n])
<1>1. s + n \in s..(s + (n + 1) - 1) /\ d + n \in d..(d + (n + 1) - 1)
  OBVIOUS
<1>2. s + n \in Addresses /\ d + n \in Addresses
  BY <1>1 DEF Area
<1>3. s + n \notin d..(d + n - 1)
  BY DEF Apart
<1>4. Carried(m, d, s, n)[s + n] = m[s + n]
  BY <1>2, <1>3 DEF Carried
<1>5. ASSUME NEW x \in Addresses
      PROVE  Carried(m, d, s, n + 1)[x] = IF x = d + n THEN m[s + n] ELSE Carried(m, d, s, n)[x]
  <2>1. x \in Nat
    BY MemoryAssumption
  <2>2. CASE x = d + n
    <3>1. x \in d..(d + (n + 1) - 1) /\ s + (x - d) = s + n
      BY <2>2
    <3> QED  BY <2>2, <3>1 DEF Carried
  <2>3. CASE x # d + n
    <3>1. x \in d..(d + (n + 1) - 1) <=> x \in d..(d + n - 1)
      BY <2>1, <2>3
    <3> QED  BY <2>3, <3>1 DEF Carried
  <2> QED  BY <2>2, <2>3
<1>6. Carried(m, d, s, n + 1) = [x \in Addresses |-> Carried(m, d, s, n + 1)[x]]
  BY DEF Carried
<1>7. Put(Carried(m, d, s, n), d + n, m[s + n])
      = [x \in Addresses |-> IF x = d + n THEN m[s + n] ELSE Carried(m, d, s, n)[x]]
  <2>1. Carried(m, d, s, n) = [x \in Addresses |-> Carried(m, d, s, n)[x]]
    BY DEF Carried
  <2> QED  BY <2>1 DEF Put
<1> QED  BY <1>4, <1>5, <1>6, <1>7

LEMMA MemcpyIs ==
  ASSUME NEW m \in Memory, NEW d \in Nat, NEW s \in Nat, NEW n \in Nat,
         Area(d, n), Area(s, n), Apart(d, n, s, n)
  PROVE  memcpy(m, d, s, n) = Carried(m, d, s, n)
<1> DEFINE Step(g, i) == IF i = 0 THEN m ELSE Put(g[i - 1], d + i - 1, g[i - 1][s + i - 1])
           Is(g) == g = [i \in 0..n |-> Step(g, i)]
           c == [i \in 0..n |-> Carried(m, d, s, i)]
           f == CHOOSE g : Is(g)
<1>1. Carried(m, d, s, 0) = m
  <2>0. m = [x \in Addresses |-> m[x]]
    BY DEF Memory
  <2>1. \A x \in Addresses : Carried(m, d, s, 0)[x] = m[x]
    <3>1. d..(d + 0 - 1) = {}
      OBVIOUS
    <3> QED  BY <3>1 DEF Carried
  <2>2. Carried(m, d, s, 0) = [x \in Addresses |-> Carried(m, d, s, 0)[x]]
    BY DEF Carried
  <2> QED  BY <2>0, <2>1, <2>2
<1>2. ASSUME NEW i \in 1..n
      PROVE  Carried(m, d, s, i)
             = Put(Carried(m, d, s, i - 1), d + i - 1, Carried(m, d, s, i - 1)[s + i - 1])
  <2>1. PICK k \in Nat : i = k + 1 /\ k = i - 1 /\ d + i - 1 = d + k /\ s + i - 1 = s + k
    BY Z3
  <2>2. Area(d, k + 1) /\ Area(s, k + 1) /\ Apart(d, k + 1, s, k + 1)
    <3>1. d..(d + (k + 1) - 1) \subseteq d..(d + n - 1) /\ s..(s + (k + 1) - 1) \subseteq s..(s + n - 1)
      BY <2>1
    <3>2. Apart(d, k + 1, s, k + 1)
      BY <2>1 DEF Apart
    <3> QED  BY <3>1, <3>2 DEF Area
  <2>3. Carried(m, d, s, k + 1) = Put(Carried(m, d, s, k), d + k, Carried(m, d, s, k)[s + k])
    BY <2>2, CarriedByOne
  <2> QED  BY <2>1, <2>3
<1>3. \A i \in 0..n : c[i] = Carried(m, d, s, i)
  OBVIOUS
<1>4. c = [i \in 0..n |-> Step(c, i)]
  <2>1. ASSUME NEW i \in 0..n PROVE Step(c, i) = Carried(m, d, s, i)
    <3>1. CASE i = 0
      BY <1>1, <3>1
    <3>2. CASE i # 0
      <4>1. i \in 1..n /\ i - 1 \in 0..n
        BY <3>2
      <4>2. c[i - 1] = Carried(m, d, s, i - 1)
        BY <1>3, <4>1
      <4> HIDE DEF c
      <4>3. Step(c, i) = Put(Carried(m, d, s, i - 1), d + i - 1, Carried(m, d, s, i - 1)[s + i - 1])
        BY <3>2, <4>2
      <4> QED  BY <1>2, <4>1, <4>3
    <3> QED  BY <3>1, <3>2
  <2> HIDE DEF Step
  <2> QED  BY <2>1
<1>5. Is(f)
  <2> HIDE DEF c, Step
  <2>1. Is(c)
    BY <1>4
  <2> QED  BY <2>1
<1>6. memcpy(m, d, s, n) = f[n]
  BY DEF memcpy, Put
<1> HIDE DEF f, c
<1>7. ASSUME NEW i \in 0..n PROVE f[i] = Step(f, i)
  <2> HIDE DEF Step
  <2> QED  BY <1>5
<1> HIDE DEF Is
<1> DEFINE A == {i \in 0..n : f[i] # Carried(m, d, s, i)}
<1>8. SUFFICES ASSUME A # {} PROVE FALSE
  BY <1>6
<1>9. A \in SUBSET Nat
  OBVIOUS
<1>10. PICK i \in A : \A j \in A : i <= j
  BY <1>8, <1>9, HasALeast
<1>11. i \in 0..n /\ f[i] # Carried(m, d, s, i)
  OBVIOUS
<1>12. i # 0
  BY <1>1, <1>7, <1>11
<1>13. i \in 1..n /\ i - 1 \in 0..n /\ i - 1 \notin A
  BY <1>10, <1>11, <1>12
<1>14. f[i - 1] = Carried(m, d, s, i - 1)
  BY <1>13
<1>15. f[i] = Put(Carried(m, d, s, i - 1), d + i - 1, Carried(m, d, s, i - 1)[s + i - 1])
  BY <1>7, <1>11, <1>12, <1>14
<1> QED  BY <1>2, <1>11, <1>13, <1>15

LEMMA CarriedWrites ==
  ASSUME NEW m \in Memory, NEW d \in Nat, NEW s \in Nat, NEW n \in Nat,
         Area(d, n), Area(s, n)
  PROVE  /\ Carried(m, d, s, n) \in Memory
         /\ Copies(Carried(m, d, s, n), m, d, s, n) /\ Keeps(Carried(m, d, s, n), m, d, n)
<1>1. ASSUME NEW x \in d..(d + n - 1) PROVE m[s + (x - d)] \in 0..255
  <2>1. s + (x - d) \in s..(s + n - 1)
    OBVIOUS
  <2> QED  BY <2>1 DEF Area, Memory
<1>2. Carried(m, d, s, n) \in Memory
  BY <1>1 DEF Carried, Memory
<1>3. ASSUME NEW k \in 1..n PROVE Carried(m, d, s, n)[d + k - 1] = m[s + k - 1]
  <2>1. d + k - 1 \in d..(d + n - 1) /\ s + ((d + k - 1) - d) = s + k - 1
    OBVIOUS
  <2>2. d + k - 1 \in Addresses
    BY <2>1 DEF Area
  <2> QED  BY <2>1, <2>2 DEF Carried
<1>4. \A x \in Addresses \ (d..(d + n - 1)) : Carried(m, d, s, n)[x] = m[x]
  BY DEF Carried
<1> QED  BY <1>2, <1>3, <1>4 DEF Copies, Keeps

LEMMA EndedWrites ==
  ASSUME NEW m \in Memory, NEW e \in Nat, NEW s \in Nat, NEW n \in Nat,
         Area(e, n + 1), Area(s, n)
  PROVE  /\ Ended(m, e, s, n) \in Memory
         /\ Copies(Ended(m, e, s, n), m, e, s, n) /\ Ended(m, e, s, n)[e + n] = 0
         /\ Keeps(Ended(m, e, s, n), m, e, n + 1)
<1>1. e..(e + n - 1) \subseteq e..(e + (n + 1) - 1) /\ e + n \in e..(e + (n + 1) - 1)
  OBVIOUS
<1>2. Area(e, n) /\ e + n \in Addresses
  BY <1>1 DEF Area
<1> DEFINE w == Carried(m, e, s, n)
<1>3. w \in Memory /\ Copies(w, m, e, s, n) /\ Keeps(w, m, e, n)
  BY <1>2, CarriedWrites
<1> HIDE DEF w
<1>4. Ended(m, e, s, n) = [w EXCEPT ![e + n] = 0]
  BY DEF Ended, Put, w
<1>5. ASSUME NEW k \in 1..n PROVE e + k - 1 # e + n /\ e + k - 1 \in Addresses
  <2>1. e + k - 1 \in e..(e + n - 1)
    OBVIOUS
  <2> QED  BY <1>2, <2>1 DEF Area
<1>6. \A x \in Addresses \ (e..(e + (n + 1) - 1)) : x \notin e..(e + n - 1) /\ x # e + n
  OBVIOUS
<1> DEFINE v == Ended(m, e, s, n)
<1>7. /\ v \in Memory /\ v[e + n] = 0
      /\ \A x \in Addresses : x # e + n => v[x] = w[x]
  BY <1>2, <1>3, <1>4 DEF Memory
<1> HIDE DEF v
<1>8. Copies(v, m, e, s, n) /\ Keeps(v, m, e, n + 1)
  BY <1>3, <1>5, <1>6, <1>7 DEF Copies, Keeps
<1> QED  BY <1>7, <1>8 DEF v

LEMMA EndsThere ==
  ASSUME NEW m \in Memory, NEW a \in Nat, NEW z \in Nat, a <= z, a..z \subseteq Addresses,
         m[z] = 0, \A p \in a..(z - 1) : m[p] # 0
  PROVE  EndsAt(m, a, z)
BY DEF EndsAt, Memory

(* The bytes from d up to e are u, and no terminator is among them.        *)
Leads(u, m, d, e) ==
  /\ d <= e /\ d..(e - 1) \subseteq Addresses /\ Spells(u, m, d, e - d)
  /\ \A p \in d..(e - 1) : m[p] # 0

Joined(u, t, n) == u \o SubSeq(t, 1, n)

(* A string goes on, at e, with the first n bytes of the one at s.         *)
LEMMA EndedReads ==
  ASSUME NEW m \in Memory, NEW d \in Nat, NEW e \in Nat, NEW s \in Nat, NEW z \in Nat, NEW n \in Nat,
         EndsAt(m, s, z), n <= z - s, NEW u, Leads(u, m, d, e), Area(e, n + 1)
  PROVE  StringAt(Ended(m, e, s, n), d) = Joined(u, StringAt(m, s), n)
<1> DEFINE w == Ended(m, e, s, n)
           t == StringAt(m, s)
           r == StringAt(w, d)
<1>0. PICK q \in Nat : q = e - d /\ e = d + q
  BY DEF Leads
<1>1. /\ s \in Nat /\ z \in Nat /\ s..z \subseteq Addresses /\ \A p \in s..(z - 1) : m[p] # 0
  BY DEF EndsAt, Memory
<1>2. Area(s, n) /\ d..(e + n) \subseteq Addresses
  <2>1. \A x \in d..(e + n) : x \in d..(e - 1) \/ x \in e..(e + (n + 1) - 1)
    OBVIOUS
  <2>2. s..(s + n - 1) \subseteq s..z
    BY <1>1
  <2>3. d..(e + n) \subseteq Addresses
    BY <2>1 DEF Area, Leads
  <2> QED  BY <1>1, <2>2, <2>3 DEF Area
<1>3. /\ w \in Memory /\ w[e + n] = 0 /\ \A k \in 1..n : w[e + k - 1] = m[s + k - 1]
      /\ \A x \in Addresses \ (e..(e + n)) : w[x] = m[x]
  <2>0. s \in Nat
    BY <1>1
  <2>1. w \in Memory /\ Copies(w, m, e, s, n) /\ w[e + n] = 0 /\ Keeps(w, m, e, n + 1)
    BY <1>2, <2>0, EndedWrites
  <2>2. e + (n + 1) - 1 = e + n
    BY <1>2
  <2> HIDE DEF w
  <2> QED  BY <2>1, <2>2 DEF Copies, Keeps
<1>4. t \in Seq(0..255) /\ n <= Len(t) /\ Len(t) \in Nat /\ \A k \in 1..n : t[k] = m[s + k - 1]
  <2> DEFINE l == z - s
  <2>1. Spells(t, m, s, l) /\ l \in Nat
    BY StringIsList
  <2>2. n <= l
    OBVIOUS
  <2> HIDE DEF l, t
  <2> QED  BY <2>1, <2>2 DEF Spells
<1> HIDE DEF w, t
<1>5. ASSUME NEW p \in d..(e + n - 1) PROVE w[p] # 0
  <2>1. CASE p < e
    <3>1. p \in d..(e - 1) /\ p \in d..(e + n) /\ p \notin e..(e + n)
      BY <2>1
    <3> QED  BY <1>2, <1>3, <3>1 DEF Leads
  <2>2. CASE ~(p < e)
    <3> DEFINE k == p - e + 1
    <3>1. k \in 1..n /\ e + k - 1 = p /\ s + k - 1 \in s..(z - 1)
      BY <1>1, <2>2
    <3> HIDE DEF k
    <3> QED  BY <1>1, <1>3, <3>1
  <2> QED  BY <2>1, <2>2
<1>6. EndsAt(w, d, e + n)
  <2>1. e + n \in Nat /\ d <= e + n /\ DOMAIN w = Addresses
    BY <1>0, <1>3 DEF Memory
  <2>2. \A p \in d..((e + n) - 1) : w[p] # 0
    <3>1. (e + n) - 1 = e + n - 1
      BY <1>2
    <3> QED  BY <1>5, <3>1
  <2> QED  BY <1>2, <1>3, <2>1, <2>2, EndsThere
<1>8. Spells(r, w, d, q + n)
  <2>1. (e + n) - d = q + n
    BY <1>0
  <2> QED  BY <1>3, <1>6, <2>1, StringIsList
<1>9. u \in Seq(0..255) /\ Len(u) = q /\ \A k \in 1..q : u[k] = m[d + k - 1]
  BY <1>0 DEF Leads, Spells
<1> DEFINE v == SubSeq(t, 1, n)
<1>10. v \in Seq(0..255) /\ Len(v) = n /\ \A k \in 1..n : v[k] = t[k]
  BY <1>4, PrefixIs
<1> HIDE DEF v, r
<1>11. /\ u \o v \in Seq(0..255) /\ Len(u \o v) = q + n
       /\ \A k \in 1..(q + n) : (u \o v)[k] = IF k <= q THEN u[k] ELSE v[k - q]
  <2> DEFINE uv == u \o v
  <2>1. /\ uv \in Seq(0..255) /\ Len(uv) = Len(u) + Len(v)
        /\ \A k \in 1..(Len(u) + Len(v)) : uv[k] = IF k <= Len(u) THEN u[k] ELSE v[k - Len(u)]
    BY <1>9, <1>10, ConcatProperties, ZenonT(30)
  <2> HIDE DEF uv
  <2>2. uv \in Seq(0..255) /\ Len(uv) = q + n /\ \A k \in 1..(q + n) : uv[k] = IF k <= q THEN u[k] ELSE v[k - q]
    BY <1>9, <1>10, <2>1
  <2> QED  BY <2>2 DEF uv
<1>12. ASSUME NEW k \in 1..(q + n) PROVE r[k] = (u \o v)[k]
  <2>0. r[k] = w[d + k - 1]
    BY <1>8 DEF Spells
  <2>1. CASE k <= q
    <3>1. d + k - 1 \in d..(e + n) /\ d + k - 1 \notin e..(e + n) /\ k \in 1..q
      BY <1>0, <2>1
    <3>2. w[d + k - 1] = m[d + k - 1]
      BY <1>2, <1>3, <3>1
    <3> QED  BY <1>9, <1>11, <2>0, <2>1, <3>1, <3>2
  <2>2. CASE ~(k <= q)
    <3>1. k - q \in 1..n /\ e + (k - q) - 1 = d + k - 1
      BY <1>0, <2>2
    <3>2. w[d + k - 1] = m[s + (k - q) - 1]
      BY <1>3, <3>1
    <3> QED  BY <1>4, <1>10, <1>11, <2>0, <2>2, <3>1, <3>2
  <2> QED  BY <2>1, <2>2
<1>13. r = u \o v
  <2>1. r \in Seq(0..255) /\ Len(r) = q + n
    BY <1>8 DEF Spells
  <2> DEFINE uv == u \o v
  <2>2. uv \in Seq(0..255) /\ Len(r) = Len(uv) /\ \A k \in 1..Len(r) : r[k] = uv[k]
    BY <1>11, <1>12, <2>1
  <2> HIDE DEF uv
  <2>3. r = uv
    BY <2>1, <2>2, SameList
  <2> QED  BY <2>3 DEF uv
<1> QED  BY <1>13 DEF r, w, t, v, Joined

(* A string of n bytes starts at a.                                       *)
HasLength(m, a, n) == EndsAt(m, a, a + n)

Fewer(l, n) == IF l < n THEN l ELSE n

LEMMA CountIs ==
  ASSUME NEW m, NEW s, NEW l \in Nat, EndsAt(m, s, s + l), NEW n \in Nat
  PROVE  Count(m, s, n) = Fewer(l, n)
<1> DEFINE Is(g) == g = [k \in 0..n |-> IF k = n \/ m[s + k] = 0 THEN k ELSE g[k + 1]]
           f == CHOOSE g : Is(g)
           D == 0..n
           S == {k \in D : k = n \/ m[s + k] = 0}
           v == [k \in D |-> k]
           z == Fewer(l, n)
<1>1. \A k \in D : v[k] = k /\ (k \in S <=> k = n \/ m[s + k] = 0)
  OBVIOUS
<1>2. D \in SUBSET Nat /\ S \in SUBSET D /\ \A k \in D \ S : k + 1 \in D
  OBVIOUS
<1>3. Count(m, s, n) = f[0]
  BY DEF Count
<1>4. s \in Nat /\ m[s + l] = 0 /\ \A p \in s..((s + l) - 1) : m[p] # 0
  BY DEF EndsAt
<1>5. z \in S /\ z \in Nat /\ 0..z \subseteq D
  BY <1>4 DEF Fewer
<1>6. \A k \in 0..(z - 1) : k \notin S
  <2>1. ASSUME NEW k \in 0..(z - 1) PROVE k # n /\ s + k \in s..((s + l) - 1)
    BY <1>4 DEF Fewer
  <2> QED  BY <1>4, <2>1
<1> HIDE DEF D, S, v, z, f
<1>7. \A g : LoopOver(D, S, v, g) <=> Is(g)
  <2>1. ASSUME NEW g
        PROVE  [k \in D |-> IF k \in S THEN v[k] ELSE g[k + 1]]
               = [k \in D |-> IF k = n \/ m[s + k] = 0 THEN k ELSE g[k + 1]]
    BY <1>1
  <2> QED  BY <2>1 DEF LoopOver, D
<1>8. Is(f)
  <2>1. \E g : Is(g)
    BY <1>2, <1>7, LoopExists
  <2> QED  BY <2>1 DEF f
<1>9. LoopOver(D, S, v, f)
  BY <1>7, <1>8
<1>10. f[0] = v[z]
  <2>1. RunsTo(D, S, 0, z)
    BY <1>5, <1>6 DEF RunsTo
  <2> QED  BY <1>2, <1>9, <2>1, LoopStops
<1>11. v[z] = z
  BY <1>1, <1>2, <1>5
<1> QED  BY <1>3, <1>10, <1>11 DEF z

LEMMA CarriesTheEnd ==
  ASSUME NEW m \in Memory, NEW e \in Nat, NEW s \in Nat, NEW l \in Nat, m[s + l] = 0,
         Area(e, l + 1), Area(s, l + 1), Apart(e, l + 1, s, l + 1)
  PROVE  memcpy(m, e, s, l + 1) = Ended(m, e, s, l)
<1>1. memcpy(m, e, s, l + 1) = Carried(m, e, s, l + 1)
  BY MemcpyIs
<1>2. Carried(m, e, s, l + 1) = Put(Carried(m, e, s, l), e + l, Carried(m, e, s, l)[s + l])
  BY CarriedByOne
<1>3. s + l \notin e..(e + l - 1) /\ s + l \in s..(s + (l + 1) - 1)
  BY DEF Apart
<1>4. Carried(m, e, s, l)[s + l] = 0
  BY <1>3 DEF Carried, Area
<1> QED  BY <1>1, <1>2, <1>4 DEF Ended

LEMMA StringArea ==
  ASSUME NEW m \in Memory, NEW s, NEW l \in Nat, EndsAt(m, s, s + l)
  PROVE  s \in Nat /\ strlen(m, s) = l /\ m[s + l] = 0 /\ Area(s, l + 1) /\ Area(s, l)
<1>1. s \in Nat /\ m[s + l] = 0 /\ s..(s + l) \subseteq Addresses
  BY DEF EndsAt, Memory
<1>2. s..(s + (l + 1) - 1) \subseteq s..(s + l) /\ s..(s + l - 1) \subseteq s..(s + l) /\ (s + l) - s = l
  BY <1>1
<1> QED  BY <1>1, <1>2, StrlenIs DEF Area

LEMMA StrcpyIs ==
  ASSUME NEW m \in Memory, NEW d \in Nat, NEW s, NEW l \in Nat, EndsAt(m, s, s + l),
         Area(d, l + 1), Apart(d, l + 1, s, l + 1)
  PROVE  strcpy(m, d, s) = Ended(m, d, s, l)
<1>1. s \in Nat /\ strlen(m, s) = l /\ m[s + l] = 0 /\ Area(s, l + 1)
  BY StringArea
<1> QED  BY <1>1, CarriesTheEnd DEF strcpy

LEMMA StrcatIs ==
  ASSUME NEW m \in Memory, NEW d \in Nat, NEW q \in Nat, HasLength(m, d, q),
         NEW s \in Nat, NEW l \in Nat, HasLength(m, s, l),
         Area(d, q + l + 1), Apart(d, q + l + 1, s, l + 1)
  PROVE  strcat(m, d, s) = Ended(m, d + q, s, l)
<1>1. s \in Nat /\ strlen(m, s) = l /\ m[s + l] = 0 /\ Area(s, l + 1)
  BY StringArea DEF HasLength
<1>2. d \in Nat /\ strlen(m, d) = q
  BY StringArea DEF HasLength
<1>3. d + q \in Nat /\ (d + q)..((d + q) + (l + 1) - 1) \subseteq d..(d + (q + l + 1) - 1)
  BY <1>2
<1>4. Area(d + q, l + 1)
  BY <1>3 DEF Area
<1>5. Apart(d + q, l + 1, s, l + 1)
  BY <1>1, <1>2 DEF Apart
<1> QED  BY <1>1, <1>2, <1>3, <1>4, <1>5, CarriesTheEnd DEF strcat

LEMMA StrncpyIs ==
  ASSUME NEW m \in Memory, NEW d \in Nat, NEW s, NEW l \in Nat, EndsAt(m, s, s + l), NEW n \in Nat,
         Area(d, n), Apart(d, n, s, l + 1)
  PROVE  strncpy(m, d, s, n) = IF l < n THEN Ended(m, d, s, l) ELSE Carried(m, d, s, n)
<1> DEFINE c == Fewer(l, n)
<1>1. s \in Nat /\ Area(s, l)
  BY StringArea
<1>2. Count(m, s, n) = c
  BY CountIs
<1>3. c \in Nat /\ c <= l /\ c <= n /\ (c < n <=> l < n) /\ (l < n => c = l) /\ (~(l < n) => c = n)
  BY DEF Fewer
<1> HIDE DEF c
<1>4. d..(d + c - 1) \subseteq d..(d + n - 1) /\ s..(s + c - 1) \subseteq s..(s + l - 1)
  BY <1>1, <1>3
<1>5. Area(d, c) /\ Area(s, c)
  BY <1>1, <1>4 DEF Area
<1>6. Apart(d, c, s, c)
  BY <1>1, <1>3 DEF Apart
<1>7. memcpy(m, d, s, c) = Carried(m, d, s, c)
  BY <1>1, <1>3, <1>5, <1>6, MemcpyIs
<1>8. strncpy(m, d, s, n) = IF c < n THEN Put(Carried(m, d, s, c), d + c, 0) ELSE Carried(m, d, s, c)
  BY <1>2, <1>7 DEF strncpy, Put
<1> QED  BY <1>3, <1>8 DEF Ended

LEMMA StrncatIs ==
  ASSUME NEW m \in Memory, NEW d \in Nat, NEW q \in Nat, HasLength(m, d, q),
         NEW s \in Nat, NEW l \in Nat, HasLength(m, s, l), NEW n \in Nat,
         NEW c, c = Fewer(l, n), Area(d, q + c + 1), Apart(d, q + c + 1, s, l + 1)
  PROVE  strncat(m, d, s, n) = Ended(m, d + q, s, c)
<1>1. s \in Nat /\ Area(s, l) /\ d \in Nat /\ strlen(m, d) = q
  BY StringArea DEF HasLength
<1>2. Count(m, s, n) = c
  BY CountIs, ZenonT(30) DEF HasLength
<1>3. c \in Nat /\ c <= l
  BY DEF Fewer
<1>4. /\ d + q \in Nat /\ (d + q)..((d + q) + c - 1) \subseteq d..(d + (q + c + 1) - 1)
      /\ s..(s + c - 1) \subseteq s..(s + l - 1)
  BY <1>1, <1>3
<1>5. Area(d + q, c) /\ Area(s, c)
  BY <1>1, <1>4 DEF Area
<1>6. Apart(d + q, c, s, c)
  BY <1>1, <1>3 DEF Apart
<1>7. memcpy(m, d + q, s, c) = Carried(m, d + q, s, c)
  BY <1>1, <1>3, <1>4, <1>5, <1>6, MemcpyIs
<1> QED  BY <1>1, <1>2, <1>7 DEF strncat, Ended, Put

LEMMA MemmoveIs ==
  ASSUME NEW m \in Memory, NEW d \in Nat, NEW s \in Nat, NEW n \in Nat, Area(d, n), Area(s, n)
  PROVE  memmove(m, d, s, n) = Carried(m, d, s, n)
<1> DEFINE buffer == [i \in 0..(n - 1) |-> m[s + i]]
<1>1. ASSUME NEW x \in d..(d + n - 1) PROVE buffer[x - d] = m[s + (x - d)]
  <2>1. x - d \in 0..(n - 1)
    OBVIOUS
  <2> QED  BY <2>1
<1>2. memmove(m, d, s, n) = [x \in DOMAIN m |-> IF x \in d..(d + n - 1) THEN buffer[x - d] ELSE m[x]]
  BY DEF memmove
<1>3. DOMAIN m = Addresses
  BY DEF Memory
<1> HIDE DEF buffer
<1> QED  BY <1>1, <1>2, <1>3 DEF Carried

LEMMA MemsetIs ==
  ASSUME NEW m \in Memory, NEW d \in Nat, NEW value \in Int, NEW n \in Nat, Area(d, n)
  PROVE  /\ \A k \in 1..n : memset(m, d, value, n)[d + k - 1] = value % 256
         /\ Keeps(memset(m, d, value, n), m, d, n)
<1>1. DOMAIN m = Addresses
  BY DEF Memory
<1>2. \A k \in 1..n : d + k - 1 \in d..(d + n - 1)
  OBVIOUS
<1> QED  BY <1>1, <1>2 DEF memset, Keeps, Area

----------------------------------------------------------------------------
(* The copies of the program's strings.                                    *)
LEMMA MemIsMemory == Inv => mem \in Memory
BY DEF Inv, TypeOK, Memory

LEMMA StringOf ==
  ASSUME Inv, NEW a \in Strings
  PROVE  /\ a \in Nat /\ Len(Str(a)) \in Nat /\ EndsAt(mem, a, a + Len(Str(a)))
         /\ Spells(Str(a), mem, a, Len(Str(a)))
<1>1. PICK z \in Nat : EndsAt(mem, a, z)
  <2>1. a \in InBlock
    BY DEF Strings
  <2> QED  BY <2>1, StringEnds, RoomIs
<1>2. Spells(Str(a), mem, a, z - a) /\ a \in Nat /\ z - a \in Nat
  BY <1>1, MemIsMemory, StringIsList DEF Str
<1>3. Len(Str(a)) = z - a
  BY <1>2 DEF Spells
<1>4. a + Len(Str(a)) = z
  BY <1>1, <1>2, <1>3
<1> QED  BY <1>1, <1>2, <1>3, <1>4

LEMMA InBlockArea ==
  ASSUME Inv, NEW a \in InBlock, NEW n \in Nat, n <= RoomAt(a) PROVE a \in Nat /\ Area(a, n)
<1>1. a \in Nat /\ RoomAt(a) \in Nat /\ a..(a + RoomAt(a) - 1) \subseteq Addresses
  BY RoomIs
<1>2. a..(a + n - 1) \subseteq a..(a + RoomAt(a) - 1)
  BY <1>1
<1> QED  BY <1>1, <1>2 DEF Area

LEMMA CutIs ==
  ASSUME NEW S, NEW t \in Seq(S), NEW n \in Nat
  PROVE  /\ Cut(t, n) = SubSeq(t, 1, Fewer(Len(t), n)) /\ Len(Cut(t, n)) = Fewer(Len(t), n)
         /\ Fewer(Len(t), n) \in Nat /\ Fewer(Len(t), n) <= Len(t)
<1> DEFINE c == Fewer(Len(t), n)
<1>1. c \in Nat /\ c <= Len(t) /\ c = IF n < Len(t) THEN n ELSE Len(t)
  BY DEF Fewer
<1> HIDE DEF c
<1>2. Len(SubSeq(t, 1, c)) = c
  BY <1>1, PrefixIs
<1>3. Cut(t, n) = SubSeq(t, 1, c)
  BY <1>1 DEF Cut
<1> QED  BY <1>1, <1>2, <1>3 DEF c

LEMMA StrcpyCopies ==
  ASSUME Inv, NEW d \in InBlock, NEW s \in Strings,
         Len(Str(s)) + 1 <= RoomAt(d), Apart(d, Len(Str(s)) + 1, s, Len(Str(s)) + 1)
  PROVE  /\ StringAt(strcpy(mem, d, s), d) = Str(s)
         /\ Same(strcpy(mem, d, s), d, Len(Str(s)) + 1)
<1> DEFINE t == Str(s)
           l == Len(t)
           w == Ended(mem, d, s, l)
<1>1. s \in Nat /\ l \in Nat /\ EndsAt(mem, s, s + l) /\ t \in Seq(0..255) /\ (s + l) - s = l
  BY StringOf DEF Spells
<1>2. d \in Nat /\ Area(d, l + 1) /\ mem \in Memory
  BY <1>1, InBlockArea, MemIsMemory
<1> HIDE DEF l
<1>3. strcpy(mem, d, s) = w
  BY <1>1, <1>2, StrcpyIs DEF l
<1>4. Leads(<<>>, mem, d, d)
  <2>1. d..(d - 1) = {} /\ d - d = 0
    BY <1>2
  <2> QED  BY <1>2, <2>1 DEF Leads, Spells
<1>5. StringAt(w, d) = Joined(<<>>, StringAt(mem, s), l)
  <2>1. l <= (s + l) - s
    BY <1>1
  <2> QED  BY <1>1, <1>2, <1>4, <2>1, EndedReads
<1>6. StringAt(w, d) = t
  <2>1. <<>> \o t = t /\ SubSeq(t, 1, l) = t
    BY <1>1, SubSeqFull DEF l
  <2> QED  BY <1>5, <2>1 DEF Str, Joined
<1>7. Keeps(w, mem, d, l + 1)
  <2>1. Area(s, l)
    BY <1>1, <1>2, StringArea
  <2> QED  BY <1>1, <1>2, <2>1, EndedWrites
<1> QED  BY <1>3, <1>6, <1>7 DEF Same, Keeps, l

LEMMA StrncpyCopies ==
  ASSUME Inv, NEW d \in InBlock, NEW s \in Strings, NEW n \in Nat,
         n <= RoomAt(d), Apart(d, n, s, Len(Str(s)) + 1)
  PROVE  LET t == Str(s)  m == strncpy(mem, d, s, n) IN
         /\ [k \in 1..Len(Cut(t, n)) |-> m[d + k - 1]] = Cut(t, n)
         /\ Len(t) < n => m[d + Len(t)] = 0
         /\ Same(m, d, IF Len(t) < n THEN Len(t) + 1 ELSE n)
<1> DEFINE t == Str(s)
           l == Len(t)
           c == Fewer(l, n)
           m == strncpy(mem, d, s, n)
<1>1. s \in Nat /\ l \in Nat /\ EndsAt(mem, s, s + l) /\ Spells(t, mem, s, l)
  BY StringOf
<1>2. d \in Nat /\ Area(d, n) /\ mem \in Memory
  BY InBlockArea, MemIsMemory
<1>3. Cut(t, n) = SubSeq(t, 1, c) /\ Len(Cut(t, n)) = c /\ c \in Nat /\ c <= l
  BY <1>1, CutIs DEF Spells
<1>4. m = IF l < n THEN Ended(mem, d, s, l) ELSE Carried(mem, d, s, n)
  BY <1>1, <1>2, StrncpyIs
<1>5. Area(s, l) /\ (l < n => c = l) /\ (~(l < n) => c = n)
  BY <1>1, <1>2, StringArea DEF Fewer
<1> HIDE DEF m, l, c
<1>6. Copies(m, mem, d, s, c) /\ (l < n => m[d + l] = 0) /\ Keeps(m, mem, d, IF l < n THEN l + 1 ELSE n)
  <2>1. CASE l < n
    <3>1. d..(d + (l + 1) - 1) \subseteq d..(d + n - 1)
      BY <1>1, <1>2, <2>1
    <3>2. Area(d, l + 1)
      BY <1>2, <3>1 DEF Area
    <3> QED  BY <1>1, <1>2, <1>4, <1>5, <2>1, <3>2, EndedWrites
  <2>2. CASE ~(l < n)
    <3>1. s..(s + n - 1) \subseteq s..(s + l - 1)
      BY <1>1, <2>2
    <3>2. Area(s, n)
      BY <1>5, <3>1 DEF Area
    <3> QED  BY <1>1, <1>2, <1>4, <1>5, <2>2, <3>2, CarriedWrites
  <2> QED  BY <2>1, <2>2
<1>7. [k \in 1..c |-> m[d + k - 1]] = Cut(t, n)
  <2> DEFINE v == SubSeq(t, 1, c)
  <2>1. v \in Seq(0..255) /\ Len(v) = c /\ \A k \in 1..c : v[k] = t[k]
    BY <1>1, <1>3, PrefixIs DEF Spells
  <2>2. ASSUME NEW k \in 1..c PROVE m[d + k - 1] = v[k]
    <3>1. k \in 1..l
      BY <1>1, <1>3
    <3> QED  BY <1>1, <1>6, <2>1, <3>1 DEF Copies, Spells
  <2> HIDE DEF v
  <2>3. v = [k \in 1..c |-> v[k]]
    BY <2>1
  <2> QED  BY <1>3, <2>2, <2>3 DEF v
<1> QED  BY <1>3, <1>6, <1>7 DEF Same, Keeps, m, l

LEMMA JoinedReads ==
  ASSUME Inv, NEW d \in InBlock, d \in Strings, NEW s \in Strings, NEW c \in Nat, c <= Len(Str(s)),
         Area(d, Len(Str(d)) + c + 1)
  PROVE  LET w == Ended(mem, d + Len(Str(d)), s, c) IN
         /\ StringAt(w, d) = Str(d) \o SubSeq(Str(s), 1, c)
         /\ Same(w, d + Len(Str(d)), c + 1)
<1> DEFINE t == Str(s)
           l == Len(t)
           u == Str(d)
           q == Len(u)
           e == d + q
           w == Ended(mem, e, s, c)
<1>1. s \in Nat /\ l \in Nat /\ EndsAt(mem, s, s + l) /\ (s + l) - s = l
  BY StringOf
<1>2. d \in Nat /\ q \in Nat /\ EndsAt(mem, d, d + q) /\ Spells(u, mem, d, q) /\ mem \in Memory
  BY StringOf, MemIsMemory
<1>3. Area(s, l)
  BY <1>1, <1>2, StringArea
<1>4. e \in Nat /\ Area(e, c + 1) /\ Area(s, c)
  <2>1. /\ e \in Nat /\ e..(e + (c + 1) - 1) \subseteq d..(d + (q + c + 1) - 1)
        /\ s..(s + c - 1) \subseteq s..(s + l - 1)
    BY <1>1, <1>2
  <2> QED  BY <1>3, <2>1 DEF Area
<1> HIDE DEF l, q
<1>5. StringAt(w, d) = Joined(u, StringAt(mem, s), c)
  <2>1. c <= (s + l) - s
    BY <1>1 DEF l
  <2>2. Leads(u, mem, d, e)
    <3>1. e - d = q /\ d <= e /\ e = d + q
      BY <1>2
    <3>2. d..(e - 1) \subseteq Addresses /\ \A p \in d..(e - 1) : mem[p] # 0
      BY <1>2, <3>1 DEF EndsAt, Memory
    <3> HIDE DEF e
    <3> QED  BY <1>2, <3>1, <3>2 DEF Leads
  <2> HIDE DEF e
  <2> QED  BY <1>1, <1>2, <1>4, <2>1, <2>2, EndedReads
<1>6. Keeps(w, mem, e, c + 1)
  BY <1>1, <1>2, <1>4, EndedWrites
<1> QED  BY <1>5, <1>6 DEF Same, Keeps, q, Str, Joined

LEMMA StrcatCopies ==
  ASSUME Inv, NEW d \in InBlock, d \in Strings, NEW s \in Strings,
         Len(Str(d)) + Len(Str(s)) + 1 <= RoomAt(d),
         Apart(d, Len(Str(d)) + Len(Str(s)) + 1, s, Len(Str(s)) + 1)
  PROVE  LET m == strcat(mem, d, s) IN
         /\ StringAt(m, d) = Str(d) \o Str(s)
         /\ Same(m, d + Len(Str(d)), Len(Str(s)) + 1)
<1> DEFINE l == Len(Str(s))
           q == Len(Str(d))
<1>1. s \in Nat /\ l \in Nat /\ HasLength(mem, s, l) /\ Str(s) \in Seq(0..255)
  BY StringOf DEF Spells, HasLength
<1>2. d \in Nat /\ q \in Nat /\ HasLength(mem, d, q) /\ mem \in Memory
  BY StringOf, MemIsMemory DEF HasLength
<1>3. Area(d, q + l + 1) /\ Apart(d, q + l + 1, s, l + 1)
  BY <1>1, <1>2, InBlockArea
<1>4. SubSeq(Str(s), 1, l) = Str(s)
  BY <1>1, SubSeqFull
<1> HIDE DEF l, q
<1>5. strcat(mem, d, s) = Ended(mem, d + q, s, l)
  BY <1>1, <1>2, <1>3, StrcatIs
<1>6. l <= Len(Str(s)) /\ Area(d, Len(Str(d)) + l + 1)
  BY <1>1, <1>3 DEF l, q
<1>7. LET w == Ended(mem, d + Len(Str(d)), s, l) IN
      StringAt(w, d) = Str(d) \o SubSeq(Str(s), 1, l) /\ Same(w, d + Len(Str(d)), l + 1)
  BY <1>1, <1>6, JoinedReads
<1> QED  BY <1>4, <1>5, <1>7 DEF q, l

LEMMA StrncatCopies ==
  ASSUME Inv, NEW d \in InBlock, d \in Strings, NEW s \in Strings, NEW n \in Nat,
         Len(Str(d)) + Len(Cut(Str(s), n)) + 1 <= RoomAt(d),
         Apart(d, Len(Str(d)) + Len(Cut(Str(s), n)) + 1, s, Len(Str(s)) + 1)
  PROVE  LET m == strncat(mem, d, s, n)  t == Cut(Str(s), n) IN
         /\ StringAt(m, d) = Str(d) \o t
         /\ Same(m, d + Len(Str(d)), Len(t) + 1)
<1> DEFINE l == Len(Str(s))
           q == Len(Str(d))
           c == Len(Cut(Str(s), n))
<1>1. s \in Nat /\ l \in Nat /\ HasLength(mem, s, l) /\ Str(s) \in Seq(0..255)
  BY StringOf DEF Spells, HasLength
<1>2. d \in Nat /\ q \in Nat /\ HasLength(mem, d, q) /\ mem \in Memory
  BY StringOf, MemIsMemory DEF HasLength
<1>3. c = Fewer(l, n) /\ c \in Nat /\ c <= l /\ Cut(Str(s), n) = SubSeq(Str(s), 1, c)
  BY <1>1, CutIs
<1>4. Area(d, q + c + 1) /\ Apart(d, q + c + 1, s, l + 1)
  BY <1>1, <1>2, <1>3, InBlockArea
<1> HIDE DEF l, q, c
<1>5. strncat(mem, d, s, n) = Ended(mem, d + q, s, c)
  BY <1>1, <1>2, <1>3, <1>4, StrncatIs
<1>6. c <= Len(Str(s)) /\ Area(d, Len(Str(d)) + c + 1)
  BY <1>3, <1>4 DEF l, q
<1>7. LET w == Ended(mem, d + Len(Str(d)), s, c) IN
      StringAt(w, d) = Str(d) \o SubSeq(Str(s), 1, c) /\ Same(w, d + Len(Str(d)), c + 1)
  BY <1>3, <1>6, JoinedReads
<1> QED  BY <1>3, <1>5, <1>7 DEF q, c

LEMMA BytesCopied ==
  ASSUME Inv, NEW d \in InBlock, NEW s \in InBlock, NEW n \in Nat, n <= RoomAt(d), n <= RoomAt(s)
  PROVE  LET m == memmove(mem, d, s, n)  c == memcpy(mem, d, s, n)
             f == memset(mem, d, 256 + mem[s], n) IN
         /\ [k \in 1..n |-> m[d + k - 1]] = Bytes_(s, n) /\ Same(m, d, n)
         /\ Apart(d, n, s, n) => c = m
         /\ \A k \in 1..n : f[d + k - 1] = mem[s]
         /\ Same(f, d, n)
<1> DEFINE m == memmove(mem, d, s, n)
           c == memcpy(mem, d, s, n)
           value == 256 + mem[s]
           f == memset(mem, d, value, n)
<1>1. d \in Nat /\ Area(d, n) /\ s \in Nat /\ Area(s, n) /\ mem \in Memory
  BY InBlockArea, MemIsMemory
<1>2. m = Carried(mem, d, s, n)
  BY <1>1, MemmoveIs
<1>3. Apart(d, n, s, n) => c = Carried(mem, d, s, n)
  BY <1>1, MemcpyIs
<1>4. mem[s] \in 0..255
  <2>1. s \in Addresses
    <3>1. RoomAt(s) \in Nat \ {0} /\ s..(s + RoomAt(s) - 1) \subseteq Addresses
      BY RoomIs
    <3>2. s \in s..(s + RoomAt(s) - 1)
      BY <1>1, <3>1
    <3> QED  BY <3>1, <3>2
  <2> QED  BY <1>1, <2>1 DEF Memory
<1>5. value \in Int /\ value % 256 = mem[s]
  BY <1>4
<1> HIDE DEF value
<1>6. (\A k \in 1..n : f[d + k - 1] = value % 256) /\ Keeps(f, mem, d, n)
  BY <1>1, <1>5, MemsetIs
<1> HIDE DEF m, c, f
<1>7. Copies(m, mem, d, s, n) /\ Keeps(m, mem, d, n)
  BY <1>1, <1>2, CarriedWrites
<1>8. [k \in 1..n |-> m[d + k - 1]] = Bytes_(s, n)
  BY <1>7 DEF Copies, Bytes_
<1>9. Same(m, d, n) /\ Same(f, d, n) /\ (Apart(d, n, s, n) => c = m) /\ \A k \in 1..n : f[d + k - 1] = mem[s]
  BY <1>2, <1>3, <1>5, <1>6, <1>7 DEF Same, Keeps
<1> QED  BY <1>8, <1>9 DEF m, c, f, value

LEMMA CopiesAreRight == Inv => CopiesAgree
<1> SUFFICES ASSUME Inv, NEW d \in InBlock
    PROVE  /\ \A s \in Strings :
                LET t == Str(s)
                    fits(from, n) == n <= RoomAt(from) /\ Apart(from, n, s, Len(t) + 1) IN
                /\ fits(d, Len(t) + 1) =>
                     LET m == strcpy(mem, d, s) IN StringAt(m, d) = t /\ Same(m, d, Len(t) + 1)
                /\ \A n \in Lengths : fits(d, n) =>
                     LET m == strncpy(mem, d, s, n) IN
                     /\ [k \in 1..Len(Cut(t, n)) |-> m[d + k - 1]] = Cut(t, n)
                     /\ Len(t) < n => m[d + Len(t)] = 0
                     /\ Same(m, d, IF Len(t) < n THEN Len(t) + 1 ELSE n)
                /\ d \in Strings =>
                     LET u == Str(d)  end == d + Len(u) IN
                     /\ fits(d, Len(u) + Len(t) + 1) =>
                          LET m == strcat(mem, d, s) IN
                          StringAt(m, d) = u \o t /\ Same(m, end, Len(t) + 1)
                     /\ \A n \in Lengths : fits(d, Len(u) + Len(Cut(t, n)) + 1) =>
                          LET m == strncat(mem, d, s, n) IN
                          StringAt(m, d) = u \o Cut(t, n) /\ Same(m, end, Len(Cut(t, n)) + 1)
           /\ \A s \in InBlock, n \in Lengths :
                (n <= RoomAt(d) /\ n <= RoomAt(s)) =>
                  LET m == memmove(mem, d, s, n)  c == memcpy(mem, d, s, n)
                      f == memset(mem, d, 256 + mem[s], n) IN
                  /\ [k \in 1..n |-> m[d + k - 1]] = Bytes_(s, n) /\ Same(m, d, n)
                  /\ Apart(d, n, s, n) => c = m
                  /\ \A k \in 1..n : f[d + k - 1] = mem[s]
                  /\ Same(f, d, n)
  BY DEF CopiesAgree
<1>1. \A n \in Lengths : n \in Nat
  BY DEF Lengths
<1>2. ASSUME NEW s \in Strings, Len(Str(s)) + 1 <= RoomAt(d), Apart(d, Len(Str(s)) + 1, s, Len(Str(s)) + 1)
      PROVE  /\ StringAt(strcpy(mem, d, s), d) = Str(s)
             /\ Same(strcpy(mem, d, s), d, Len(Str(s)) + 1)
  BY <1>2, StrcpyCopies
<1>3. ASSUME NEW s \in Strings, NEW n \in Lengths, n <= RoomAt(d), Apart(d, n, s, Len(Str(s)) + 1)
      PROVE  LET t == Str(s)  m == strncpy(mem, d, s, n) IN
             /\ [k \in 1..Len(Cut(t, n)) |-> m[d + k - 1]] = Cut(t, n)
             /\ Len(t) < n => m[d + Len(t)] = 0
             /\ Same(m, d, IF Len(t) < n THEN Len(t) + 1 ELSE n)
  BY <1>1, <1>3, StrncpyCopies
<1>4. ASSUME NEW s \in Strings, d \in Strings, Len(Str(d)) + Len(Str(s)) + 1 <= RoomAt(d),
             Apart(d, Len(Str(d)) + Len(Str(s)) + 1, s, Len(Str(s)) + 1)
      PROVE  LET m == strcat(mem, d, s) IN
             StringAt(m, d) = Str(d) \o Str(s) /\ Same(m, d + Len(Str(d)), Len(Str(s)) + 1)
  BY <1>4, StrcatCopies
<1>5. ASSUME NEW s \in Strings, d \in Strings, NEW n \in Lengths,
             Len(Str(d)) + Len(Cut(Str(s), n)) + 1 <= RoomAt(d),
             Apart(d, Len(Str(d)) + Len(Cut(Str(s), n)) + 1, s, Len(Str(s)) + 1)
      PROVE  LET m == strncat(mem, d, s, n) IN
             /\ StringAt(m, d) = Str(d) \o Cut(Str(s), n)
             /\ Same(m, d + Len(Str(d)), Len(Cut(Str(s), n)) + 1)
  BY <1>1, <1>5, StrncatCopies
<1>6. ASSUME NEW s \in InBlock, NEW n \in Lengths, n <= RoomAt(d), n <= RoomAt(s)
      PROVE  LET m == memmove(mem, d, s, n)  c == memcpy(mem, d, s, n)
                 f == memset(mem, d, 256 + mem[s], n) IN
             /\ [k \in 1..n |-> m[d + k - 1]] = Bytes_(s, n) /\ Same(m, d, n)
             /\ Apart(d, n, s, n) => c = m
             /\ \A k \in 1..n : f[d + k - 1] = mem[s]
             /\ Same(f, d, n)
  BY <1>1, <1>6, BytesCopied
<1> QED  BY <1>2, <1>3, <1>4, <1>5, <1>6, Zenon

\* A copy writes what it should where it should, for any memory, strings,
\* bytes and blocks the program can have.
THEOREM CopiesStayRight == Spec => []CopiesAgree
BY CopiesAreRight, InvInit, InvNext, PTL DEF Spec

----------------------------------------------------------------------------
(* The dictionary order of two sequences is decided where they part.       *)
Parts(s, t, k) ==
  /\ k \in Nat /\ k <= Len(s) /\ k <= Len(t) /\ \A j \in 1..k : s[j] = t[j]
  /\ k = Len(s) \/ k = Len(t) \/ s[k + 1] # t[k + 1]
Decides(s, t, k) ==
  IF k = Len(s) THEN IF k = Len(t) THEN 0 ELSE -1
  ELSE IF k = Len(t) THEN 1 ELSE Sign(s[k + 1], t[k + 1])

LEMMA PartSomewhere ==
  ASSUME NEW s \in Seq(0..255), NEW t \in Seq(0..255) PROVE \E k \in Nat : Parts(s, t, k)
<1> DEFINE A == {k \in Nat : k = Len(s) \/ k = Len(t) \/ s[k + 1] # t[k + 1]}
<1>1. Len(s) \in A /\ Len(t) \in A
  OBVIOUS
<1>2. A \in SUBSET Nat /\ A # {}
  BY <1>1
<1>3. PICK k \in A : \A j \in A : k <= j
  BY <1>2, HasALeast
<1>4. k \in Nat /\ k <= Len(s) /\ k <= Len(t) /\ (k = Len(s) \/ k = Len(t) \/ s[k + 1] # t[k + 1])
  BY <1>1, <1>3
<1>5. ASSUME NEW j \in 1..k PROVE s[j] = t[j]
  <2>1. j - 1 \in Nat /\ ~(k <= j - 1) /\ (j - 1) + 1 = j
    BY <1>4
  <2>2. j - 1 \notin A
    BY <1>3, <2>1
  <2> QED  BY <2>1, <2>2
<1> QED  BY <1>4, <1>5 DEF Parts

LEMMA CharIsOne ==
  ASSUME NEW x \in 0..255, NEW y \in 0..255
  PROVE  Char(x) \in Int /\ (Char(x) = Char(y) => x = y) /\ (Char(x) = 0 <=> x = 0)
BY DEF Char

LEMMA ElementIs ==
  ASSUME NEW S, NEW s \in Seq(S), NEW k \in 1..Len(s) PROVE s[k] \in S
OBVIOUS

LEMMA BeforeIs ==
  ASSUME NEW s \in Seq(0..255), NEW t \in Seq(0..255), NEW k, Parts(s, t, k)
  PROVE  Before(s, t) <=> k < Len(t) /\ (k = Len(s) \/ Char(s[k + 1]) < Char(t[k + 1]))
<1>1. /\ k \in Nat /\ k <= Len(s) /\ k <= Len(t) /\ Len(s) \in Nat /\ Len(t) \in Nat
      /\ \A j \in 1..k : s[j] = t[j]
      /\ k = Len(s) \/ k = Len(t) \/ s[k + 1] # t[k + 1]
  BY DEF Parts
<1>2. ASSUME k < Len(t), k = Len(s) \/ Char(s[k + 1]) < Char(t[k + 1]) PROVE Before(s, t)
  <2>1. k + 1 \in 1..(Len(s) + 1) /\ k + 1 <= Len(t) /\ (k + 1) - 1 = k
    BY <1>1, <1>2
  <2>2. k + 1 > Len(s) \/ Char(s[k + 1]) < Char(t[k + 1])
    BY <1>1, <1>2
  <2>3. \A j \in 1..((k + 1) - 1) : s[j] = t[j]
    BY <1>1, <2>1
  <2> QED  BY <2>1, <2>2, <2>3 DEF Before
<1>3. ASSUME Before(s, t) PROVE k < Len(t) /\ (k = Len(s) \/ Char(s[k + 1]) < Char(t[k + 1]))
  <2>1. PICK i \in 1..(Len(s) + 1) :
          /\ i <= Len(t) /\ \A j \in 1..(i - 1) : s[j] = t[j]
          /\ i > Len(s) \/ Char(s[i]) < Char(t[i])
    BY <1>3 DEF Before
  <2>2. i \in Nat /\ i >= 1
    BY <1>1
  <2>3. ~(i <= k)
    <3>1. SUFFICES ASSUME i <= k PROVE FALSE
      OBVIOUS
    <3>2. i \in 1..k /\ ~(i > Len(s)) /\ i \in 1..Len(t)
      BY <1>1, <2>1, <2>2, <3>1
    <3>3. s[i] = t[i] /\ t[i] \in 0..255
      BY <2>1, <1>1, <3>2, ElementIs
    <3>4. Char(t[i]) \in Int
      BY <3>3, CharIsOne
    <3> QED  BY <2>1, <3>2, <3>3, <3>4
  <2>4. i = k + 1
    <3>1. SUFFICES ASSUME i > k + 1 PROVE FALSE
      BY <1>1, <2>2, <2>3
    <3>2. k + 1 \in 1..(i - 1) /\ k # Len(s) /\ k # Len(t)
      BY <1>1, <2>1, <2>2, <3>1
    <3> QED  BY <1>1, <2>1, <3>2
  <2> QED  BY <1>1, <2>1, <2>4
<1> QED  BY <1>2, <1>3

LEMMA PartsIsSymmetric ==
  ASSUME NEW s, NEW t, NEW k, Parts(s, t, k) PROVE Parts(t, s, k)
BY DEF Parts

LEMMA OrderIs ==
  ASSUME NEW s \in Seq(0..255), NEW t \in Seq(0..255), NEW k, Parts(s, t, k)
  PROVE  Order(s, t) = Decides(s, t, k)
<1>1. /\ k \in Nat /\ k <= Len(s) /\ k <= Len(t) /\ Len(s) \in Nat /\ Len(t) \in Nat
      /\ k = Len(s) \/ k = Len(t) \/ s[k + 1] # t[k + 1]
  BY DEF Parts
<1>2. Before(s, t) <=> k < Len(t) /\ (k = Len(s) \/ Char(s[k + 1]) < Char(t[k + 1]))
  BY BeforeIs
<1>3. Before(t, s) <=> k < Len(s) /\ (k = Len(t) \/ Char(t[k + 1]) < Char(s[k + 1]))
  BY BeforeIs, PartsIsSymmetric
<1>4. CASE k = Len(s) \/ k = Len(t)
  BY <1>1, <1>2, <1>3, <1>4 DEF Order, Decides
<1>5. CASE k # Len(s) /\ k # Len(t)
  <2>1. k + 1 \in 1..Len(s) /\ k + 1 \in 1..Len(t) /\ k < Len(s) /\ k < Len(t) /\ s[k + 1] # t[k + 1]
    BY <1>1, <1>5
  <2> DEFINE x == s[k + 1]
             y == t[k + 1]
  <2>2. x \in 0..255 /\ y \in 0..255
    BY <2>1, ElementIs
  <2>3. Char(x) \in Int /\ Char(y) \in Int
    BY <2>2, CharIsOne
  <2>4. Before(s, t) <=> Char(x) < Char(y)
    BY <1>2, <1>5, <2>1
  <2>5. Before(t, s) <=> Char(y) < Char(x)
    BY <1>3, <1>5, <2>1
  <2>6. Decides(s, t, k) = Sign(x, y)
    BY <1>5 DEF Decides
  <2> HIDE DEF x, y
  <2> QED  BY <2>3, <2>4, <2>5, <2>6 DEF Order, Sign
<1> QED  BY <1>4, <1>5

----------------------------------------------------------------------------
(* Where the loops of the comparisons stop, and what they answer there.    *)
Over(m, a, b, k) == m[a + k] = 0 \/ m[b + k] = 0
Unlike(m, a, b, k) == m[a + k] # m[b + k]
Compared(m, a, b, k) ==
  IF Over(m, a, b, k) THEN IF m[a + k] # 0 THEN 1 ELSE IF m[b + k] # 0 THEN -1 ELSE 0
  ELSE Sign(m[a + k], m[b + k])

Differing(m, a, b, k) == Sign(m[a + k], m[b + k])

LEMMA StrcmpIs ==
  ASSUME NEW m, NEW a \in Nat, NEW b \in Nat, NEW z \in Nat,
         Over(m, a, b, z) \/ Unlike(m, a, b, z),
         \A k \in 0..(z - 1) : ~Over(m, a, b, k) /\ ~Unlike(m, a, b, k)
  PROVE  strcmp(m, a, b) = Compared(m, a, b, z)
<1> DEFINE Is(g) ==
             g = [k \in Nat |->
                   LET x == m[a + k]  y == m[b + k] IN
                   IF x = 0 \/ y = 0 THEN IF x # 0 THEN 1 ELSE IF y # 0 THEN -1 ELSE 0
                   ELSE IF x # y THEN Sign(x, y) ELSE g[k + 1]]
           f == CHOOSE g : Is(g)
           D == Nat
           S == {k \in D : Over(m, a, b, k) \/ Unlike(m, a, b, k)}
           v == [k \in D |-> Compared(m, a, b, k)]
<1>1. \A k \in D : v[k] = Compared(m, a, b, k) /\ (k \in S <=> Over(m, a, b, k) \/ Unlike(m, a, b, k))
  OBVIOUS
<1>2. D \in SUBSET Nat /\ S \in SUBSET D /\ \A k \in D \ S : k + 1 \in D
  OBVIOUS
<1>3. strcmp(m, a, b) = f[0]
  BY DEF strcmp
<1>4. RunsTo(D, S, 0, z) /\ z \in S
  BY DEF RunsTo
<1>5. \A g : LoopOver(D, S, v, g) <=> Is(g)
  <2>1. ASSUME NEW g, NEW k \in Nat
        PROVE  (IF k \in S THEN v[k] ELSE g[k + 1])
               = (LET x == m[a + k]  y == m[b + k] IN
                  IF x = 0 \/ y = 0 THEN IF x # 0 THEN 1 ELSE IF y # 0 THEN -1 ELSE 0
                  ELSE IF x # y THEN Sign(x, y) ELSE g[k + 1])
    BY <1>1 DEF Compared, Over, Unlike
  <2> HIDE DEF S, v
  <2> QED  BY <2>1 DEF LoopOver
<1> HIDE DEF D, S, v, f, Is
<1>6. LoopOver(D, S, v, f)
  <2>1. \E g : Is(g)
    BY <1>2, <1>5, LoopExists
  <2>2. Is(f)
    BY <2>1 DEF f
  <2> QED  BY <1>5, <2>2
<1>7. f[0] = v[z]
  BY <1>2, <1>4, <1>6, LoopStops
<1> QED  BY <1>1, <1>2, <1>3, <1>4, <1>7

LEMMA StrncmpIs ==
  ASSUME NEW m, NEW a \in Nat, NEW b \in Nat, NEW n \in Nat, NEW z \in Nat, z <= n,
         z = n \/ Over(m, a, b, z) \/ Unlike(m, a, b, z),
         \A k \in 0..(z - 1) : ~Over(m, a, b, k) /\ ~Unlike(m, a, b, k)
  PROVE  strncmp(m, a, b, n) = IF z = n \/ Over(m, a, b, z) THEN 0 ELSE Differing(m, a, b, z)
<1> DEFINE Finished(k) == k = n \/ Over(m, a, b, k)
           Answer(k) == IF Finished(k) THEN 0 ELSE Sign(m[a + k], m[b + k])
           Is(g) ==
             g = [k \in 0..n |->
                   LET x == m[a + k]  y == m[b + k] IN
                   IF k = n \/ x = 0 \/ y = 0 THEN 0 ELSE IF x # y THEN Sign(x, y) ELSE g[k + 1]]
           f == CHOOSE g : Is(g)
           D == 0..n
           S == {k \in D : Finished(k) \/ Unlike(m, a, b, k)}
           v == [k \in D |-> Answer(k)]
<1>1. \A k \in D : v[k] = Answer(k) /\ (k \in S <=> Finished(k) \/ Unlike(m, a, b, k))
  OBVIOUS
<1>2. D \in SUBSET Nat /\ S \in SUBSET D /\ \A k \in D \ S : k + 1 \in D
  OBVIOUS
<1>3. strncmp(m, a, b, n) = f[0]
  BY DEF strncmp
<1>4. RunsTo(D, S, 0, z)
  BY DEF RunsTo
<1>5. \A g : LoopOver(D, S, v, g) <=> Is(g)
  <2>1. ASSUME NEW g, NEW k \in D
        PROVE  (IF k \in S THEN v[k] ELSE g[k + 1])
               = (LET x == m[a + k]  y == m[b + k] IN
                  IF k = n \/ x = 0 \/ y = 0 THEN 0 ELSE IF x # y THEN Sign(x, y) ELSE g[k + 1])
    BY <1>1 DEF Over, Unlike
  <2> HIDE DEF S, v
  <2> QED  BY <2>1 DEF LoopOver
<1>8. z \in D /\ z \in Nat
  OBVIOUS
<1> HIDE DEF D, S, v, f, Is
<1>6. LoopOver(D, S, v, f)
  <2>1. \E g : Is(g)
    BY <1>2, <1>5, LoopExists
  <2>2. Is(f)
    BY <2>1 DEF f
  <2> QED  BY <1>5, <2>2
<1>7. f[0] = v[z]
  BY <1>2, <1>4, <1>6, LoopStops
<1> QED  BY <1>1, <1>3, <1>7, <1>8 DEF Differing

LEMMA MemcmpIs ==
  ASSUME NEW m, NEW a \in Nat, NEW b \in Nat, NEW n \in Nat, NEW z \in Nat, z <= n,
         z = n \/ Unlike(m, a, b, z), \A k \in 0..(z - 1) : ~Unlike(m, a, b, k)
  PROVE  memcmp(m, a, b, n) = IF z = n THEN 0 ELSE Differing(m, a, b, z)
<1> DEFINE Answer(k) == IF k = n THEN 0 ELSE Sign(m[a + k], m[b + k])
           Is(g) ==
             g = [k \in 0..n |->
                   IF k = n THEN 0
                   ELSE IF m[a + k] # m[b + k] THEN Sign(m[a + k], m[b + k]) ELSE g[k + 1]]
           f == CHOOSE g : Is(g)
           D == 0..n
           S == {k \in D : k = n \/ Unlike(m, a, b, k)}
           v == [k \in D |-> Answer(k)]
<1>1. \A k \in D : v[k] = Answer(k) /\ (k \in S <=> k = n \/ Unlike(m, a, b, k))
  OBVIOUS
<1>2. D \in SUBSET Nat /\ S \in SUBSET D /\ \A k \in D \ S : k + 1 \in D
  OBVIOUS
<1>3. memcmp(m, a, b, n) = f[0]
  BY DEF memcmp
<1>4. RunsTo(D, S, 0, z)
  BY DEF RunsTo
<1>5. \A g : LoopOver(D, S, v, g) <=> Is(g)
  <2>1. ASSUME NEW g, NEW k \in D
        PROVE  (IF k \in S THEN v[k] ELSE g[k + 1])
               = IF k = n THEN 0
                 ELSE IF m[a + k] # m[b + k] THEN Sign(m[a + k], m[b + k]) ELSE g[k + 1]
    BY <1>1 DEF Unlike
  <2> HIDE DEF S, v
  <2>2. ASSUME NEW g
        PROVE  [k \in D |-> IF k \in S THEN v[k] ELSE g[k + 1]]
               = [k \in D |-> IF k = n THEN 0
                              ELSE IF m[a + k] # m[b + k] THEN Sign(m[a + k], m[b + k]) ELSE g[k + 1]]
    BY <2>1
  <2> QED  BY <2>2 DEF LoopOver
<1>8. z \in D /\ z \in Nat
  OBVIOUS
<1> HIDE DEF D, S, v, f, Is
<1>6. LoopOver(D, S, v, f)
  <2>1. \E g : Is(g)
    BY <1>2, <1>5, LoopExists
  <2>2. Is(f)
    BY <2>1 DEF f
  <2> QED  BY <1>5, <2>2
<1>7. f[0] = v[z]
  BY <1>2, <1>4, <1>6, LoopStops
<1> QED  BY <1>1, <1>3, <1>7, <1>8 DEF Differing

(* The sequence and the memory it is spelled in.                           *)
ReadAt(s, m, a, n) == \A k \in 0..(n - 1) : s[k + 1] = m[a + k]

LEMMA SpelledAt ==
  ASSUME NEW m \in Memory, NEW s, NEW a \in Nat, NEW n \in Nat, Spells(s, m, a, n)
  PROVE  s \in Seq(0..255) /\ Len(s) = n /\ ReadAt(s, m, a, n)
<1>1. s \in Seq(0..255) /\ Len(s) = n /\ \A k \in 1..n : s[k] = m[a + k - 1]
  BY DEF Spells
<1>2. \A k \in 0..(n - 1) : k + 1 \in 1..n /\ a + (k + 1) - 1 = a + k
  OBVIOUS
<1> QED  BY <1>1, <1>2 DEF ReadAt

LEMMA StringSpelled ==
  ASSUME Inv, NEW a \in Strings
  PROVE  /\ a \in Nat /\ Str(a) \in Seq(0..255) /\ Len(Str(a)) \in Nat
         /\ \A k \in 0..(Len(Str(a)) - 1) : Str(a)[k + 1] = mem[a + k] /\ mem[a + k] # 0
         /\ mem[a + Len(Str(a))] = 0
<1> DEFINE l == Len(Str(a))
<1>1. a \in Nat /\ l \in Nat /\ EndsAt(mem, a, a + l) /\ Spells(Str(a), mem, a, l) /\ mem \in Memory
  BY StringOf, MemIsMemory
<1> HIDE DEF l
<1>2. Str(a) \in Seq(0..255) /\ ReadAt(Str(a), mem, a, l)
  BY <1>1, SpelledAt
<1>3. \A k \in 0..(l - 1) : mem[a + k] # 0
  <2>1. \A k \in 0..(l - 1) : a + k \in a..((a + l) - 1)
    BY <1>1
  <2> QED  BY <1>1, <2>1 DEF EndsAt
<1>4. mem[a + l] = 0
  BY <1>1 DEF EndsAt
<1> QED  BY <1>1, <1>2, <1>3, <1>4 DEF l, ReadAt

LEMMA StrcmpOrders ==
  ASSUME Inv, NEW a \in Strings, NEW b \in Strings
  PROVE  strcmp(mem, a, b) = Order(Str(a), Str(b))
<1> DEFINE s == Str(a)
           t == Str(b)
<1>1. /\ a \in Nat /\ s \in Seq(0..255) /\ Len(s) \in Nat
      /\ \A k \in 0..(Len(s) - 1) : s[k + 1] = mem[a + k] /\ mem[a + k] # 0
      /\ mem[a + Len(s)] = 0
  BY StringSpelled
<1>2. /\ b \in Nat /\ t \in Seq(0..255) /\ Len(t) \in Nat
      /\ \A k \in 0..(Len(t) - 1) : t[k + 1] = mem[b + k] /\ mem[b + k] # 0
      /\ mem[b + Len(t)] = 0
  BY StringSpelled
<1> HIDE DEF s, t
<1>3. PICK z \in Nat : Parts(s, t, z)
  BY <1>1, <1>2, PartSomewhere
<1>4. /\ z <= Len(s) /\ z <= Len(t) /\ \A j \in 1..z : s[j] = t[j]
      /\ z = Len(s) \/ z = Len(t) \/ s[z + 1] # t[z + 1]
  BY <1>3 DEF Parts
<1>5. /\ z # Len(s) => mem[a + z] # 0 /\ s[z + 1] = mem[a + z]
      /\ z # Len(t) => mem[b + z] # 0 /\ t[z + 1] = mem[b + z]
  <2>1. (z # Len(s) => z \in 0..(Len(s) - 1)) /\ (z # Len(t) => z \in 0..(Len(t) - 1))
    BY <1>1, <1>2, <1>4
  <2> QED  BY <1>1, <1>2, <2>1
<1>6. Over(mem, a, b, z) \/ Unlike(mem, a, b, z)
  BY <1>1, <1>2, <1>4, <1>5 DEF Over, Unlike
<1>7. ASSUME NEW k \in 0..(z - 1) PROVE ~Over(mem, a, b, k) /\ ~Unlike(mem, a, b, k)
  <2>1. k \in 0..(Len(s) - 1) /\ k \in 0..(Len(t) - 1) /\ k + 1 \in 1..z
    BY <1>1, <1>2, <1>4
  <2> QED  BY <1>1, <1>2, <1>4, <2>1 DEF Over, Unlike
<1>8. strcmp(mem, a, b) = Compared(mem, a, b, z)
  BY <1>1, <1>2, <1>6, <1>7, StrcmpIs
<1>9. Order(s, t) = Decides(s, t, z)
  BY <1>1, <1>2, <1>3, OrderIs
<1>10. Compared(mem, a, b, z) = Decides(s, t, z)
  BY <1>1, <1>2, <1>4, <1>5 DEF Compared, Over, Decides
<1> QED  BY <1>8, <1>9, <1>10 DEF s, t

LEMMA PrefixOfOther ==
  ASSUME NEW s \in Seq(0..255), NEW t \in Seq(0..255), NEW z, Parts(s, t, z)
  PROVE  (IsPrefix_(s, t) \/ IsPrefix_(t, s)) <=> z = Len(s) \/ z = Len(t)
<1>1. /\ z \in Nat /\ z <= Len(s) /\ z <= Len(t) /\ Len(s) \in Nat /\ Len(t) \in Nat
      /\ z = Len(s) \/ z = Len(t) \/ s[z + 1] # t[z + 1]
  BY DEF Parts
<1>2. ASSUME NEW x \in Seq(0..255), NEW y \in Seq(0..255), Parts(x, y, z), z = Len(x)
      PROVE  IsPrefix_(x, y)
  <2> DEFINE p == SubSeq(y, 1, z)
  <2>1. p \in Seq(0..255) /\ Len(p) = z /\ \A k \in 1..z : p[k] = y[k]
    <3>1. z <= Len(y)
      BY <1>2 DEF Parts
    <3> QED  BY <1>1, <3>1, PrefixIs
  <2>2. x = p
    <3> HIDE DEF p
    <3> QED  BY <1>2, <2>1, SameList DEF Parts
  <2> QED  BY <1>2, <2>2 DEF IsPrefix_, Parts
<1>3. ASSUME NEW x \in Seq(0..255), NEW y \in Seq(0..255), Parts(x, y, z), IsPrefix_(x, y)
      PROVE  z = Len(x) \/ z = Len(y)
  <2>1. SUFFICES ASSUME z # Len(x), z # Len(y) PROVE FALSE
    OBVIOUS
  <2>2. z <= Len(x) /\ x[z + 1] # y[z + 1]
    BY <1>3, <2>1 DEF Parts
  <2> DEFINE p == SubSeq(y, 1, Len(x))
  <2>3. x = p /\ Len(x) \in Nat /\ Len(x) <= Len(y)
    BY <1>3 DEF IsPrefix_
  <2>4. \A k \in 1..Len(x) : p[k] = y[k]
    BY <2>3, PrefixIs
  <2>5. z + 1 \in 1..Len(x)
    <3>1. Len(x) \in Nat
      OBVIOUS
    <3> QED  BY <1>1, <2>1, <2>2, <3>1
  <2> HIDE DEF p
  <2> QED  BY <2>2, <2>3, <2>4, <2>5
<1>4. Parts(t, s, z)
  BY PartsIsSymmetric
<1> QED  BY <1>2, <1>3, <1>4

LEMMA CutSpelled ==
  ASSUME Inv, NEW a \in Strings, NEW n \in Nat, NEW s, s = Cut(Str(a), n)
  PROVE  /\ a \in Nat /\ s \in Seq(0..255) /\ Len(s) \in Nat /\ Len(s) <= n
         /\ \A k \in 0..(Len(s) - 1) : s[k + 1] = mem[a + k] /\ mem[a + k] # 0
         /\ Len(s) # n => mem[a + Len(s)] = 0
<1> DEFINE t == Str(a)
           l == Len(t)
           c == Fewer(l, n)
           p == SubSeq(t, 1, c)
<1>1. /\ a \in Nat /\ t \in Seq(0..255) /\ l \in Nat
      /\ \A k \in 0..(l - 1) : t[k + 1] = mem[a + k] /\ mem[a + k] # 0
      /\ mem[a + l] = 0
  BY StringSpelled
<1> HIDE DEF t
<1>2. s = p /\ Len(s) = c /\ c \in Nat /\ c <= l
  <2>1. s = Cut(t, n)
    BY DEF t
  <2>2. Len(Cut(t, n)) = c /\ c \in Nat /\ c <= l
    BY <1>1, CutIs
  <2>3. Cut(t, n) = p
    BY <1>1 DEF Cut, Fewer
  <2> QED  BY <2>1, <2>2, <2>3
<1>4. c <= n /\ (c # n => c = l)
  BY <1>1 DEF Fewer
<1> HIDE DEF c
<1>3. p \in Seq(0..255) /\ \A k \in 1..c : p[k] = t[k]
  BY <1>1, <1>2, PrefixIs
<1> HIDE DEF l, p
<1>5. \A k \in 0..(c - 1) : k \in 0..(l - 1) /\ k + 1 \in 1..c
  BY <1>1, <1>2
<1> QED  BY <1>1, <1>2, <1>3, <1>4, <1>5, SMTT(30)

LEMMA StrncmpOrders ==
  ASSUME Inv, NEW a \in Strings, NEW b \in Strings, NEW n \in Nat
  PROVE  LET s == Cut(Str(a), n)  t == Cut(Str(b), n) IN
         strncmp(mem, a, b, n) = IF IsPrefix_(s, t) \/ IsPrefix_(t, s) THEN 0 ELSE Order(s, t)
<1> DEFINE s == Cut(Str(a), n)
           t == Cut(Str(b), n)
<1>1. /\ a \in Nat /\ s \in Seq(0..255) /\ Len(s) \in Nat /\ Len(s) <= n
      /\ \A k \in 0..(Len(s) - 1) : s[k + 1] = mem[a + k] /\ mem[a + k] # 0
      /\ Len(s) # n => mem[a + Len(s)] = 0
  BY CutSpelled
<1>2. /\ b \in Nat /\ t \in Seq(0..255) /\ Len(t) \in Nat /\ Len(t) <= n
      /\ \A k \in 0..(Len(t) - 1) : t[k + 1] = mem[b + k] /\ mem[b + k] # 0
      /\ Len(t) # n => mem[b + Len(t)] = 0
  BY CutSpelled
<1> HIDE DEF s, t
<1>3. PICK z \in Nat : Parts(s, t, z)
  BY <1>1, <1>2, PartSomewhere
<1>4. /\ z <= Len(s) /\ z <= Len(t) /\ \A j \in 1..z : s[j] = t[j]
      /\ z = Len(s) \/ z = Len(t) \/ s[z + 1] # t[z + 1]
  BY <1>3 DEF Parts
<1>5. /\ z # Len(s) => mem[a + z] # 0 /\ s[z + 1] = mem[a + z]
      /\ z # Len(t) => mem[b + z] # 0 /\ t[z + 1] = mem[b + z]
  <2>1. (z # Len(s) => z \in 0..(Len(s) - 1)) /\ (z # Len(t) => z \in 0..(Len(t) - 1))
    BY <1>1, <1>2, <1>4
  <2> QED  BY <1>1, <1>2, <2>1
<1>6. z <= n /\ (z = n \/ Over(mem, a, b, z) \/ Unlike(mem, a, b, z))
  <2>1. z <= n
    BY <1>1, <1>4
  <2>2. z = Len(s) /\ z # n => mem[a + z] = 0
    BY <1>1
  <2>3. z = Len(t) /\ z # n => mem[b + z] = 0
    BY <1>2
  <2> QED  BY <1>4, <1>5, <2>1, <2>2, <2>3 DEF Over, Unlike
<1>7. ASSUME NEW k \in 0..(z - 1) PROVE ~Over(mem, a, b, k) /\ ~Unlike(mem, a, b, k)
  <2>1. k \in 0..(Len(s) - 1) /\ k \in 0..(Len(t) - 1) /\ k + 1 \in 1..z
    BY <1>1, <1>2, <1>4
  <2> QED  BY <1>1, <1>2, <1>4, <2>1 DEF Over, Unlike
<1>8. strncmp(mem, a, b, n) = IF z = n \/ Over(mem, a, b, z) THEN 0 ELSE Differing(mem, a, b, z)
  <2>1. a \in Nat /\ b \in Nat
    BY <1>1, <1>2
  <2> QED  BY <1>6, <1>7, <2>1, StrncmpIs
<1>9. Order(s, t) = Decides(s, t, z)
  BY <1>1, <1>2, <1>3, OrderIs
<1>10. (IsPrefix_(s, t) \/ IsPrefix_(t, s)) <=> z = Len(s) \/ z = Len(t)
  BY <1>1, <1>2, <1>3, PrefixOfOther
<1>11. (z = n \/ Over(mem, a, b, z)) <=> z = Len(s) \/ z = Len(t)
  BY <1>1, <1>2, <1>4, <1>5, <1>6 DEF Over
<1>12. z # Len(s) /\ z # Len(t) => Decides(s, t, z) = Sign(mem[a + z], mem[b + z])
  BY <1>5 DEF Decides
<1> QED  BY <1>8, <1>9, <1>10, <1>11, <1>12 DEF s, t, Differing

LEMMA MemcmpOrders ==
  ASSUME Inv, NEW a \in InBlock, NEW b \in InBlock, NEW n \in Nat, n <= RoomAt(a), n <= RoomAt(b)
  PROVE  memcmp(mem, a, b, n) = Order(Bytes_(a, n), Bytes_(b, n))
<1> DEFINE s == Bytes_(a, n)
           t == Bytes_(b, n)
<1>0. a \in Nat /\ b \in Nat /\ Area(a, n) /\ Area(b, n) /\ mem \in Memory
  BY InBlockArea, MemIsMemory
<1>1. s \in Seq(0..255) /\ Len(s) = n /\ ReadAt(s, mem, a, n)
  <2>1. Spells(s, mem, a, n)
    BY <1>0, ListSpells DEF Bytes_
  <2>2. a \in Nat /\ mem \in Memory
    BY <1>0
  <2> HIDE DEF s
  <2> QED  BY <2>1, <2>2, SpelledAt
<1>2. t \in Seq(0..255) /\ Len(t) = n /\ ReadAt(t, mem, b, n)
  <2>1. Spells(t, mem, b, n)
    BY <1>0, ListSpells DEF Bytes_
  <2>2. b \in Nat /\ mem \in Memory
    BY <1>0
  <2> HIDE DEF t
  <2> QED  BY <2>1, <2>2, SpelledAt
<1> HIDE DEF s, t
<1>3. PICK z \in Nat : Parts(s, t, z)
  BY <1>1, <1>2, PartSomewhere
<1>4. z <= n /\ (\A j \in 1..z : s[j] = t[j]) /\ (z = n \/ s[z + 1] # t[z + 1])
  BY <1>1, <1>2, <1>3 DEF Parts
<1>5. z # n => s[z + 1] = mem[a + z] /\ t[z + 1] = mem[b + z]
  BY <1>1, <1>2, <1>4 DEF ReadAt
<1>6. z = n \/ Unlike(mem, a, b, z)
  BY <1>4, <1>5 DEF Unlike
<1>7. ASSUME NEW k \in 0..(z - 1) PROVE ~Unlike(mem, a, b, k)
  <2>1. k \in 0..(n - 1) /\ k + 1 \in 1..z
    BY <1>4
  <2> QED  BY <1>1, <1>2, <1>4, <2>1 DEF Unlike, ReadAt
<1>8. memcmp(mem, a, b, n) = IF z = n THEN 0 ELSE Differing(mem, a, b, z)
  <2>1. z <= n
    BY <1>4
  <2>2. a \in Nat /\ b \in Nat
    BY <1>0
  <2> QED  BY <1>6, <1>7, <2>1, <2>2, MemcmpIs
<1>9. Order(s, t) = Decides(s, t, z)
  BY <1>1, <1>2, <1>3, OrderIs
<1> QED  BY <1>1, <1>2, <1>5, <1>8, <1>9 DEF Decides, Differing, s, t

LEMMA ComparisonsAreRight == Inv => ComparisonsOrder
<1>1. \A n \in Lengths : n \in Nat
  BY DEF Lengths
<1> QED  BY <1>1, StrcmpOrders, StrncmpOrders, MemcmpOrders DEF ComparisonsOrder

----------------------------------------------------------------------------
(* The first and the last of some places, and the places of a character    *)
(* before the terminator.                                                  *)
FirstOf(T) == IF T = {} THEN NULL ELSE CHOOSE p \in T : \A q \in T : p <= q
LastOf(T) == IF T = {} THEN NULL ELSE CHOOSE p \in T : \A q \in T : q <= p
Hits(m, c, p) == {q \in Nat : p <= q /\ Char(m[q]) = c /\ \A i \in p..q : m[i] # 0}
Shifted(T, d) == {d + k : k \in T}

LEMMA FirstIs ==
  ASSUME NEW T \in SUBSET Nat, NEW p \in T, \A q \in T : p <= q PROVE FirstOf(T) = p
<1>1. ASSUME NEW r \in T, \A q \in T : r <= q PROVE r = p
  <2>1. r \in Nat /\ p \in Nat /\ r <= p /\ p <= r
    BY <1>1
  <2> QED  BY <2>1
<1>2. (CHOOSE r \in T : \A q \in T : r <= q) = p
  BY <1>1
<1> QED  BY <1>2 DEF FirstOf

LEMMA LastIs ==
  ASSUME NEW T \in SUBSET Nat, NEW p \in T, \A q \in T : q <= p PROVE LastOf(T) = p
<1>1. ASSUME NEW r \in T, \A q \in T : q <= r PROVE r = p
  <2>1. r \in Nat /\ p \in Nat /\ r <= p /\ p <= r
    BY <1>1
  <2> QED  BY <2>1
<1>2. (CHOOSE r \in T : \A q \in T : q <= r) = p
  BY <1>1
<1> QED  BY <1>2 DEF LastOf

(* Counting the places from elsewhere moves the first and the last.        *)
LEMMA FirstShifts ==
  ASSUME NEW n \in Nat, NEW T \in SUBSET (1..n), NEW d \in Int, -1 <= d
  PROVE  FirstOf(Shifted(T, d))
         = IF T = {} THEN NULL ELSE d + CHOOSE k \in T : \A j \in T : k <= j
<1>1. CASE T = {}
  <2>1. Shifted(T, d) = {}
    BY <1>1 DEF Shifted
  <2> QED  BY <1>1, <2>1 DEF FirstOf
<1>2. CASE T # {}
  <2>1. T \in SUBSET Nat
    OBVIOUS
  <2>2. PICK k \in T : \A j \in T : k <= j
    BY <1>2, <2>1, HasALeast
  <2>3. (CHOOSE r \in T : \A q \in T : r <= q) = k
    BY <1>2, <2>1, <2>2, FirstIs DEF FirstOf
  <2>4. Shifted(T, d) \in SUBSET Nat /\ d + k \in Shifted(T, d)
    <3>1. \A j \in T : d + j \in Nat
      OBVIOUS
    <3> QED  BY <3>1 DEF Shifted
  <2>5. ASSUME NEW q \in Shifted(T, d) PROVE d + k <= q
    <3>1. PICK j \in T : q = d + j
      BY DEF Shifted
    <3>2. k <= j /\ k \in Nat /\ j \in Nat
      BY <2>2
    <3> QED  BY <3>1, <3>2
  <2>6. FirstOf(Shifted(T, d)) = d + k
    BY <2>4, <2>5, FirstIs
  <2> QED  BY <1>2, <2>3, <2>6
<1> QED  BY <1>1, <1>2

LEMMA LastShifts ==
  ASSUME NEW n \in Nat, NEW T \in SUBSET (1..n), NEW d \in Int, -1 <= d
  PROVE  LastOf(Shifted(T, d))
         = IF T = {} THEN NULL ELSE d + CHOOSE k \in T : \A j \in T : j <= k
<1>1. CASE T = {}
  <2>1. Shifted(T, d) = {}
    BY <1>1 DEF Shifted
  <2> QED  BY <1>1, <2>1 DEF LastOf
<1>2. CASE T # {}
  <2>1. T \in SUBSET Nat /\ T \in SUBSET (0..n)
    OBVIOUS
  <2>2. PICK k \in T : \A j \in T : j <= k
    BY <1>2, <2>1, HasAGreatest
  <2>3. (CHOOSE r \in T : \A q \in T : q <= r) = k
    BY <1>2, <2>1, <2>2, LastIs DEF LastOf
  <2>4. Shifted(T, d) \in SUBSET Nat /\ d + k \in Shifted(T, d)
    <3>1. \A j \in T : d + j \in Nat
      OBVIOUS
    <3> QED  BY <3>1 DEF Shifted
  <2>5. ASSUME NEW q \in Shifted(T, d) PROVE q <= d + k
    <3>1. PICK j \in T : q = d + j
      BY DEF Shifted
    <3>2. j <= k /\ k \in Nat /\ j \in Nat
      BY <2>2
    <3> QED  BY <3>1, <3>2
  <2>6. LastOf(Shifted(T, d)) = d + k
    BY <2>4, <2>5, LastIs
  <2> QED  BY <1>2, <2>3, <2>6
<1> QED  BY <1>1, <1>2

----------------------------------------------------------------------------
(* What one step of strrchr's recursion does to the last place.            *)
LEMMA LastHitSteps ==
  ASSUME NEW m, NEW c, NEW p \in Nat, NEW e \in Nat, p <= e, m[e] = 0
  PROVE  LastOf(Hits(m, c, p))
         = IF m[p] = 0 THEN NULL
           ELSE IF LastOf(Hits(m, c, p + 1)) # NULL THEN LastOf(Hits(m, c, p + 1))
           ELSE IF Char(m[p]) = c THEN p ELSE NULL
<1> DEFINE H == Hits(m, c, p)
           G == Hits(m, c, p + 1)
<1>1. CASE m[p] = 0
  <2>1. p \in p..p
    OBVIOUS
  <2>2. H = {}
    BY <1>1 DEF Hits
  <2> HIDE DEF H
  <2> QED  BY <1>1, <2>2 DEF LastOf, H
<1>2. CASE m[p] # 0
  <2>1. p + 1 <= e /\ p + 1 \in Nat
    BY <1>2
  <2>2. G \in SUBSET (0..e) /\ H \in SUBSET Nat /\ G \in SUBSET Nat
    <3>1. ASSUME NEW q \in G PROVE q \in 0..e
      <4>1. q \in Nat /\ p + 1 <= q /\ \A i \in (p + 1)..q : m[i] # 0
        BY DEF Hits
      <4>2. ~(e <= q)
        BY <2>1, <4>1
      <4> QED  BY <4>1, <4>2
    <3> QED  BY <3>1 DEF Hits
  <2>3. H = G \cup (IF Char(m[p]) = c THEN {p} ELSE {})
    <3>1. ASSUME NEW q \in Nat, q # p PROVE q \in H <=> q \in G
      <4>1. p <= q <=> p + 1 <= q
        BY <3>1
      <4>2. p <= q => p..q = {p} \cup ((p + 1)..q)
        OBVIOUS
      <4> QED  BY <1>2, <4>1, <4>2 DEF Hits
    <3>2. p \notin G /\ (p \in H <=> Char(m[p]) = c)
      <4>1. p..p = {p} /\ ~(p + 1 <= p)
        OBVIOUS
      <4> QED  BY <1>2, <4>1 DEF Hits
    <3> HIDE DEF H, G
    <3> QED  BY <2>2, <3>1, <3>2
  <2>4. \A q \in G : p < q
    <3>1. \A q \in G : q \in Nat /\ p + 1 <= q
      BY DEF Hits
    <3> HIDE DEF G
    <3> QED  BY <3>1
  <2> HIDE DEF H, G
  <2>5. CASE G = {}
    <3>1. LastOf(G) = NULL
      BY <2>5 DEF LastOf
    <3>2. CASE Char(m[p]) = c
      <4>1. H = {p}
        BY <2>3, <2>5, <3>2
      <4>2. LastOf(H) = p
        BY <2>2, <4>1, LastIs
      <4> QED  BY <1>2, <3>1, <3>2, <4>2 DEF H, G
    <3>3. CASE Char(m[p]) # c
      <4>1. H = {}
        BY <2>3, <2>5, <3>3
      <4>2. LastOf(H) = NULL
        BY <4>1 DEF LastOf
      <4> QED  BY <1>2, <3>1, <3>3, <4>2 DEF H, G
    <3> QED  BY <3>2, <3>3
  <2>6. CASE G # {}
    <3>1. PICK z \in G : \A q \in G : q <= z
      BY <2>2, <2>6, HasAGreatest
    <3>2. LastOf(G) = z /\ z # NULL /\ z \in Nat /\ p < z
      <4>1. z \in Nat /\ p < z
        BY <2>2, <2>4, <3>1
      <4> QED  BY <2>2, <3>1, <4>1, LastIs DEF NULL
    <3>3. z \in H /\ \A q \in H : q <= z
      BY <2>3, <3>1, <3>2
    <3>4. LastOf(H) = z
      BY <2>2, <3>3, LastIs
    <3> QED  BY <1>2, <3>2, <3>4 DEF H, G
  <2> QED  BY <2>5, <2>6
<1> QED  BY <1>1, <1>2

LEMMA StrrchrIs ==
  ASSUME NEW m, NEW a, NEW z, NEW c, EndsAt(m, a, z)
  PROVE  strrchr(m, a, c) = LastOf(Hits(m, c, a))
<1> DEFINE Step(g, p) ==
             IF m[p] = 0 THEN NULL
             ELSE IF g[p + 1] # NULL THEN g[p + 1]
             ELSE IF Char(m[p]) = c THEN p ELSE NULL
           Is(g) ==
             g = [p \in Nat |->
                   IF m[p] = 0 THEN NULL
                   ELSE IF g[p + 1] # NULL THEN g[p + 1]
                   ELSE IF Char(m[p]) = c THEN p ELSE NULL]
           f == CHOOSE g : Is(g)
           Last(p) == LastOf(Hits(m, c, p))
<1>0. a \in Nat /\ z \in Nat /\ a <= z /\ m[z] = 0
  BY DEF EndsAt
<1>1. strrchr(m, a, c) = f[a]
  BY DEF strrchr
<1>2. \E g : Is(g)
  <2> DEFINE Ahead(p) == \E e \in Nat : p <= e /\ m[e] = 0
             g == [p \in Nat |-> IF Ahead(p) THEN Last(p) ELSE 1]
  <2>1. ASSUME NEW p \in Nat PROVE g[p] = Step(g, p)
    <3>1. CASE Ahead(p)
      <4>1. PICK e \in Nat : p <= e /\ m[e] = 0
        BY <3>1
      <4>2. m[p] # 0 => Ahead(p + 1)
        <5>1. m[p] # 0 => p + 1 <= e
          BY <4>1
        <5> QED  BY <4>1, <5>1
      <4>3. g[p] = Last(p) /\ (m[p] # 0 => g[p + 1] = Last(p + 1))
        BY <3>1, <4>2
      <4>4. Last(p) = IF m[p] = 0 THEN NULL
                      ELSE IF Last(p + 1) # NULL THEN Last(p + 1)
                      ELSE IF Char(m[p]) = c THEN p ELSE NULL
        BY <4>1, LastHitSteps
      <4> HIDE DEF g, Last
      <4> QED  BY <4>3, <4>4
    <3>2. CASE ~Ahead(p)
      <4>1. m[p] # 0 /\ ~Ahead(p + 1)
        <5>1. \A e \in Nat : p + 1 <= e => p <= e
          OBVIOUS
        <5>2. p <= p
          OBVIOUS
        <5> QED  BY <3>2, <5>1, <5>2
      <4>2. g[p] = 1 /\ g[p + 1] = 1
        BY <3>2, <4>1
      <4> HIDE DEF g
      <4> QED  BY <4>1, <4>2 DEF NULL
    <3> QED  BY <3>1, <3>2
  <2>2. g = [p \in Nat |-> g[p]]
    OBVIOUS
  <2> HIDE DEF g
  <2>3. Is(g)
    BY <2>1, <2>2
  <2> QED  BY <2>3
<1>3. Is(f)
  BY <1>2
<1> HIDE DEF f
<1>4. \A p \in Nat : f[p] = Step(f, p)
  BY <1>3
<1> HIDE DEF Is, Last
<1> DEFINE A == {j \in a..z : f[j] # Last(j)}
<1>5. SUFFICES ASSUME A # {} PROVE FALSE
  BY <1>0, <1>1 DEF Last
<1>6. A \in SUBSET (0..z)
  BY <1>0
<1>7. PICK j \in A : \A i \in A : i <= j
  BY <1>0, <1>5, <1>6, HasAGreatest
<1>8. j \in Nat /\ j \in a..z /\ j <= z /\ f[j] # Last(j)
  BY <1>0
<1>9. Last(j) = IF m[j] = 0 THEN NULL
                ELSE IF Last(j + 1) # NULL THEN Last(j + 1)
                ELSE IF Char(m[j]) = c THEN j ELSE NULL
  BY <1>0, <1>8, LastHitSteps DEF Last
<1>10. m[j] # 0 => f[j + 1] = Last(j + 1)
  <2>1. m[j] # 0 => j + 1 \in a..z /\ ~(j + 1 <= j)
    BY <1>0, <1>8
  <2> QED  BY <1>7, <2>1
<1> QED  BY <1>4, <1>8, <1>9, <1>10

----------------------------------------------------------------------------
(* The loop of strchr.                                                     *)
Stop(m, c, p) == Char(m[p]) = c \/ m[p] = 0

LEMMA StrchrIs ==
  ASSUME NEW m, NEW a \in Nat, NEW c, NEW z \in Nat, a <= z, Stop(m, c, z),
         \A p \in a..(z - 1) : ~Stop(m, c, p)
  PROVE  strchr(m, a, c) = IF Char(m[z]) = c THEN z ELSE NULL
<1> DEFINE Answer(p) == IF Char(m[p]) = c THEN p ELSE NULL
           Is(g) == g = [p \in Nat |->
                          IF Char(m[p]) = c THEN p ELSE IF m[p] = 0 THEN NULL ELSE g[p + 1]]
           f == CHOOSE g : Is(g)
           D == Nat
           S == {p \in D : Stop(m, c, p)}
           v == [p \in D |-> Answer(p)]
<1>1. \A p \in D : v[p] = Answer(p) /\ (p \in S <=> Stop(m, c, p))
  OBVIOUS
<1>2. D \in SUBSET Nat /\ S \in SUBSET D /\ \A p \in D \ S : p + 1 \in D
  OBVIOUS
<1>3. strchr(m, a, c) = f[a]
  BY DEF strchr
<1>4. RunsTo(D, S, a, z) /\ z \in S
  BY DEF RunsTo
<1>5. \A g : LoopOver(D, S, v, g) <=> Is(g)
  <2>1. ASSUME NEW g, NEW p \in D
        PROVE  (IF p \in S THEN v[p] ELSE g[p + 1])
               = IF Char(m[p]) = c THEN p ELSE IF m[p] = 0 THEN NULL ELSE g[p + 1]
    BY <1>1 DEF Stop
  <2> HIDE DEF S, v
  <2> QED  BY <2>1 DEF LoopOver
<1> HIDE DEF D, S, v, f, Is
<1>6. LoopOver(D, S, v, f)
  <2>1. \E g : Is(g)
    BY <1>2, <1>5, LoopExists
  <2>2. Is(f)
    BY <2>1 DEF f
  <2> QED  BY <1>5, <2>2
<1>8. v[z] = Answer(z)
  BY <1>1, <1>2, <1>4
<1> HIDE DEF Answer
<1>7. f[a] = v[z]
  BY <1>2, <1>4, <1>6, LoopStops
<1> QED  BY <1>3, <1>7, <1>8 DEF Answer

LEMMA StrchrFinds ==
  ASSUME NEW m, NEW a, NEW z, NEW c, c # 0, EndsAt(m, a, z)
  PROVE  strchr(m, a, c) = FirstOf(Hits(m, c, a))
<1> DEFINE T == {p \in a..z : Char(m[p]) = c \/ m[p] = 0}
           H == Hits(m, c, a)
<1>1. a \in Nat /\ z \in Nat /\ a <= z /\ m[z] = 0
  BY DEF EndsAt
<1>2. T \in SUBSET Nat /\ T # {}
  BY <1>1
<1>3. PICK p \in T : \A q \in T : p <= q
  BY <1>2, HasALeast
<1>4. p \in Nat /\ a <= p /\ p <= z /\ (Char(m[p]) = c \/ m[p] = 0)
  BY <1>1, <1>3
<1>5. ASSUME NEW q \in a..(p - 1) PROVE Char(m[q]) # c /\ m[q] # 0
  <2>1. q \in a..z /\ ~(p <= q)
    BY <1>1, <1>4
  <2> QED  BY <1>3, <2>1
<1>6. strchr(m, a, c) = IF Char(m[p]) = c THEN p ELSE NULL
  BY <1>1, <1>4, <1>5, StrchrIs DEF Stop
<1>7. \A q \in H : q \in Nat /\ a <= q /\ Char(m[q]) = c /\ \A i \in a..q : m[i] # 0
  BY DEF Hits
<1>8. ASSUME NEW q \in H PROVE p <= q
  BY <1>1, <1>4, <1>5, <1>7
<1>9. CASE Char(m[p]) = c
  <2>1. m[p] # 0
    BY <1>9 DEF Char
  <2>2. \A i \in a..p : m[i] # 0
    BY <1>1, <1>4, <1>5, <2>1
  <2>3. p \in H /\ H \in SUBSET Nat
    BY <1>4, <1>9, <2>2 DEF Hits
  <2> HIDE DEF H
  <2>4. FirstOf(H) = p
    BY <1>8, <2>3, FirstIs
  <2> QED  BY <1>6, <1>9, <2>4 DEF H
<1>10. CASE Char(m[p]) # c
  <2>1. ASSUME NEW q \in H PROVE FALSE
    <3>1. q \in Nat /\ a <= q /\ p <= q /\ \A i \in a..q : m[i] # 0
      BY <1>7, <1>8
    <3>2. p \in a..q
      BY <1>4, <3>1
    <3> QED  BY <1>4, <1>10, <3>1, <3>2
  <2>2. H = {}
    BY <2>1
  <2> QED  BY <1>6, <1>10, <2>2 DEF FirstOf
<1> QED  BY <1>9, <1>10

----------------------------------------------------------------------------
(* The hits in memory are the places in the string, counted from a.        *)
LEMMA HitsAreInTheString ==
  ASSUME Inv, NEW a \in Strings, NEW c, NEW at, at = {k \in 1..Len(Str(a)) : Char(Str(a)[k]) = c}
  PROVE  Hits(mem, c, a) = Shifted(at, a - 1)
<1> DEFINE s == Str(a)
           H == Hits(mem, c, a)
           P == Shifted(at, a - 1)
<1>1. /\ a \in Nat /\ s \in Seq(0..255) /\ Len(s) \in Nat
      /\ \A k \in 0..(Len(s) - 1) : s[k + 1] = mem[a + k] /\ mem[a + k] # 0
      /\ mem[a + Len(s)] = 0
  BY StringSpelled
<1> HIDE DEF s
<1>2. ASSUME NEW q \in H PROVE q \in P
  <2>1. q \in Nat /\ a <= q /\ Char(mem[q]) = c /\ \A i \in a..q : mem[i] # 0
    BY DEF Hits
  <2>2. a + Len(s) \notin a..q
    BY <1>1, <2>1
  <2>3. q < a + Len(s)
    BY <1>1, <2>1, <2>2
  <2> DEFINE k == q - a
  <2>4. k \in 0..(Len(s) - 1) /\ a + k = q /\ k + 1 \in 1..Len(s) /\ (a - 1) + (k + 1) = q
    BY <1>1, <2>1, <2>3
  <2> HIDE DEF k
  <2>5. s[k + 1] = mem[q]
    BY <1>1, <2>4
  <2>6. k + 1 \in at
    BY <2>1, <2>4, <2>5 DEF s
  <2> QED  BY <2>4, <2>6 DEF Shifted
<1>3. ASSUME NEW q \in P PROVE q \in H
  <2>1. PICK k \in at : q = (a - 1) + k
    BY DEF Shifted
  <2>2. k \in 1..Len(s) /\ Char(s[k]) = c
    BY DEF s
  <2> DEFINE j == k - 1
  <2>3. j \in 0..(Len(s) - 1) /\ j + 1 = k /\ a + j = q /\ q \in Nat /\ a <= q
    BY <1>1, <2>1, <2>2
  <2> HIDE DEF j
  <2>4. Char(mem[q]) = c
    BY <1>1, <2>2, <2>3
  <2>5. ASSUME NEW i \in a..q PROVE mem[i] # 0
    <3>1. i - a \in 0..(Len(s) - 1) /\ a + (i - a) = i
      BY <1>1, <2>3
    <3> QED  BY <1>1, <3>1
  <2> QED  BY <2>3, <2>4, <2>5 DEF Hits
<1> HIDE DEF H, P
<1>4. H = P
  BY <1>2, <1>3
<1> QED  BY <1>4 DEF H, P

LEMMA CharactersFound ==
  ASSUME Inv, NEW a \in Strings, NEW c, c # 0
  PROVE  LET at == {k \in 1..Len(Str(a)) : Char(Str(a)[k]) = c} IN
         /\ strchr(mem, a, c) = IF at = {} THEN NULL
                                ELSE a - 1 + CHOOSE k \in at : \A j \in at : k <= j
         /\ strrchr(mem, a, c) = IF at = {} THEN NULL
                                 ELSE a - 1 + CHOOSE k \in at : \A j \in at : j <= k
<1> DEFINE n == Len(Str(a))
           at == {k \in 1..n : Char(Str(a)[k]) = c}
           d == a - 1
<1>1. a \in Nat /\ n \in Nat /\ EndsAt(mem, a, a + n)
  BY StringOf
<1>2. at \in SUBSET (1..n) /\ d \in Int /\ -1 <= d
  BY <1>1
<1>3. Hits(mem, c, a) = Shifted(at, d)
  BY HitsAreInTheString
<1>4. strchr(mem, a, c) = FirstOf(Hits(mem, c, a)) /\ strrchr(mem, a, c) = LastOf(Hits(mem, c, a))
  BY <1>1, StrchrFinds, StrrchrIs
<1> HIDE DEF at, d, n
<1>5. FirstOf(Shifted(at, d)) = IF at = {} THEN NULL ELSE d + CHOOSE k \in at : \A j \in at : k <= j
  BY <1>1, <1>2, FirstShifts
<1>6. LastOf(Shifted(at, d)) = IF at = {} THEN NULL ELSE d + CHOOSE k \in at : \A j \in at : j <= k
  BY <1>1, <1>2, LastShifts
<1> QED  BY <1>3, <1>4, <1>5, <1>6 DEF at, d, n

LEMMA TerminatorFound == ASSUME Inv, NEW a \in Strings PROVE strchr(mem, a, 0) = a + Len(Str(a))
<1> DEFINE z == a + Len(Str(a))
<1>1. a \in Nat /\ Len(Str(a)) \in Nat /\ EndsAt(mem, a, z) /\ mem \in Memory
  BY StringOf, MemIsMemory
<1>2. a <= z /\ z \in Nat /\ a..z \subseteq DOMAIN mem /\ mem[z] = 0 /\ \A p \in a..(z - 1) : mem[p] # 0
  BY <1>1 DEF EndsAt
<1> HIDE DEF z
<1>3. \A p \in a..z : mem[p] \in 0..255
  BY <1>1, <1>2 DEF Memory
<1>4. Char(mem[z]) = 0 /\ Stop(mem, 0, z)
  BY <1>2 DEF Char, Stop
<1>5. ASSUME NEW p \in a..(z - 1) PROVE ~Stop(mem, 0, p)
  <2>1. p \in a..z
    BY <1>1, <1>2
  <2>2. mem[p] \in 0..255 /\ mem[p] # 0
    BY <1>2, <1>3, <2>1
  <2> QED  BY <2>2 DEF Stop, Char
<1> QED  BY <1>1, <1>2, <1>4, <1>5, StrchrIs DEF z

----------------------------------------------------------------------------
LEMMA PartIs ==
  ASSUME NEW S, NEW s \in Seq(S), NEW k \in Nat, NEW e \in Nat, 1 <= k, k <= e, e <= Len(s)
  PROVE  /\ SubSeq(s, k, e) \in Seq(S) /\ Len(SubSeq(s, k, e)) = (e - k) + 1
         /\ \A i \in 1..((e - k) + 1) : SubSeq(s, k, e)[i] = s[k + i - 1]
<1> DEFINE n == (e - k) + 1
           p == [i \in 1..n |-> s[k + i - 1]]
<1>1. n \in Nat /\ Len(s) \in Nat
  OBVIOUS
<1>2. \A i \in 1..n : k + i - 1 \in 1..Len(s)
  BY <1>1
<1>3. \A i \in 1..n : s[k + i - 1] \in S
  BY <1>2
<1>4. p \in Seq(S) /\ Len(p) = n /\ \A i \in 1..n : p[i] = s[k + i - 1]
  BY <1>1, <1>3
<1>5. SubSeq(s, k, e) = p
  BY <1>1
<1> QED  BY <1>4, <1>5

(* A needle matches in memory where it occurs in the string.               *)
LEMMA MatchesAreOccurrences ==
  ASSUME Inv, NEW a \in Strings, NEW b \in Strings,
         NEW k \in 1..(Len(Str(a)) - Len(Str(b)))
  PROVE  Matches(mem, a, b, k - 1) <=> Str(b) # <<>> /\ Occurs(Str(a), Str(b), k)
<1> DEFINE s == Str(a)
           t == Str(b)
           j == k - 1
<1>1. /\ a \in Nat /\ s \in Seq(0..255) /\ Len(s) \in Nat
      /\ \A i \in 0..(Len(s) - 1) : s[i + 1] = mem[a + i] /\ mem[a + i] # 0
  BY StringSpelled
<1>2. /\ b \in Nat /\ t \in Seq(0..255) /\ Len(t) \in Nat
      /\ \A i \in 0..(Len(t) - 1) : t[i + 1] = mem[b + i] /\ mem[b + i] # 0
      /\ mem[b + Len(t)] = 0
  BY StringSpelled
<1>3. strlen(mem, b) = Len(t)
  <2>1. EndsAt(mem, b, b + Len(t))
    BY StringOf
  <2>2. strlen(mem, b) = (b + Len(t)) - b
    BY <2>1, StrlenIs
  <2> HIDE DEF t
  <2> QED  BY <1>2, <2>2
<1>4. k \in 1..(Len(s) - Len(t))
  OBVIOUS
<1> HIDE DEF s, t
<1>5. k \in Nat /\ j \in Nat /\ j <= Len(s) - 1 /\ j + Len(t) <= Len(s) - 1 /\ k = j + 1
  BY <1>1, <1>2, <1>4
<1> HIDE DEF j
<1>6. Matches(mem, a, b, j)
      <=> mem[a + j] = mem[b] /\ \A i \in 0..(Len(t) - 1) : mem[a + j + i] = mem[b + i]
  BY <1>3 DEF Matches
<1>7. CASE Len(t) = 0
  <2>1. mem[b] = 0
    BY <1>2, <1>7
  <2>2. mem[a + j] # 0
    BY <1>1, <1>5
  <2>3. t = <<>>
    BY <1>2, <1>7
  <2> QED  BY <1>6, <2>1, <2>2, <2>3 DEF t, j
<1>8. CASE Len(t) # 0
  <2> DEFINE p == SubSeq(s, k, k + Len(t) - 1)
  <2>1. t # <<>>
    BY <1>8
  <2>2. k + Len(t) - 1 <= Len(s)
    BY <1>1, <1>2, <1>5
  <2>3. p \in Seq(0..255) /\ Len(p) = Len(t) /\ \A i \in 1..Len(t) : p[i] = s[k + i - 1]
    <3> DEFINE e == k + Len(t) - 1
    <3>1. e \in Nat /\ 1 <= k /\ k <= e /\ e <= Len(s) /\ (e - k) + 1 = Len(t)
      BY <1>1, <1>2, <1>5, <1>8, <2>2
    <3>2. p = SubSeq(s, k, e)
      OBVIOUS
    <3>3. s \in Seq(0..255) /\ k \in Nat
      BY <1>1, <1>5
    <3> HIDE DEF e, p
    <3>4. /\ SubSeq(s, k, e) \in Seq(0..255) /\ Len(SubSeq(s, k, e)) = (e - k) + 1
          /\ \A i \in 1..((e - k) + 1) : SubSeq(s, k, e)[i] = s[k + i - 1]
      BY <3>1, <3>3, PartIs, ZenonT(30)
    <3> QED  BY <3>1, <3>2, <3>4
  <2> HIDE DEF p
  <2>4. p = t <=> \A i \in 1..Len(t) : p[i] = t[i]
    <3>1. (\A i \in 1..Len(t) : p[i] = t[i]) => p = t
      BY <1>2, <2>3, SameList
    <3> QED  BY <3>1
  <2>5. ASSUME NEW i \in 0..(Len(t) - 1)
        PROVE  p[i + 1] = mem[a + j + i] /\ t[i + 1] = mem[b + i]
    <3>1. i + 1 \in 1..Len(t) /\ k + (i + 1) - 1 = (j + i) + 1
      BY <1>2, <1>5
    <3>2. p[i + 1] = s[(j + i) + 1]
      BY <2>3, <3>1
    <3>3. j + i \in 0..(Len(s) - 1) /\ a + (j + i) = a + j + i
      BY <1>1, <1>2, <1>5
    <3>4. s[(j + i) + 1] = mem[a + j + i]
      BY <1>1, <3>3
    <3> QED  BY <1>2, <3>2, <3>4
  <2>6. (\A i \in 1..Len(t) : p[i] = t[i])
        <=> \A i \in 0..(Len(t) - 1) : mem[a + j + i] = mem[b + i]
    <3>1. ASSUME \A i \in 1..Len(t) : p[i] = t[i], NEW i \in 0..(Len(t) - 1)
          PROVE  mem[a + j + i] = mem[b + i]
      <4>1. i + 1 \in 1..Len(t)
        BY <1>2
      <4> QED  BY <2>5, <3>1, <4>1
    <3>2. ASSUME \A i \in 0..(Len(t) - 1) : mem[a + j + i] = mem[b + i], NEW i \in 1..Len(t)
          PROVE  p[i] = t[i]
      <4>1. i - 1 \in 0..(Len(t) - 1) /\ (i - 1) + 1 = i
        BY <1>2
      <4>2. p[(i - 1) + 1] = t[(i - 1) + 1]
        BY <2>5, <3>2, <4>1
      <4> QED  BY <4>1, <4>2
    <3> QED  BY <3>1, <3>2
  <2>7. (\A i \in 0..(Len(t) - 1) : mem[a + j + i] = mem[b + i]) => mem[a + j] = mem[b]
    <3>1. 0 \in 0..(Len(t) - 1) /\ a + j + 0 = a + j /\ b + 0 = b
      BY <1>1, <1>2, <1>5, <1>8
    <3> QED  BY <3>1
  <2>8. Matches(mem, a, b, j) <=> p = t
    BY <1>6, <2>4, <2>6, <2>7
  <2> QED  BY <2>1, <2>2, <2>8 DEF Occurs, p, s, t, j
<1> QED  BY <1>7, <1>8

LEMMA NeedlesFound ==
  ASSUME Inv, NEW a \in Strings, NEW b \in Strings
  PROVE  LET s == Str(a)
             t == Str(b)
             at == {k \in 1..(Len(s) - Len(t)) : t # <<>> /\ Occurs(s, t, k)} IN
         /\ strstr(mem, a, b) = IF at = {} THEN NULL
                                ELSE a - 1 + CHOOSE k \in at : \A j \in at : k <= j
         /\ strrstr(mem, a, b) = IF at = {} THEN NULL
                                 ELSE a - 1 + CHOOSE k \in at : \A j \in at : j <= k
<1> DEFINE s == Str(a)
           t == Str(b)
           at == {k \in 1..(Len(s) - Len(t)) : t # <<>> /\ Occurs(s, t, k)}
           ps == Places(mem, a, b)
           d == a - 1
<1>1. a \in Nat /\ Len(s) \in Nat /\ Len(t) \in Nat
  BY StringSpelled
<1>2. strlen(mem, a) = Len(s) /\ strlen(mem, b) = Len(t)
  <2>1. ASSUME NEW e \in Strings PROVE strlen(mem, e) = Len(Str(e))
    <3>1. e \in Nat /\ Len(Str(e)) \in Nat /\ EndsAt(mem, e, e + Len(Str(e)))
      BY StringOf
    <3>2. strlen(mem, e) = (e + Len(Str(e))) - e
      BY <3>1, StrlenIs
    <3> QED  BY <3>1, <3>2
  <2> QED  BY <2>1
<1>3. \A k \in 1..(Len(s) - Len(t)) : Matches(mem, a, b, k - 1) <=> k \in at
  BY MatchesAreOccurrences
<1>4. at \in SUBSET (1..Len(s)) /\ at \in SUBSET (1..(Len(s) - Len(t)))
  <2>1. 1..(Len(s) - Len(t)) \subseteq 1..Len(s)
    BY <1>1
  <2> QED  BY <2>1
<1> HIDE DEF s, t, at
<1>5. ps = {a + i : i \in {j \in 0..(Len(s) - Len(t) - 1) : Matches(mem, a, b, j)}}
  BY <1>2 DEF Places, Offsets
<1>6. ASSUME NEW q \in ps PROVE q \in Shifted(at, d)
  <2>1. PICK i \in 0..(Len(s) - Len(t) - 1) : q = a + i /\ Matches(mem, a, b, i)
    BY <1>5
  <2>2. i + 1 \in 1..(Len(s) - Len(t)) /\ (i + 1) - 1 = i /\ d + (i + 1) = q
    BY <1>1, <2>1
  <2>3. i + 1 \in at
    BY <1>3, <2>1, <2>2
  <2> QED  BY <2>2, <2>3 DEF Shifted
<1>7. ASSUME NEW q \in Shifted(at, d) PROVE q \in ps
  <2>1. PICK k \in at : q = d + k
    BY DEF Shifted
  <2>2. k \in 1..(Len(s) - Len(t)) /\ Matches(mem, a, b, k - 1)
    BY <1>3, <1>4
  <2>3. k - 1 \in 0..(Len(s) - Len(t) - 1) /\ q = a + (k - 1)
    BY <1>1, <2>1, <2>2
  <2> QED  BY <1>5, <2>2, <2>3
<1> HIDE DEF ps
<1>8. ps = Shifted(at, d)
  BY <1>6, <1>7
<1>9. d \in Int /\ -1 <= d
  BY <1>1
<1> HIDE DEF d
<1>10. FirstOf(ps) = IF at = {} THEN NULL ELSE d + CHOOSE k \in at : \A j \in at : k <= j
  BY <1>1, <1>4, <1>8, <1>9, FirstShifts
<1>11. LastOf(ps) = IF at = {} THEN NULL ELSE d + CHOOSE k \in at : \A j \in at : j <= k
  BY <1>1, <1>4, <1>8, <1>9, LastShifts
<1>12. strstr(mem, a, b) = FirstOf(ps) /\ strrstr(mem, a, b) = LastOf(ps)
  BY DEF strstr, strrstr, FirstOf, LastOf, ps
<1> QED  BY <1>10, <1>11, <1>12 DEF at, s, t, d

(* A char is the byte it was made of.                                      *)
LEMMA BytesFound ==
  ASSUME Inv, NEW a \in Strings, NEW byte \in Bytes \ {0}
  PROVE  /\ strchr(mem, a, Char(byte)) = FirstFrom(a, BytePlaces(Str(a), byte))
         /\ strrchr(mem, a, Char(byte)) = LastFrom(a, BytePlaces(Str(a), byte))
<1> DEFINE s == Str(a)
           at == {k \in 1..Len(s) : Char(s[k]) = Char(byte)}
<1>1. s \in Seq(0..255)
  BY StringSpelled
<1>2. byte \in 0..255 /\ byte # 0
  BY ProgramAssumption
<1>3. Char(byte) # 0
  BY <1>2, CharIsOne
<1>4. at = BytePlaces(s, byte)
  <2> HIDE DEF s
  <2>1. ASSUME NEW k \in 1..Len(s) PROVE Char(s[k]) = Char(byte) <=> s[k] = byte
    <3>1. s[k] \in 0..255
      BY <1>1, ElementIs
    <3> QED  BY <1>2, <3>1, CharIsOne
  <2> QED  BY <2>1 DEF BytePlaces
<1>5. /\ strchr(mem, a, Char(byte)) = IF at = {} THEN NULL
                                      ELSE a - 1 + CHOOSE k \in at : \A j \in at : k <= j
      /\ strrchr(mem, a, Char(byte)) = IF at = {} THEN NULL
                                       ELSE a - 1 + CHOOSE k \in at : \A j \in at : j <= k
  BY <1>3, CharactersFound
<1> HIDE DEF at
<1> QED  BY <1>4, <1>5 DEF FirstFrom, LastFrom

(* The place the loops do not try comes behind those they do.              *)
LEMMA PlacesTried ==
  ASSUME NEW s \in Seq(0..255), NEW t \in Seq(0..255), t # <<>>,
         NEW at, at = {k \in 1..(Len(s) - Len(t)) : t # <<>> /\ Occurs(s, t, k)}
  PROVE  /\ at \in SUBSET (1..Len(s)) /\ PlacesOf(s, t) \in SUBSET (1..Len(s))
         /\ at = PlacesOf(s, t) \ {Len(s) - Len(t) + 1}
         /\ \A k \in at : k < Len(s) - Len(t) + 1
<1>1. Len(s) \in Nat /\ Len(t) \in Nat
  OBVIOUS
<1>2. \A k \in 1..(Len(s) - Len(t)) : k \in 1..Len(s) /\ k < Len(s) - Len(t) + 1
  BY <1>1
<1>3. ASSUME NEW k \in 1..Len(s), Occurs(s, t, k), k # Len(s) - Len(t) + 1
      PROVE  k \in 1..(Len(s) - Len(t))
  <2>1. k + Len(t) - 1 <= Len(s)
    BY <1>3 DEF Occurs
  <2> QED  BY <1>1, <1>3, <2>1
<1> QED  BY <1>2, <1>3 DEF PlacesOf

LEMMA NeedlesSearched ==
  ASSUME Inv, NEW a \in Strings, NEW b \in Strings, Str(b) # <<>>
  PROVE  LET s == Str(a)
             t == Str(b)
             at == PlacesOf(s, t) IN
         /\ strstr(mem, a, b) \in {NULL, FirstFrom(a, at)}
         /\ strrstr(mem, a, b) \in {NULL} \cup {a - 1 + k : k \in at}
         /\ Len(s) - Len(t) + 1 \notin at =>
              strstr(mem, a, b) = FirstFrom(a, at) /\ strrstr(mem, a, b) = LastFrom(a, at)
<1> DEFINE s == Str(a)
           t == Str(b)
           at == PlacesOf(s, t)
           tried == {k \in 1..(Len(s) - Len(t)) : t # <<>> /\ Occurs(s, t, k)}
           end == Len(s) - Len(t) + 1
<1>1. s \in Seq(0..255) /\ t \in Seq(0..255)
  BY StringSpelled
<1>2. strstr(mem, a, b) = FirstFrom(a, tried) /\ strrstr(mem, a, b) = LastFrom(a, tried)
  BY NeedlesFound DEF FirstFrom, LastFrom
<1>3. /\ tried \in SUBSET (1..Len(s)) /\ at \in SUBSET (1..Len(s))
      /\ tried = at \ {end} /\ \A k \in tried : k < end
  <2> HIDE DEF s, t
  <2> QED  BY <1>1, PlacesTried DEF s, t
<1>4. Len(s) \in Nat /\ end \in Int
  BY <1>1
<1> HIDE DEF s, t, at, tried, end
<1>5. FirstFrom(a, tried) \in {NULL, FirstFrom(a, at)}
  <2>1. CASE tried = {}
    BY <2>1 DEF FirstFrom
  <2>2. CASE tried # {}
    <3>0. tried \in SUBSET Nat
      BY <1>3, <1>4
    <3>1. PICK p \in tried : \A q \in tried : p <= q
      BY <2>2, <3>0, HasALeast
    <3>2. p \in at /\ \A q \in at : p <= q
      BY <1>3, <1>4, <3>1
    <3>3. \A r \in tried : (\A q \in tried : r <= q) => r = p
      BY <1>3, <1>4, <3>1
    <3>4. \A r \in at : (\A q \in at : r <= q) => r = p
      BY <1>3, <1>4, <3>2
    <3>5. (CHOOSE k \in tried : \A j \in tried : k <= j) = p
      BY <3>1, <3>3
    <3>6. (CHOOSE k \in at : \A j \in at : k <= j) = p
      BY <3>2, <3>4
    <3>7. FirstFrom(a, tried) = a - 1 + p
      BY <2>2, <3>5 DEF FirstFrom
    <3>8. FirstFrom(a, at) = a - 1 + p
      BY <3>2, <3>6 DEF FirstFrom
    <3> QED  BY <3>7, <3>8
  <2> QED  BY <2>1, <2>2
<1>6. LastFrom(a, tried) \in {NULL} \cup {a - 1 + k : k \in at}
  <2>1. CASE tried = {}
    BY <2>1 DEF LastFrom
  <2>2. CASE tried # {}
    <3>0. tried \in SUBSET (0..Len(s))
      BY <1>3, <1>4
    <3>1. \E p \in tried : \A q \in tried : q <= p
      BY <1>4, <2>2, <3>0, HasAGreatest
    <3> DEFINE p == CHOOSE k \in tried : \A j \in tried : j <= k
    <3>2. p \in tried
      BY <3>1
    <3>3. LastFrom(a, tried) = a - 1 + p
      BY <2>2 DEF LastFrom
    <3> HIDE DEF p
    <3>4. p \in at
      BY <1>3, <3>2
    <3> QED  BY <3>3, <3>4
  <2> QED  BY <2>1, <2>2
<1>7. end \notin at => tried = at
  BY <1>3
<1> QED  BY <1>2, <1>5, <1>6, <1>7 DEF s, t, at, end

LEMMA SearchesAreRight == Inv => SearchesFind
<1> SUFFICES ASSUME Inv PROVE SearchesFind
  OBVIOUS
<1> QED  BY BytesFound, TerminatorFound, NeedlesSearched DEF SearchesFind

\* A comparison orders two strings as the first place at which they part does,
\* and a search answers the first or the last place of what it looks for, save
\* for a needle that also ends the haystack, which it may miss, for any strings
\* and bytes the program can have.
THEOREM QueriesStayRight == Spec => []QueriesAgree
<1>1. Inv => QueriesAgree
  BY ComparisonsAreRight, SearchesAreRight DEF QueriesAgree
<1> QED  BY <1>1, InvInit, InvNext, PTL DEF Spec

(* A char is never above 127, so no byte of a string equals such a number. *)
LEMMA HighBytesMissed ==
  ASSUME Inv, NEW a \in Strings, NEW byte \in Bytes, byte > 127
  PROVE  strchr(mem, a, byte) = NULL /\ strrchr(mem, a, byte) = NULL
<1> DEFINE s == Str(a)
           at == {k \in 1..Len(s) : Char(s[k]) = byte}
<1>1. s \in Seq(0..255)
  BY StringSpelled
<1>2. byte \in Int /\ byte > 127 /\ byte # 0
  BY ProgramAssumption
<1>3. /\ strchr(mem, a, byte) = IF at = {} THEN NULL
                                ELSE a - 1 + CHOOSE k \in at : \A j \in at : k <= j
      /\ strrchr(mem, a, byte) = IF at = {} THEN NULL
                                 ELSE a - 1 + CHOOSE k \in at : \A j \in at : j <= k
  BY <1>2, CharactersFound
<1>4. at = {}
  <2> HIDE DEF s
  <2>1. ASSUME NEW k \in 1..Len(s) PROVE Char(s[k]) # byte
    <3>1. s[k] \in 0..255
      BY <1>1, ElementIs
    <3>2. \A x \in 0..255 : Char(x) <= 127
      BY DEF Char
    <3>3. Char(s[k]) <= 127
      BY <3>1, <3>2
    <3> QED  BY <1>2, <3>3
  <2> QED  BY <2>1
<1> HIDE DEF at
<1> QED  BY <1>3, <1>4

(* The only place is the one that is not tried.                            *)
LEMMA EndingNeedlesMissed ==
  ASSUME Inv, NEW a \in Strings, NEW b \in Strings, Str(b) # <<>>,
         PlacesOf(Str(a), Str(b)) = {Len(Str(a)) - Len(Str(b)) + 1}
  PROVE  strstr(mem, a, b) = NULL /\ strrstr(mem, a, b) = NULL
<1> DEFINE s == Str(a)
           t == Str(b)
           tried == {k \in 1..(Len(s) - Len(t)) : t # <<>> /\ Occurs(s, t, k)}
<1>1. s \in Seq(0..255) /\ t \in Seq(0..255)
  BY StringSpelled
<1>2. /\ strstr(mem, a, b) = IF tried = {} THEN NULL
                             ELSE a - 1 + CHOOSE k \in tried : \A j \in tried : k <= j
      /\ strrstr(mem, a, b) = IF tried = {} THEN NULL
                              ELSE a - 1 + CHOOSE k \in tried : \A j \in tried : j <= k
  BY NeedlesFound
<1>3. tried = {}
  <2>1. tried = PlacesOf(s, t) \ {Len(s) - Len(t) + 1}
    <3> HIDE DEF s, t
    <3> QED  BY <1>1, PlacesTried DEF s, t
  <2> QED  BY <2>1
<1> HIDE DEF tried
<1> QED  BY <1>2, <1>3

\* Against their comments the searches miss a byte above 127 passed as an int,
\* wherever it stands, and a needle that only ends the haystack, for any strings
\* and bytes the program can have.
THEOREM SearchesMiss == Spec => [](HighBytesAreMissed /\ EndingNeedlesAreMissed)
<1>1. Inv => HighBytesAreMissed /\ EndingNeedlesAreMissed
  BY HighBytesMissed, EndingNeedlesMissed DEF HighBytesAreMissed, EndingNeedlesAreMissed
<1> QED  BY <1>1, InvInit, InvNext, PTL DEF Spec
=============================================================================
