-------------------------------- MODULE OsMem --------------------------------
(***************************************************************************)
(* The allocator of src/mem-allocator/src/osmem.c and the program that     *)
(* calls it.  A block is a header and its payload.  blocks is the list in  *)
(* the order of the next pointers from list_head; prev and list_tail are   *)
(* kept as the addresses they hold, since the code lets them grow stale.   *)
(*                                                                         *)
(* A call runs to its end before the next one, its loops and its nested    *)
(* calls step by step.  Where the code follows a pointer to a header that  *)
(* is no longer a block, or writes past a mapping, fault says which, and   *)
(* the model goes no further.                                              *)
(***************************************************************************)
EXTENDS Integers, Sequences, FiniteSets, SequencesExt

CONSTANTS Handles,          \* the caller's pointer variables
          Sizes,            \* the sizes it asks for
          Operations,       \* subset of {"malloc", "calloc", "realloc"}
          MetaSize,         \* META_SIZE
          Align,            \* 8
          MmapThreshold,    \* MMAP_THRESHOLD
          PageSize,         \* getpagesize()
          MaxBrk,           \* the heap's limit: sbrk fails beyond it
          MapAddrs          \* where mmap may place a mapping

ASSUME MemAssumption ==
    /\ {MetaSize, Align, MmapThreshold, PageSize, MaxBrk} \subseteq Nat \ {0}
    /\ Sizes \subseteq Nat \ {0}
    /\ Operations \subseteq {"malloc", "calloc", "realloc"}
    /\ PageSize <= MmapThreshold /\ MmapThreshold <= MaxBrk
    /\ MmapThreshold % Align = 0 /\ MetaSize + Align <= MmapThreshold
    /\ MapAddrs \subseteq Nat
    /\ \A a \in MapAddrs : a > MaxBrk

Null == -1
NoCall == [op |-> "none"]
NoMemory == [ptr |-> Null, size |-> 0]

VARIABLES blocks,           \* the list: addr, size, status, prev of each block
          tail,             \* list_tail
          brk,              \* the program break; the heap starts at 0
          pc,
          call,             \* the call that runs: op, handle, size, to
          cur,              \* index of current in coalesce_free_blocks
          live,             \* what each of the caller's pointers points to
          fault

vars == <<blocks, tail, brk, pc, call, cur, live, fault>>

padding(n) == IF n % Align = 0 THEN 0 ELSE Align - (n % Align)
Padded(n) == n + padding(n)
Header == MetaSize + padding(MetaSize)

ASSUME MapAssumption ==       \* what mmap places is aligned and overlaps nothing
    /\ \A a \in MapAddrs : a % Align = 0
    /\ \A a, b \in MapAddrs, n \in Sizes : a < b => a + Header + Padded(n) <= b

Block(addr, size, status, prev) ==
    [addr |-> addr, size |-> size, status |-> status, prev |-> prev]

Listed(addr) == \E i \in DOMAIN blocks : blocks[i].addr = addr
IndexOf(addr) == CHOOSE i \in DOMAIN blocks : blocks[i].addr = addr
Current == IndexOf(live[call.handle].ptr - Header)      \* of os_realloc

Init ==
    /\ blocks = <<>> /\ tail = Null /\ brk = 0
    /\ pc = "idle" /\ call = NoCall /\ cur = 1
    /\ live = [h \in Handles |-> NoMemory]
    /\ fault = "none"

Fault(kind) ==
    /\ fault' = kind
    /\ pc' = "crashed"
    /\ UNCHANGED <<blocks, tail, brk, call, cur, live>>

-----------------------------------------------------------------------------
(* The caller *)

Call(op, h, n) ==             \* every call with a size coalesces first
    /\ pc = "idle"
    /\ op \in Operations
    /\ (op = "realloc") <=> (live[h] # NoMemory)
    /\ call' = [op |-> op, handle |-> h, size |-> n, to |-> Null]
    /\ pc' = "coalesce"
    /\ UNCHANGED <<blocks, tail, brk, cur, live, fault>>

Finish(h, addr) ==            \* the call returns the payload of block addr
    /\ live' = [live EXCEPT ![h] = [ptr |-> addr + Header, size |-> call.size]]
    /\ pc' = "idle" /\ call' = NoCall

(* os_malloc's result goes to the caller, or to the os_realloc that moves. *)
Return(addr) ==
    IF call.op = "move"
    THEN pc' = "copy" /\ call' = [call EXCEPT !.to = addr] /\ UNCHANGED live
    ELSE Finish(call.handle, addr)

(* A failing sbrk or mmap: DIE ends the program. *)
Die == pc' = "exit" /\ UNCHANGED <<blocks, tail, brk, call, cur, live, fault>>

-----------------------------------------------------------------------------
(* coalesce_free_blocks *)

(* mutant: the header of the merged block is forgotten *)
MergedPayloads(i) == [blocks[i] EXCEPT !.size = @ + blocks[i + 1].size]

Merged(i) == [blocks[i] EXCEPT !.size = @ + blocks[i + 1].size + Header]

(* mutant: two blocks are merged, and the third is left *)
MergeOnce ==
    /\ pc = "coalesce"
    /\ cur < Len(blocks)
    /\ blocks[cur].status = "FREE" /\ blocks[cur + 1].status = "FREE"
    /\ blocks' = RemoveAt([blocks EXCEPT ![cur] = Merged(cur)], cur + 1)
    /\ cur' = cur + 1
    /\ tail' = IF cur + 1 = Len(blocks) THEN blocks[cur].addr ELSE tail
    /\ UNCHANGED <<brk, pc, call, live, fault>>

MergeNext ==
    /\ pc = "coalesce"
    /\ cur < Len(blocks)
    /\ blocks[cur].status = "FREE" /\ blocks[cur + 1].status = "FREE"
    /\ blocks' = RemoveAt([blocks EXCEPT ![cur] = Merged(cur)], cur + 1)
    /\ UNCHANGED <<tail, brk, pc, call, cur, live, fault>>

Advance ==
    /\ pc = "coalesce"
    /\ cur <= Len(blocks)
    /\ blocks[cur].status # "UNMAPPED"
    /\ cur < Len(blocks) =>
          ~(blocks[cur].status = "FREE" /\ blocks[cur + 1].status = "FREE")
    /\ cur' = cur + 1
    /\ tail' = IF cur = Len(blocks) THEN blocks[cur].addr ELSE tail
    /\ UNCHANGED <<blocks, brk, pc, call, live, fault>>

ReadUnmapped ==               \* the list leads into memory that is gone
    /\ pc = "coalesce"
    /\ cur <= Len(blocks)
    /\ blocks[cur].status = "UNMAPPED"
    /\ Fault("unmapped block")

Coalesced ==
    /\ pc = "coalesce"
    /\ cur > Len(blocks)
    /\ pc' = IF call.op = "realloc" THEN "resize" ELSE "place"
    /\ cur' = 1
    /\ UNCHANGED <<blocks, tail, brk, call, live, fault>>

-----------------------------------------------------------------------------
(* os_malloc and os_calloc, after coalescing *)

Limit == IF call.op = "calloc" THEN PageSize ELSE MmapThreshold
Small == call.size + MetaSize < Limit
Wanted == Padded(call.size)

checkPrealloc == \A i \in DOMAIN blocks : blocks[i].status = "MAPPED"

heap_preallocation ==
    /\ pc = "place" /\ Small /\ checkPrealloc
    /\ IF brk + MmapThreshold > MaxBrk THEN Die
       ELSE IF blocks = <<>> /\ tail # Null THEN Fault("dangling tail")
       ELSE /\ blocks' = Append(blocks, Block(brk, MmapThreshold - Header, "FREE", tail))
            /\ tail' = brk
            /\ brk' = brk + MmapThreshold
            /\ UNCHANGED <<pc, call, cur, live, fault>>

(* mutant: the status is not looked at *)
FitsInUse == {i \in DOMAIN blocks : blocks[i].status # "MAPPED" /\ blocks[i].size >= Wanted}

(* mutant: a block of the very size is passed over *)
FitsLarger == {i \in DOMAIN blocks : blocks[i].status = "FREE" /\ blocks[i].size > Wanted}

Fits == {i \in DOMAIN blocks : blocks[i].status = "FREE" /\ blocks[i].size >= Wanted}

(* The smallest of them, the first one of equal size. *)
find_best_block ==
    CHOOSE i \in Fits : \A j \in Fits :
        \/ blocks[i].size < blocks[j].size
        \/ blocks[i].size = blocks[j].size /\ i <= j

(* mutant: the block after the new one still points to block i *)
SplitHalfLinked(i, size) ==
    LET rest == Block(blocks[i].addr + Header + size,
                      blocks[i].size - size - Header, "FREE", blocks[i].addr)
        kept == [blocks EXCEPT ![i].size = size, ![i].status = "ALLOC"]
    IN  /\ blocks' = InsertAt(kept, i + 1, rest)
        /\ tail' = IF i = Len(blocks) THEN rest.addr ELSE tail

(* split_block: block i keeps size, the rest becomes a free block. *)
Split(i, size) ==
    LET rest == Block(blocks[i].addr + Header + size,
                      blocks[i].size - size - Header, "FREE", blocks[i].addr)
        kept == [blocks EXCEPT ![i].size = size, ![i].status = "ALLOC"]
    IN  /\ blocks' = InsertAt(IF i = Len(blocks) THEN kept
                              ELSE [kept EXCEPT ![i + 1].prev = rest.addr], i + 1, rest)
        /\ tail' = IF i = Len(blocks) THEN rest.addr ELSE tail

Keep(i) == blocks' = [blocks EXCEPT ![i].status = "ALLOC"] /\ UNCHANGED tail

(* mutant: a block is split whenever it is too large *)
TooLarge(i) == Wanted < blocks[i].size

(* What block i has to spare is more than a header. *)
LeavesRoom(i) == Header < blocks[i].size - Wanted

UseBest ==
    /\ pc = "place" /\ Small /\ ~checkPrealloc
    /\ Fits # {}
    /\ LET i == find_best_block
       IN  /\ IF LeavesRoom(i) THEN Split(i, Wanted) ELSE Keep(i)
           /\ Return(blocks[i].addr)
    /\ UNCHANGED <<brk, cur, fault>>

extend_last_block(i) ==
    IF brk + Wanted - blocks[i].size > MaxBrk THEN Die
    ELSE /\ brk' = brk + Wanted - blocks[i].size
         /\ blocks' = [blocks EXCEPT ![i].size = Wanted, ![i].status = "ALLOC"]
         /\ Return(blocks[i].addr)
         /\ UNCHANGED <<tail, cur, fault>>

ExtendLast ==
    /\ pc = "place" /\ Small /\ ~checkPrealloc
    /\ Fits = {} /\ Last(blocks).status = "FREE"
    /\ extend_last_block(Len(blocks))

add_new_block ==
    /\ pc = "place" /\ Small /\ ~checkPrealloc
    /\ Fits = {} /\ Last(blocks).status # "FREE"
    /\ IF brk + Header + Wanted > MaxBrk THEN Die
       ELSE /\ blocks' = Append(blocks, Block(brk, Wanted, "ALLOC", tail))
            /\ tail' = brk
            /\ brk' = brk + Header + Wanted
            /\ Return(brk)
            /\ UNCHANGED <<cur, fault>>

Mapped == {blocks[i].addr : i \in {j \in DOMAIN blocks : blocks[j].status = "MAPPED"}}

(* memset(payload, 0, total_size) reaches a header's length too far: past  *)
(* the mapping unless its last page has room.                              *)
Overruns ==
    LET used == (Header + Wanted) % PageSize
    IN  used = 0 \/ used + Header > PageSize

memory_mapping(addr) ==
    /\ pc = "place" /\ ~Small
    /\ addr \notin Mapped
    /\ IF call.op = "calloc" /\ Overruns THEN Fault("overrun")
       ELSE /\ blocks' = Append(blocks, Block(addr, Wanted, "MAPPED", tail))
            /\ tail' = addr
            /\ Return(addr)
            /\ UNCHANGED <<brk, cur, fault>>

MmapFails == pc = "place" /\ ~Small /\ MapAddrs \subseteq Mapped /\ Die

-----------------------------------------------------------------------------
(* os_free *)

Linked(i) == blocks[i].prev = blocks[i - 1].addr

(* The list without block i.  With a stale prev the store to prev->next    *)
(* misses the block before it, and the list still leads to the memory that *)
(* is gone.                                                                *)
Unlinked(i) ==
    LET gone == IF i = 1 \/ Linked(i) THEN RemoveAt(blocks, i)
                ELSE [blocks EXCEPT ![i].status = "UNMAPPED"]
        next == IF Len(gone) = Len(blocks) THEN i + 1 ELSE i
    IN  IF i = Len(blocks) THEN gone
        ELSE [gone EXCEPT ![next].prev = IF i = 1 THEN Null ELSE blocks[i].prev]

(* current->next, if os_free goes there, is memory that is gone, or NULL. *)
UnlinkFaults(i) ==
    /\ blocks[i].status = "MAPPED"
    /\ \/ i < Len(blocks) /\ blocks[i + 1].status = "UNMAPPED"
       \/ 1 < i /\ i = Len(blocks) /\ tail # blocks[i].addr

os_free(i) ==
    IF blocks[i].status = "MAPPED"
    THEN /\ blocks' = Unlinked(i)
         /\ tail' = IF i > 1 /\ blocks[i].addr = tail THEN blocks[i].prev ELSE tail
    ELSE blocks' = [blocks EXCEPT ![i].status = "FREE"] /\ UNCHANGED tail

Free(h) ==
    /\ pc = "idle"
    /\ live[h] # NoMemory
    /\ LET i == IndexOf(live[h].ptr - Header)
       IN  IF UnlinkFaults(i) THEN Fault("unmapped block")
           ELSE /\ os_free(i)
                /\ live' = [live EXCEPT ![h] = NoMemory]
                /\ UNCHANGED <<brk, pc, call, cur, fault>>

-----------------------------------------------------------------------------
(* os_realloc, after coalescing *)

(* mutant: os_realloc starts over *)
MoveByRealloc ==
    /\ pc' = "coalesce"
    /\ UNCHANGED <<blocks, tail, brk, call, cur, live, fault>>

(* os_malloc(size), from its start; the copy follows. *)
Move ==
    /\ call' = [call EXCEPT !.op = "move"]
    /\ pc' = "coalesce"
    /\ UNCHANGED <<blocks, tail, brk, cur, live, fault>>

MoveMapped == pc = "resize" /\ blocks[Current].status = "MAPPED" /\ Move

IsTail == blocks[Current].addr = tail

GrowTail ==
    /\ pc = "resize" /\ blocks[Current].status = "ALLOC" /\ IsTail
    /\ blocks[Current].size < Wanted
    /\ extend_last_block(Current)

(* A free block after it is merged into the block; if it was the tail,     *)
(* list_tail keeps its address.                                            *)
AbsorbNext ==
    /\ pc = "resize" /\ blocks[Current].status = "ALLOC" /\ ~IsTail
    /\ pc' = "fit"
    /\ LET i == Current
           merged == RemoveAt([blocks EXCEPT ![i] = Merged(i)], i + 1)
       IN  blocks' = IF blocks[i + 1].status # "FREE" THEN blocks
                     ELSE IF i = Len(merged) THEN merged
                     ELSE [merged EXCEPT ![i + 1].prev = blocks[i].addr]
    /\ UNCHANGED <<tail, brk, call, cur, live, fault>>

Truncate ==
    /\ \/ pc = "resize" /\ blocks[Current].status = "ALLOC" /\ IsTail
       \/ pc = "fit"
    /\ Wanted <= blocks[Current].size
    /\ IF blocks[Current].size - Wanted >= Header + Align
       THEN Split(Current, Wanted) ELSE Keep(Current)
    /\ Finish(call.handle, blocks[Current].addr)
    /\ UNCHANGED <<brk, cur, fault>>

TooSmall == pc = "fit" /\ blocks[Current].size < Wanted

LastBrk == Max({i \in DOMAIN blocks : blocks[i].status \in {"FREE", "ALLOC"}})

(* find_last_brk_free goes from list_tail over the mapped blocks along     *)
(* prev and gets to the last block of the heap.                            *)
ReachesLastBrk ==
    /\ tail = Last(blocks).addr
    /\ \A i \in LastBrk + 1 .. Len(blocks) : Linked(i)

(* Otherwise it gets to a header that was merged: still FREE and as large  *)
(* as it was if it has just been absorbed, anything if a payload has lain  *)
(* over it since.                                                          *)
Overwritten == ~ReachesLastBrk /\ Listed(tail)

MoveBlock ==
    /\ TooSmall
    /\ \/ Wanted >= MmapThreshold
       \/ ReachesLastBrk /\ blocks[LastBrk].status # "FREE"
       \/ Fits # {}
       \/ Overwritten
    /\ Move

ExtendLastFree ==
    /\ TooSmall /\ Wanted < MmapThreshold
    /\ Fits = {}
    /\ ReachesLastBrk /\ blocks[LastBrk].status = "FREE"
    /\ IF brk + Wanted - blocks[LastBrk].size > MaxBrk THEN Die
       ELSE /\ brk' = brk + Wanted - blocks[LastBrk].size
            /\ blocks' = [blocks EXCEPT ![LastBrk].size = Wanted,
                                        ![LastBrk].status = "ALLOC"]
            /\ pc' = "copy"
            /\ call' = [call EXCEPT !.to = blocks[LastBrk].addr]
            /\ UNCHANGED <<tail, cur, live, fault>>

UseStaleHeader ==
    /\ TooSmall /\ Wanted < MmapThreshold
    /\ ~ReachesLastBrk
    /\ Fits = {} \/ Overwritten
    /\ Fault("stale block")

(* mutant: as many bytes are copied as the new block is to have *)
CopyWanted == call.size

(* memcpy(new_ptr, ptr, CopyLength) *)
CopyLength ==
    LET old == blocks[Current]
    IN  IF old.status = "MAPPED" /\ old.size >= call.size THEN call.size ELSE old.size

CopyAndFree ==
    /\ pc = "copy"
    /\ os_free(Current)
    /\ Finish(call.handle, call.to)
    /\ UNCHANGED <<brk, cur, fault>>

-----------------------------------------------------------------------------
Start(h) == (\E op \in Operations, n \in Sizes : Call(op, h, n)) \/ Free(h)

Loop == MergeNext \/ Advance \/ ReadUnmapped \/ Coalesced

Place == \/ heap_preallocation \/ UseBest \/ ExtendLast \/ add_new_block
         \/ (\E a \in MapAddrs : memory_mapping(a)) \/ MmapFails

Resize == \/ MoveMapped \/ GrowTail \/ AbsorbNext \/ Truncate
          \/ MoveBlock \/ ExtendLastFree \/ UseStaleHeader \/ CopyAndFree

Next == (\E h \in Handles : Start(h)) \/ Loop \/ Place \/ Resize

Spec == Init /\ [][Next]_vars

(* One thread: a call that has started goes on. *)
FairSpec == Spec /\ WF_vars(Loop \/ Place \/ Resize)

-----------------------------------------------------------------------------
Statuses == {"FREE", "ALLOC", "MAPPED", "UNMAPPED"}
Faults == {"none", "dangling tail", "unmapped block", "stale block", "overrun"}

BlockType == [addr : Nat, size : Nat, status : Statuses, prev : Nat \cup {Null}]

TypeOK ==
    /\ blocks \in Seq(BlockType)
    /\ tail \in Nat \cup {Null}
    /\ brk \in 0 .. MaxBrk
    /\ pc \in {"idle", "coalesce", "place", "resize", "fit", "copy", "exit", "crashed"}
    /\ call \in {NoCall} \cup [op : Operations \cup {"move"}, handle : Handles,
                                size : Sizes, to : Nat \cup {Null}]
    /\ cur \in Nat \ {0}
    /\ live \in [Handles -> {NoMemory} \cup [ptr : Nat, size : Sizes]]
    /\ fault \in Faults

InHeap(i) == blocks[i].status \in {"FREE", "ALLOC"}
InUse(i) == blocks[i].status \in {"ALLOC", "MAPPED"}
End(i) == blocks[i].addr + Header + blocks[i].size

(***************************************************************************)
(* The blocks of the heap lie in the order of the list and fill it from    *)
(* its start to the program break without a gap: splitting, merging,       *)
(* extending and truncating lose no byte, and the heap is preallocated     *)
(* only once.  Each block is aligned and has room for a payload.           *)
(***************************************************************************)
HeapTiled ==
    /\ \A i \in DOMAIN blocks : InHeap(i) =>
          /\ blocks[i].addr = Max({0} \cup {End(j) : j \in {k \in 1 .. i - 1 : InHeap(k)}})
          /\ blocks[i].addr % Align = 0
          /\ blocks[i].size % Align = 0 /\ blocks[i].size > 0
    /\ brk = Max({0} \cup {End(j) : j \in {k \in DOMAIN blocks : InHeap(k)}})

(***************************************************************************)
(* Every block in use belongs to one of the caller's pointers, or to the   *)
(* os_realloc that is about to return it, and has the size asked for; no   *)
(* two pointers share one.                                                 *)
(***************************************************************************)
BlocksMatchPointers ==
    /\ \A h \in Handles : live[h] # NoMemory =>
          \E i \in DOMAIN blocks : /\ InUse(i)
                                   /\ live[h].ptr = blocks[i].addr + Header
                                   /\ live[h].size <= blocks[i].size
    /\ \A g, h \in Handles : live[g].ptr = live[h].ptr /\ live[g] # NoMemory => g = h
    /\ \A i \in DOMAIN blocks : InUse(i) =>
          \/ \E h \in Handles : live[h].ptr = blocks[i].addr + Header
          \/ pc = "copy" /\ call.to = blocks[i].addr

(* After any calls the heap is tiled by its blocks, and those in use are   *)
(* exactly what the caller's pointers stand for.                           *)
HeapInv == HeapTiled /\ BlocksMatchPointers

(***************************************************************************)
(* Before a free block is looked for, no two neighbours in the list are    *)
(* free: what one request needs is never left in pieces.                   *)
(***************************************************************************)
CoalescedForSearch ==
    pc \in {"place", "resize", "fit"} =>
        \A i \in 1 .. Len(blocks) - 1 :
            ~(blocks[i].status = "FREE" /\ blocks[i + 1].status = "FREE")

(***************************************************************************)
(* A moving os_realloc copies all that both blocks can hold of the         *)
(* caller's bytes, and no more than the new one holds, between two blocks  *)
(* that are in use and apart.                                              *)
(***************************************************************************)
CopyKeepsContents ==
    pc = "copy" =>
        LET old == blocks[Current]
            new == blocks[IndexOf(call.to)]
        IN  /\ Listed(call.to) /\ old.addr # new.addr
            /\ InUse(Current) /\ InUse(IndexOf(call.to))
            /\ CopyLength >= Min({live[call.handle].size, call.size})
            /\ CopyLength <= new.size /\ CopyLength <= old.size

(***************************************************************************)
(* How far the prev pointers may be off: they lead into the block before,  *)
(* to its header or to one it has merged, as long as no mapping that was   *)
(* unlinked through such a pointer is still in the list.                   *)
(***************************************************************************)
PrevLeadsIntoPredecessor ==
    (\A i \in DOMAIN blocks : blocks[i].status # "UNMAPPED") =>
        \A i \in 2 .. Len(blocks) : blocks[i].prev \in blocks[i - 1].addr .. End(i - 1) - 1

(***************************************************************************)
(* os_malloc and os_calloc move the program break only if the free space   *)
(* has nowhere enough contiguous bytes, in however many blocks it lies.    *)
(***************************************************************************)
FreeRun(i, j) == \A k \in i .. j : blocks[k].status = "FREE"

GrowsOnlyWhenFull ==
    [][brk' > brk /\ call.op \in {"malloc", "calloc"} =>
          \A i, j \in DOMAIN blocks :
              i <= j /\ FreeRun(i, j) => End(j) - blocks[i].addr - Header < Wanted]_vars

(* A call ends: it returns, or the program dies of a failed system call    *)
(* or of a fault.                                                          *)
CallsReturn == (pc # "idle") ~> (pc \in {"idle", "exit", "crashed"})

Memory == INSTANCE MemoryContract
MemorySpec == Memory!Spec

=============================================================================
