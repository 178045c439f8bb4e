---------------------------- MODULE LibcMemory -----------------------------
(***************************************************************************)
(* mini-libc's heap (src/mm/): every block is a mapping of its own, and a  *)
(* list in the order of addition, of which a node is also a mapping,       *)
(* remembers where each starts and how long it is.  The kernel may refuse  *)
(* a request; it answers with a negative error number, which mmap() and    *)
(* mremap() take for an address unless it is -1.  Lengths count the units  *)
(* that the kernel maps (pages).                                           *)
(***************************************************************************)
EXTENDS LibcString, Sequences, FiniteSets

CONSTANTS Addresses,  \* the addresses the kernel may map
          Sizes,      \* the sizes a program asks for
          MaxBlocks,  \* bound: blocks a program holds
          MaxRefused  \* bound: requests the kernel refuses, those it always refuses included

ASSUME MemoryAssumption ==
  Addresses \subseteq Nat \ {0} /\ Sizes \subseteq Nat /\ MaxRefused \in Nat

EPERM == 1
ENOMEM == 12
EINVAL == 22

VARIABLES mem,      \* the bytes at the addresses
          mapped,   \* the addresses mapped for blocks
          list,     \* mem_list: start and length in the order of addition
          held,     \* the pointers a program got and did not free, with sizes
          errno,
          refused,  \* requests refused so far
          run       \* "runs", "puts", "exited" or "fault"

heapVars == <<mem, mapped, list, held, errno, refused, run>>

Block(start, len) == [start |-> start, len |-> len]
Cells(b) == b.start..(b.start + b.len - 1)

(* The process ends and its memory with it.                                *)
Ends(how) ==
  /\ run' = how /\ mem' = [a \in Addresses |-> 0] /\ mapped' = {} /\ list' = <<>> /\ held' = {}
  /\ UNCHANGED <<errno, refused>>
Fault == Ends("fault")

HeapInit ==
  /\ mem = [a \in Addresses |-> 0]
  /\ mapped = {} /\ list = <<>> /\ held = {} /\ errno = 0 /\ refused = 0
  /\ run = "runs"

(* The kernel: where a mapping may go, that memory starts as zeros (here   *)
(* it is zeroed when it is unmapped as well), and that it may refuse.      *)
Room(len, used) == {Block(a, len) : a \in {x \in Addresses : Cells(Block(x, len)) \subseteq Addresses \ used}}
Zeroed(b) == [a \in Addresses |-> IF a \in Cells(b) THEN 0 ELSE mem[a]]
Refuse == refused < MaxRefused /\ refused' = refused + 1

(* The nodes with a start, of which mem_list_find takes the first, and the *)
(* list without the one that mem_list_extract unlinks.                     *)
Nodes(start) == {i \in 1..Len(list) : list[i].start = start}
mem_list_find(start) == CHOOSE i \in Nodes(start) : \A j \in Nodes(start) : i <= j
mem_list_add(b) == Append(list, b)
mem_list_del(i) == [j \in 1..(Len(list) - 1) |-> IF j < i THEN list[j] ELSE list[j + 1]]

(* What mmap answers goes onto the list and to the program.                *)
Gets(b) == list' = mem_list_add(b) /\ held' = held \cup {b}

(* Of a refusal mmap reports EPERM, which is MAP_FAILED, as such; ENOMEM   *)
(* is an address to it.  A list node at such an address is a fault.        *)
Malloc(size) ==
  \/ size = 0 /\ UNCHANGED heapVars
  \/ /\ \E b \in Room(size, mapped) : mapped' = mapped \cup Cells(b) /\ mem' = Zeroed(b) /\ Gets(b)
     /\ size > 0 /\ UNCHANGED <<errno, refused, run>>
  \/ /\ size > 0 /\ Refuse
     /\ \/ Gets(Block(-ENOMEM, size)) /\ UNCHANGED errno
        \/ errno' = EPERM /\ UNCHANGED <<list, held>>
     /\ UNCHANGED <<mem, mapped, run>>
  \/ size > 0 /\ refused < MaxRefused /\ Fault

(* calloc fills what malloc returned, at -ENOMEM too.                      *)
Calloc(nmemb, size) ==
  LET len == nmemb * size IN
  \/ len = 0 /\ UNCHANGED heapVars
  \/ /\ \E b \in Room(len, mapped) :
          /\ mapped' = mapped \cup Cells(b) /\ Gets(b)
          /\ mem' = memset(Zeroed(b), b.start, 0, len)
     /\ len > 0 /\ UNCHANGED <<errno, refused, run>>
  \/ /\ len > 0 /\ Refuse /\ errno' = EPERM
     /\ UNCHANGED <<mem, mapped, list, held, run>>
  \/ len > 0 /\ refused < MaxRefused /\ Fault

(* free unmaps as many units as the node says, which the kernel does not   *)
(* do at an address that was an error number, and then the node itself.    *)
(* munmap() takes 0 for the failure and sets errno to -0, which it always  *)
(* gets for the node; nobody looks at its result.                          *)
FreeBlock(ptr) ==
  IF Nodes(ptr) = {} THEN Fault
  ELSE LET i == mem_list_find(ptr)
           unmapped == Block(ptr, IF ptr \in Addresses THEN list[i].len ELSE 0) IN
       /\ mapped' = mapped \ Cells(unmapped)
       /\ list' = mem_list_del(i)
       /\ held' = {b \in held : b.start # ptr}
       /\ errno' = 0 /\ mem' = Zeroed(unmapped)
       /\ UNCHANGED <<refused, run>>

(* realloc: mremap moves or resizes the mapping of node->len units.  What  *)
(* mremap answers is the block's new start, an error number too; for -1    *)
(* mem_list_del looks for a block that starts at the node and finds none.  *)
(* A length of 0 and an address that is none are always refused, which     *)
(* counts as a refusal and is bounded with the others.                     *)
KeepsLength(i, b) == [list EXCEPT ![i].start = b.start]             \* mutant
SetNode(i, b) == [list EXCEPT ![i] = b]
Holds(ptr, b) == held' = {h \in held : h.start # ptr} \cup {b}
Invalid(ptr, size) == size = 0 \/ ptr \notin Addresses
Resized(i, ptr, b) == list' = SetNode(i, b) /\ Holds(ptr, b)

Moved(from, to) ==
  [a \in Addresses |-> LET source == from.start + a - to.start IN
     IF a \in Cells(to) THEN IF source \in Cells(from) THEN mem[source] ELSE 0
     ELSE IF a \in Cells(from) THEN 0 ELSE mem[a]]

Realloc(ptr, size) ==
  IF Nodes(ptr) = {} THEN Fault
  ELSE LET i == mem_list_find(ptr)  old == list[i]  rest == mapped \ Cells(old) IN
       \/ /\ ~Invalid(ptr, size)
          /\ \E b \in Room(size, rest) :
               /\ b.start = old.start \/ Cells(b) \cap Cells(old) = {}
               /\ mapped' = rest \cup Cells(b) /\ mem' = Moved(old, b)
               /\ Resized(i, ptr, b)
          /\ UNCHANGED <<errno, refused, run>>
       \/ /\ Refuse
          /\ \/ /\ Resized(i, ptr, Block(IF Invalid(ptr, size) THEN -EINVAL ELSE -ENOMEM, size))
                /\ UNCHANGED errno
             \/ ~Invalid(ptr, size) /\ errno' = EPERM /\ UNCHANGED <<list, held>>
          /\ UNCHANGED <<mem, mapped, run>>

reallocarray(ptr, nmemb, size) == Realloc(ptr, nmemb * size)

(* __libc_start_main: when main returns mem_list_cleanup unmaps the nodes  *)
(* and the process exits.                                                  *)
Return == Ends("exited")
=============================================================================
