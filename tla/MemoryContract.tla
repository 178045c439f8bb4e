--------------------------- MODULE MemoryContract ---------------------------
(***************************************************************************)
(* What an allocator promises its caller (src/mem-allocator/README.md):    *)
(* the memory a pointer has been given is aligned, as large as asked for   *)
(* and apart from that of every other pointer, and stays where it is until *)
(* the caller frees or resizes it.                                         *)
(***************************************************************************)
EXTENDS Integers

CONSTANTS Handles, Sizes, Align

VARIABLE live

NoMemory == [ptr |-> -1, size |-> 0]

Init == live = [h \in Handles |-> NoMemory]

Apart(p, q) == p.ptr + p.size <= q.ptr \/ q.ptr + q.size <= p.ptr

(* The memory now given to h, for the first time or in place of another. *)
Give(h) ==
    /\ live'[h].ptr >= 0 /\ live'[h].ptr % Align = 0
    /\ live'[h].size \in Sizes
    /\ \A g \in Handles \ {h} : live[g] # NoMemory => Apart(live'[h], live[g])

Release(h) == live[h] # NoMemory /\ live'[h] = NoMemory

Next == \E h \in Handles :
            /\ Give(h) \/ Release(h)
            /\ live' = [live EXCEPT ![h] = live'[h]]

Spec == Init /\ [][Next]_live

-----------------------------------------------------------------------------
(* No byte is ever given to two pointers. *)
Disjoint ==
    \A g, h \in Handles :
        live[g] # NoMemory /\ live[h] # NoMemory /\ g # h => Apart(live[g], live[h])
=============================================================================
