------------------------------- MODULE MCOsMem -------------------------------
(***************************************************************************)
(* A small instance of OsMem: a header of 4 bytes, an alignment of 2, a    *)
(* threshold and preallocation of 32 and a page of 16.  Of the sizes, 5 is *)
(* padded, 22 is small for os_malloc and mapped by os_calloc, and 30,      *)
(* below the threshold, is mapped by both for the header it needs.  One    *)
(* more block of 5 fits the heap after the preallocation, then sbrk fails. *)
(***************************************************************************)
EXTENDS OsMem

MCSizes == {5, 22, 30}
MCMaxBrk == 40
MCMapAddrs == {1000, 2000}
=============================================================================
