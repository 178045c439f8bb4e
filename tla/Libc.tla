------------------------------- MODULE Libc --------------------------------
(***************************************************************************)
(* A program that uses mini-libc: it allocates, resizes and frees blocks,  *)
(* stores bytes in them, copies strings between them, prints them with     *)
(* puts and makes system calls through the wrappers.  It keeps to the      *)
(* contracts: it writes inside its blocks and frees what it got.           *)
(***************************************************************************)
EXTENDS LibcMemory

CONSTANTS Bytes,    \* the bytes a program stores
          Answers,  \* what the kernel answers to a system call, or -errno
          IntHalf   \* bound: an int holds -IntHalf..(IntHalf - 1)

ASSUME ProgramAssumption ==
  /\ Bytes \subseteq 0..255 /\ Answers \subseteq Int /\ IntHalf \in Nat \ {0}
  /\ \A answer \in Answers : -IntHalf <= answer   \* an error number fits an int

VARIABLES output,   \* what was written to standard output
          todo,     \* the string puts prints, its length, bytes written
          last      \* the last call of a wrapper and what it returned

vars == <<heapVars, output, todo, last>>
EINTR == 4
Newline == 10
NoString == [str |-> 0, size |-> 0, total |-> 0]
NoCall == [name |-> "none", answer |-> 0, ret |-> 0]

Init == HeapInit /\ output = <<>> /\ todo = NoString /\ last = NoCall

----------------------------------------------------------------------------
(* The wrappers store the kernel's answer in an int.                       *)
ToInt(x) == ((x + IntHalf) % (2 * IntHalf)) - IntHalf
\* mutant: errno gets the negative number
KeepsSign(answer) == IF answer < 0 THEN <<-1, answer>> ELSE <<ToInt(answer), errno>>
Reports(answer) ==
  LET ret == ToInt(answer) IN IF ret < 0 THEN <<-1, -ret>> ELSE <<ret, errno>>

open(answer) == Reports(answer)
close(answer) == Reports(answer)
read(answer) == Reports(answer)
write(answer) == Reports(answer)
lseek(answer) == Reports(answer)
truncate(answer) == Reports(answer)
ftruncate(answer) == Reports(answer)
stat(answer) == Reports(answer)
fstat(answer) == Reports(answer)
nanosleep(answer) == Reports(answer)
(* The -1 of nanosleep is taken for an error number.                       *)
sleep(answer) == IF nanosleep(answer)[1] < 0 THEN <<-1, 1>> ELSE nanosleep(answer)

SystemCall ==
  \E answer \in Answers :
    \E r \in {<<"open", open(answer)>>, <<"close", close(answer)>>, <<"read", read(answer)>>,
              <<"write", write(answer)>>, <<"lseek", lseek(answer)>>,
              <<"truncate", truncate(answer)>>, <<"ftruncate", ftruncate(answer)>>,
              <<"stat", stat(answer)>>, <<"fstat", fstat(answer)>>,
              <<"nanosleep", nanosleep(answer)>>, <<"sleep", sleep(answer)>>} :
      /\ (held = {} /\ errno = 0) \/ last # NoCall  \* bound: before or instead of allocating
      /\ last' = [name |-> r[1], answer |-> answer, ret |-> r[2][1]]
      /\ errno' = r[2][2]
      /\ UNCHANGED <<mem, mapped, list, held, refused, run, output, todo>>

----------------------------------------------------------------------------
(* Strings inside a block, and the room from an address to the block's end.*)
Usable == {b \in held : b.start > 0}
InBlock == UNION {Cells(b) : b \in Usable}
RoomAt(a) == LET b == CHOOSE x \in Usable : a \in Cells(x) IN b.start + b.len - a
Terminated(a) == \E p \in a..(a + RoomAt(a) - 1) : mem[p] = 0
Strings == {a \in InBlock : Terminated(a)}
Apart(a, n, b, k) == a + n <= b \/ b + k <= a

Heap ==
  /\ \/ \E size \in Sizes : Malloc(size) /\ Cardinality(held) < MaxBlocks
     \/ \E size \in Sizes : Calloc(1, size) /\ Cardinality(held) < MaxBlocks
     \/ \E b \in held : FreeBlock(b.start) \/ \E size \in Sizes : Realloc(b.start, size)
     \/ \E b \in held, size \in Sizes : reallocarray(b.start, 2, size)
     \/ FreeBlock(NULL)
     \/ Return
  /\ last = NoCall /\ last' = NoCall /\ UNCHANGED <<output, todo>>

Store(a, byte) ==
  /\ mem' = [mem EXCEPT ![a] = byte]
  /\ last' = NoCall /\ UNCHANGED <<mapped, list, held, errno, refused, run, output, todo>>

(* puts: the loop over write, whose answer it adds up, an error too, and   *)
(* the newline, whose answer it ignores.  What is in front of the string   *)
(* it would write next once the sum is negative: the model stops there.    *)
PutsStart(str) ==
  /\ run' = "puts" /\ todo' = [str |-> str, size |-> strlen(mem, str), total |-> 0]
  /\ output' = <<>>
  /\ last' = NoCall /\ UNCHANGED <<mem, mapped, list, held, errno, refused>>

LastAnswer(total, answer) == answer                       \* mutant
Adds(total, answer) == total + answer

PutsWrite ==
  LET from == todo.str + todo.total IN
  /\ run = "puts" /\ todo.total < todo.size
  /\ \/ /\ \E n \in 1..(todo.size - todo.total) :
             /\ output' = output \o [k \in 1..n |-> mem[from + k - 1]]
             /\ todo' = [todo EXCEPT !.total = Adds(@, n)]
        /\ UNCHANGED <<refused, run>>
     \/ /\ Refuse
        /\ \E e \in {EPERM, EINTR} :
             /\ todo' = [todo EXCEPT !.total = Adds(@, -e)]
             /\ run' = IF todo.total < e THEN "fault" ELSE run
        /\ UNCHANGED output
  /\ UNCHANGED <<mem, mapped, list, held, errno, last>>

PutsEnd ==
  /\ run = "puts" /\ todo.total >= todo.size
  /\ run' = "printed" /\ output' = Append(output, Newline)
  /\ UNCHANGED <<mem, mapped, list, held, errno, refused, todo, last>>

PutsReturn ==
  /\ run = "printed" /\ run' = "runs" /\ output' = <<>> /\ todo' = NoString
  /\ UNCHANGED <<mem, mapped, list, held, errno, refused, last>>

Next ==
  \/ run = "runs" /\ (Heap \/ SystemCall \/ \E a \in InBlock, v \in Bytes : Store(a, v)
                      \/ \E s \in Strings : PutsStart(s))
  \/ PutsWrite \/ PutsEnd \/ PutsReturn

Spec == Init /\ [][Next]_vars

----------------------------------------------------------------------------
(* Properties                                                              *)

\* Every part of the state is of its kind (src/mm/, src/stdio/puts.c).
Blocks == [start : Int, len : Nat]
TypeOK ==
  /\ mem \in [Addresses -> 0..255] /\ mapped \subseteq Addresses
  /\ list \in Seq(Blocks) /\ held \subseteq Blocks /\ errno \in Nat /\ refused \in 0..MaxRefused
  /\ run \in {"runs", "puts", "printed", "exited", "fault"}
  /\ DOMAIN todo = DOMAIN NoString /\ todo.total \in Int /\ last.ret \in -1..(IntHalf - 1)

\* The list and the program agree on what is allocated, and on how long it is:
\* a node is unlinked or changed only for the block it stands for, also when
\* the kernel refuses (mem_list_find, mem_list_extract, realloc).  Only error
\* numbers, which are negative, can stand in several nodes.
HeldIsListed ==
  /\ held \subseteq {list[i] : i \in 1..Len(list)}
  /\ \A i \in 1..Len(list) :
       \/ /\ list[i].start \in Addresses /\ list[i].len > 0
          /\ list[i] \in held /\ Nodes(list[i].start) = {i}
       \/ list[i].start < 0 /\ refused > 0

\* Blocks do not overlap and are mapped as long as they are held; until a
\* request is refused nothing else is, so that nothing leaks (free unmaps the
\* length realloc stored).
HeldIsMapped ==
  /\ InBlock \subseteq mapped
  /\ \A b, c \in Usable : b = c \/ Cells(b) \cap Cells(c) = {}
  /\ refused = 0 => mapped = InBlock

\* The list, the program and the kernel agree on the blocks.
HeapAgrees == HeldIsListed /\ HeldIsMapped

StringAt(m, a) ==
  LET nuls == {p \in DOMAIN m : p >= a /\ m[p] = 0}
      nul == CHOOSE p \in nuls : \A q \in nuls : p <= q
  IN  IF nuls = {} THEN <<NULL>> ELSE [k \in 1..(nul - a) |-> m[a + k - 1]]
Str(a) == StringAt(mem, a)
Cut(s, n) == SubSeq(s, 1, IF n < Len(s) THEN n ELSE Len(s))
Bytes_(a, n) == [k \in 1..n |-> mem[a + k - 1]]
Same(m, a, n) == \A x \in Addresses \ (a..(a + n - 1)) : m[x] = mem[x]
Lengths == 0..2

\* After a copy the destination holds the string or bytes it should, ended
\* with a terminator where one belongs, and no other byte has changed;
\* memmove also when the areas overlap (src/string/string.c).
CopiesAgree ==
  \A d \in InBlock :
    /\ \A s \in Strings :
         LET t == Str(s)
             fits(from, n) == n <= RoomAt(from) /\ Apart(from, n, s, Len(t) + 1) IN
         /\ fits(d, Len(t) + 1) =>
              LET m == strcpy(mem, d, s) IN StringAt(m, d) = t /\ Same(m, d, Len(t) + 1)
         /\ \A n \in Lengths : fits(d, n) =>
              LET m == strncpy(mem, d, s, n) IN
              /\ [k \in 1..Len(Cut(t, n)) |-> m[d + k - 1]] = Cut(t, n)
              /\ Len(t) < n => m[d + Len(t)] = 0
              /\ Same(m, d, IF Len(t) < n THEN Len(t) + 1 ELSE n)
         /\ d \in Strings =>
              LET u == Str(d)  end == d + Len(u) IN
              /\ fits(d, Len(u) + Len(t) + 1) =>
                   LET m == strcat(mem, d, s) IN
                   StringAt(m, d) = u \o t /\ Same(m, end, Len(t) + 1)
              /\ \A n \in Lengths : fits(d, Len(u) + Len(Cut(t, n)) + 1) =>
                   LET m == strncat(mem, d, s, n) IN
                   StringAt(m, d) = u \o Cut(t, n) /\ Same(m, end, Len(Cut(t, n)) + 1)
    /\ \A s \in InBlock, n \in Lengths :
         (n <= RoomAt(d) /\ n <= RoomAt(s)) =>
           LET m == memmove(mem, d, s, n)  c == memcpy(mem, d, s, n)  f == memset(mem, d, 256 + mem[s], n) IN
           /\ [k \in 1..n |-> m[d + k - 1]] = Bytes_(s, n) /\ Same(m, d, n)
           /\ Apart(d, n, s, n) => c = m
           /\ \A k \in 1..n : f[d + k - 1] = mem[s]
           /\ Same(f, d, n)

Before(s, t) ==
  \E k \in 1..(Len(s) + 1) :
    /\ k <= Len(t) /\ \A j \in 1..(k - 1) : s[j] = t[j]
    /\ k > Len(s) \/ Char(s[k]) < Char(t[k])
Order(s, t) == IF Before(s, t) THEN -1 ELSE IF Before(t, s) THEN 1 ELSE 0
IsPrefix_(s, t) == Len(s) <= Len(t) /\ s = SubSeq(t, 1, Len(s))

\* The comparisons answer the sign of the dictionary order of signed
\* characters, strncmp and memcmp that of the first n; strncmp calls two
\* strings equal when one of them is a prefix of the other.
ComparisonsOrder ==
  /\ \A a, b \in Strings :
       /\ strcmp(mem, a, b) = Order(Str(a), Str(b))
       /\ \A n \in Lengths :
            LET s == Cut(Str(a), n)  t == Cut(Str(b), n) IN
            strncmp(mem, a, b, n) = IF IsPrefix_(s, t) \/ IsPrefix_(t, s) THEN 0 ELSE Order(s, t)
  /\ \A a, b \in InBlock, n \in Lengths :
       (n <= RoomAt(a) /\ n <= RoomAt(b)) => memcmp(mem, a, b, n) = Order(Bytes_(a, n), Bytes_(b, n))

Occurs(s, t, k) == k + Len(t) - 1 <= Len(s) /\ SubSeq(s, k, k + Len(t) - 1) = t
PlacesOf(s, t) == {k \in 1..Len(s) : Occurs(s, t, k)}
BytePlaces(s, byte) == {k \in 1..Len(s) : s[k] = byte}

(* The address of the first or last place of a string at a, or NULL.       *)
FirstFrom(a, at) == IF at = {} THEN NULL ELSE a - 1 + CHOOSE k \in at : \A j \in at : k <= j
LastFrom(a, at) == IF at = {} THEN NULL ELSE a - 1 + CHOOSE k \in at : \A j \in at : j <= k

\* A search for a byte, passed as the char it is, answers its first or its last
\* place, and NULL when there is none (string.c:137-168).  What strstr and
\* strrstr answer, if not NULL, is the first place of the needle, or one of its
\* places; if the needle does not also end the haystack the answer is the first
\* or the last place, and NULL only when there is none (string.c:170-239).
SearchesFind ==
  \A a \in Strings :
    LET s == Str(a) IN
    /\ \A byte \in Bytes \ {0} :
         /\ strchr(mem, a, Char(byte)) = FirstFrom(a, BytePlaces(s, byte))
         /\ strrchr(mem, a, Char(byte)) = LastFrom(a, BytePlaces(s, byte))
    /\ strchr(mem, a, 0) = a + Len(s)
    /\ \A b \in Strings :
         LET t == Str(b)
             at == PlacesOf(s, t) IN
         t # <<>> =>
           /\ strstr(mem, a, b) \in {NULL, FirstFrom(a, at)}
           /\ strrstr(mem, a, b) \in {NULL} \cup {a - 1 + k : k \in at}
           /\ Len(s) - Len(t) + 1 \notin at =>
                strstr(mem, a, b) = FirstFrom(a, at) /\ strrstr(mem, a, b) = LastFrom(a, at)

\* The routines that only read the memory answer what they should.
QueriesAgree == ComparisonsOrder /\ SearchesFind

\* However the kernel cuts the writes, puts prints each byte of the string
\* once and in order, then a newline, unless a write is refused.
PutsPrints ==
  refused = 0 =>
    /\ run = "puts" => output = SubSeq(Str(todo.str), 1, todo.total)
    /\ run = "printed" => output = Append(Str(todo.str), Newline)

\* A wrapper returns -1 and sets errno to the kernel's error number (sleep
\* returns the -1 and sets errno to 1) when the call failed, and
\* otherwise the answer, if an int can hold it.
CallsReport ==
  last.name # "none" =>
    /\ last.answer < 0 => last.ret = -1 /\ (last.name = "sleep" \/ errno = -last.answer)
    /\ last.answer \in 0..(IntHalf - 1) => last.ret = last.answer

\* What a program is told of its output and its system calls is what happened.
CallsAgree == PutsPrints /\ CallsReport

----------------------------------------------------------------------------
(* What the searches do not find, although string.c:147 returns NULL "if c *)
(* is not found in str" and string.c:196 "the firs occurrence".            *)

\* A byte above 127 passed as the int 128..255 is not found, whatever the string
\* holds: strchr and strrchr compare it with a signed char (string.c:141, 157).
HighBytesAreMissed ==
  \A a \in Strings, byte \in Bytes :
    byte > 127 => strchr(mem, a, byte) = NULL /\ strrchr(mem, a, byte) = NULL

\* A needle that stands at the end of the haystack and nowhere else is not
\* found: the loops stop one offset before it (string.c:178, 213).
EndingNeedlesAreMissed ==
  \A a, b \in Strings :
    LET s == Str(a)  t == Str(b) IN
    t # <<>> /\ PlacesOf(s, t) = {Len(s) - Len(t) + 1} =>
      strstr(mem, a, b) = NULL /\ strrstr(mem, a, b) = NULL
=============================================================================
