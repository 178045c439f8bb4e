---------------------------- MODULE LibcString -----------------------------
(***************************************************************************)
(* mini-libc's src/string/string.c: each routine is a function of the      *)
(* memory m (a function from addresses to bytes), the pointers it is given *)
(* and a length.  The ones that write return the new memory.  The areas    *)
(* given to the copying routines must not overlap, save those of memmove.  *)
(***************************************************************************)
EXTENDS Integers

NULL == 0

(* char is signed. *)
Char(byte) == IF byte > 127 THEN byte - 256 ELSE byte
Sign(x, y) == IF Char(x) < Char(y) THEN -1 ELSE IF Char(x) > Char(y) THEN 1 ELSE 0

strlen(m, str) ==
  LET i[p \in Nat] == IF m[p] = 0 THEN 0 ELSE 1 + i[p + 1]
  IN  i[str]

(* The loops of strncpy and strncat: as far as len or the terminator.      *)
Count(m, source, len) ==
  LET count[k \in 0..len] == IF k = len \/ m[source + k] = 0 THEN k ELSE count[k + 1]
  IN  count[0]

(* One byte after the other, so that an overlapping source changes below.  *)
memcpy(m, destination, source, num) ==
  LET copied[i \in 0..num] ==
        IF i = 0 THEN m
        ELSE [copied[i - 1] EXCEPT ![destination + i - 1] = copied[i - 1][source + i - 1]]
  IN  copied[num]

(* Through a buffer on the stack.                                          *)
memmove(m, destination, source, num) ==
  LET buffer == [i \in 0..(num - 1) |-> m[source + i]]
  IN  [a \in DOMAIN m |-> IF a \in destination..(destination + num - 1)
                          THEN buffer[a - destination] ELSE m[a]]

memset(m, source, value, num) ==
  [a \in DOMAIN m |-> IF a \in source..(source + num - 1) THEN value % 256 ELSE m[a]]

strcpy(m, destination, source) == memcpy(m, destination, source, strlen(m, source) + 1)

(* One terminator at most; the rest of the len bytes stays as it was.      *)
strncpy(m, destination, source, len) ==
  LET count == Count(m, source, len)
      copied == memcpy(m, destination, source, count)
  IN  IF count < len THEN [copied EXCEPT ![destination + count] = 0] ELSE copied

strcat(m, destination, source) ==
  memcpy(m, destination + strlen(m, destination), source, strlen(m, source) + 1)

\* mutant: no terminator behind a source that was cut
strncatUnterminated(m, destination, source, len) ==
  memcpy(m, destination + strlen(m, destination), source, Count(m, source, len))

strncat(m, destination, source, len) ==
  LET d == destination + strlen(m, destination)
      count == Count(m, source, len)
  IN  [memcpy(m, d, source, count) EXCEPT ![d + count] = 0]

strcmp(m, str1, str2) ==
  LET flag[k \in Nat] ==
        LET x == m[str1 + k]  y == m[str2 + k] IN
        IF x = 0 \/ y = 0 THEN IF x # 0 THEN 1 ELSE IF y # 0 THEN -1 ELSE 0
        ELSE IF x # y THEN Sign(x, y) ELSE flag[k + 1]
  IN  flag[0]

(* 0 as soon as one of the strings ends.                                   *)
strncmp(m, str1, str2, len) ==
  LET flag[k \in 0..len] ==
        LET x == m[str1 + k]  y == m[str2 + k] IN
        IF k = len \/ x = 0 \/ y = 0 THEN 0
        ELSE IF x # y THEN Sign(x, y) ELSE flag[k + 1]
  IN  flag[0]

memcmp(m, ptr1, ptr2, num) ==
  LET flag[k \in 0..num] ==
        IF k = num THEN 0
        ELSE IF m[ptr1 + k] # m[ptr2 + k] THEN Sign(m[ptr1 + k], m[ptr2 + k]) ELSE flag[k + 1]
  IN  flag[0]

(* The int c is compared with a signed char.                               *)
strchr(m, str, c) ==
  LET found[p \in Nat] ==
        IF Char(m[p]) = c THEN p ELSE IF m[p] = 0 THEN NULL ELSE found[p + 1]
  IN  found[str]

strrchr(m, str, c) ==
  LET chr[p \in Nat] ==
        IF m[p] = 0 THEN NULL
        ELSE IF chr[p + 1] # NULL THEN chr[p + 1]
        ELSE IF Char(m[p]) = c THEN p ELSE NULL
  IN  chr[str]

\* mutant: the first character only
MatchesFirst(m, haystack, needle, i) == m[haystack + i] = m[needle]

(* The needle at an offset i; an empty one matches nowhere.                *)
Matches(m, haystack, needle, i) ==
  /\ m[haystack + i] = m[needle]
  /\ \A j \in 0..(strlen(m, needle) - 1) : m[haystack + i + j] = m[needle + j]

(* The offsets the loops try: the last one at which the needle fits is not *)
(* among them.                                                             *)
Offsets(m, haystack, needle) == 0..(strlen(m, haystack) - strlen(m, needle) - 1)

Places(m, haystack, needle) ==
  {haystack + i : i \in {j \in Offsets(m, haystack, needle) : Matches(m, haystack, needle, j)}}

strstr(m, haystack, needle) ==
  LET ps == Places(m, haystack, needle) IN
  IF ps = {} THEN NULL ELSE CHOOSE p \in ps : \A q \in ps : p <= q

strrstr(m, haystack, needle) ==
  LET ps == Places(m, haystack, needle) IN
  IF ps = {} THEN NULL ELSE CHOOSE p \in ps : \A q \in ps : q <= p
=============================================================================
