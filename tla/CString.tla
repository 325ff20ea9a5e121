------------------------------- MODULE CString -------------------------------
(***************************************************************************)
(* lib/string.c and lib/stdlib.c.  A string is the sequence of its         *)
(* characters (their codes) without the null byte at its end; a pointer    *)
(* into it is an offset from its start, NULL the null pointer.  A block of *)
(* memory is a function on 0..n.                                           *)
(***************************************************************************)
EXTENDS Integers, Sequences, SequencesExt, FiniteSetsExt

NUL == 0
NULL == -1

\* string[i]
At(s, i) == IF i < Len(s) THEN s[i + 1] ELSE NUL
FirstOf(offsets) == IF offsets = {} THEN NULL ELSE Min(offsets)

memcpy(m, dst, src, size) ==
  LET done[k \in 0..size] ==
        IF k = 0 THEN m
        ELSE [done[k - 1] EXCEPT ![dst + k - 1] = done[k - 1][src + k - 1]]
  IN done[size]

\* Fault: the copy goes upwards in both cases.
memmove_upwards(m, dst, src, size) == memcpy(m, dst, src, size)

memmove(m, dst, src, size) ==
  LET down[k \in 0..size] ==
        IF k = 0 THEN m
        ELSE [down[k - 1] EXCEPT ![dst + size - k] = down[k - 1][src + size - k]]
  IN IF dst < src THEN memcpy(m, dst, src, size) ELSE down[size]

\* dst itself is advanced by the first loop only.
memmove_result(dst, src, size) == IF dst < src THEN dst + size ELSE dst

memset(m, dst, value, size) ==
  [i \in DOMAIN m |-> IF i \in dst..dst + size - 1 THEN value ELSE m[i]]

memcmp(a, b, size) ==
  LET i == FirstOf({j \in 0..size - 1 : At(a, j) # At(b, j)})
  IN IF i = NULL THEN 0 ELSE IF At(a, i) > At(b, i) THEN 1 ELSE -1

strcmp(a, b) ==
  LET i == Min({j \in 0..Len(a) : At(a, j) = NUL \/ At(a, j) # At(b, j)})
  IN IF At(a, i) < At(b, i) THEN -1 ELSE IF At(a, i) > At(b, i) THEN 1 ELSE 0

memchr(block, ch, size) == FirstOf({i \in 0..size - 1 : At(block, i) = ch})
strchr(string, c) == FirstOf({i \in 0..Len(string) : At(string, i) = c})
strrchr(string, c) ==
  LET hits == {i \in 0..Len(string) - 1 : At(string, i) = c}
  IN IF hits = {} THEN NULL ELSE Max(hits)

strcspn(string, stop) ==
  Min({i \in 0..Len(string) : At(string, i) = NUL \/ strchr(stop, At(string, i)) # NULL})
strspn(string, skip) ==
  Min({i \in 0..Len(string) : At(string, i) = NUL \/ strchr(skip, At(string, i)) = NULL})
strpbrk(string, stop) ==
  FirstOf({i \in 0..Len(string) - 1 : strchr(stop, At(string, i)) # NULL})

strstr(haystack, needle) ==
  FirstOf({i \in 0..Len(haystack) - Len(needle) :
             memcmp(SubSeq(haystack, i + 1, Len(haystack)), needle, Len(needle)) = 0})

\* m is the memory of the string, its null byte included.
strtok_r(m, s, delimiters) ==
  LET rest == {i \in DOMAIN m : i >= s}
      from == Min({i \in rest : m[i] = NUL \/ strchr(delimiters, m[i]) = NULL})
      to == Min({i \in rest : i >= from /\ strchr(delimiters, m[i]) # NULL})
  IN IF m[from] = NUL THEN [token |-> NULL, save_ptr |-> from, mem |-> m]
     ELSE [token |-> from,
           save_ptr |-> IF m[to] = NUL THEN to ELSE to + 1,
           mem |-> [m EXCEPT ![to] = NUL]]

strnlen(string, maxlen) ==
  Min({i \in 0..Len(string) : At(string, i) = NUL \/ i >= maxlen})

\* The buffer, and the length of what should have been in it.
strlcpy(m, dst, src, size) ==
  LET dst_len == Min({size - 1, Len(src)})
  IN [mem |-> IF size = 0 THEN m
              ELSE [i \in DOMAIN m |-> IF i \in dst..dst + dst_len - 1
                                       THEN src[i - dst + 1]
                                       ELSE IF i = dst + dst_len THEN NUL ELSE m[i]],
      length |-> Len(src)]

\* The string at p.
StringAt(m, p) ==
  LET end == Min({i \in DOMAIN m : i >= p /\ m[i] = NUL})
  IN [i \in 1..end - p |-> m[p + i - 1]]

strlcat(m, dst, src, size) ==
  LET dst_len == Len(StringAt(m, dst))
  IN [mem |-> IF dst_len >= size THEN m
              ELSE strlcpy(m, dst + dst_len, src, size - dst_len).mem,
      length |-> Len(src) + dst_len]
-----------------------------------------------------------------------------
(* lib/stdlib.c: an array is a sequence of numbers, compared as numbers.   *)

do_swap(a, i, j) == [a EXCEPT ![i] = a[j], ![j] = a[i]]

RECURSIVE heapify(_, _, _)
heapify(a, i, cnt) ==
  LET left == 2 * i
      right == 2 * i + 1
      big == IF left <= cnt /\ a[left] > a[i] THEN left ELSE i
      max == IF right <= cnt /\ a[right] > a[big] THEN right ELSE big
  IN IF max = i THEN a ELSE heapify(do_swap(a, i, max), max, cnt)

sort(a) ==
  LET cnt == Len(a)
      heap[i \in 0..cnt] ==     \* after i iterations of the first loop
        IF i = 0 THEN a ELSE heapify(heap[i - 1], (cnt \div 2) + 1 - i, cnt)
      sorted[i \in 0..cnt] ==   \* after i iterations of the second loop
        IF i = 0 THEN heap[cnt \div 2]
        ELSE heapify(do_swap(sorted[i - 1], 1, cnt + 1 - i), 1, cnt - i)
  IN IF cnt < 2 THEN a ELSE sorted[cnt - 1]

\* The element found, from 1; NULL if there is none.
RECURSIVE SearchBetween(_, _, _, _)
SearchBetween(key, a, first, last) ==
  LET middle == first + ((last - first) \div 2)
  IN IF first >= last THEN NULL
     ELSE IF key < a[middle] THEN SearchBetween(key, a, first, middle)
     ELSE IF key > a[middle] THEN SearchBetween(key, a, middle + 1, last)
     ELSE middle
binary_search(key, a) == SearchBetween(key, a, 1, Len(a) + 1)

\* "Skip white space.  Parse sign.  Parse digits."
atoi(s) ==
  LET from == Min({i \in 0..Len(s) : At(s, i) \notin {32, 9, 10, 11, 12, 13}})
      signed == At(s, from) \in {43, 45}
      first == IF signed THEN from + 1 ELSE from
      last == Min({i \in first..Len(s) : At(s, i) \notin 48..57})
      parsed[i \in first..last] ==
        IF i = first THEN 0 ELSE (parsed[i - 1] * 10) - (At(s, i - 1) - 48)
  IN IF At(s, from) = 45 THEN parsed[last] ELSE -parsed[last]
-----------------------------------------------------------------------------
RECURSIVE Tokens(_, _, _)
Tokens(m, s, delimiters) ==
  LET r == strtok_r(m, s, delimiters)
  IN IF r.token = NULL THEN <<>>
     ELSE <<StringAt(r.mem, r.token)>> \o Tokens(r.mem, r.save_ptr, delimiters)

\* The string in memory, with its null byte.
Stored(s) == [i \in 0..Len(s) |-> At(s, i)]

\* For any two strings: comparing is antisymmetric and finds equal strings
\* only; strtok_r, called until it returns null, returns the longest stretches
\* of s without a character of t, in order; strstr finds the first occurrence;
\* spans end where they should.
StringsFaithful(s, t) ==
  LET In(i, j) == i <= j /\ \A k \in i..j : s[k] \notin ToSet(t)
      Longest(i, j) == /\ In(i, j)
                       /\ i > 1 => s[i - 1] \in ToSet(t)
                       /\ j < Len(s) => s[j + 1] \in ToSet(t)
      starts == {i \in 1..Len(s) : \E j \in i..Len(s) : Longest(i, j)}
      nth(r) == CHOOSE i \in starts : Cardinality({j \in starts : j <= i}) = r
      fits == {i \in 0..Len(s) - Len(t) : SubSeq(s, i + 1, i + Len(t)) = t}
  IN /\ strcmp(s, t) = -strcmp(t, s) /\ (strcmp(s, t) = 0) = (s = t)
     /\ Tokens(Stored(s), 0, t) =
          [r \in 1..Cardinality(starts) |->
             SubSeq(s, nth(r), CHOOSE j \in nth(r)..Len(s) : Longest(nth(r), j))]
     /\ strstr(s, t) = FirstOf(fits)
     /\ LET n == strspn(s, t)
        IN /\ \A i \in 1..n : s[i] \in ToSet(t)
           /\ n < Len(s) => s[n + 1] \notin ToSet(t)
     /\ strpbrk(s, t) = IF strcspn(s, t) = Len(s) THEN NULL ELSE strcspn(s, t)
     /\ \A c \in ToSet(t) :
          LET hit == memchr(s, c, Len(s)) IN
            /\ hit = (IF c \in ToSet(s) THEN strchr(s, c) ELSE NULL)
            /\ hit # NULL => strrchr(s, c) >= hit

\* A block of cnt bytes m, with any overlap of source and destination: memmove
\* gives the destination the bytes the source had before.
MemoryFaithful(m, dst, src, size) ==
  memmove(m, dst, src, size) =
    [i \in DOMAIN m |-> IF i \in dst..dst + size - 1 THEN m[src + i - dst] ELSE m[i]]

\* strlcpy then strlcat into a buffer of size bytes leave as much of s \o t as
\* fits, terminated, write nothing past the buffer and return the length that
\* was wanted.
CopiesBounded(s, t, size) ==
  LET room == Len(s) + Len(t) + 2
      junk == [i \in 0..room |-> 9]
      first == strlcpy(junk, 0, s, size)
      both == strlcat(first.mem, 0, t, size)
  IN IF size = 0 THEN first.mem = junk /\ first.length = Len(s)
     ELSE /\ StringAt(both.mem, 0) = SubSeq(s \o t, 1, Min({size - 1, Len(s) + Len(t)}))
          /\ \A i \in size..room : both.mem[i] = 9
          /\ both.length = Len(t) + Min({size - 1, Len(s)})
          /\ strnlen(s, size) = Min({Len(s), size})

\* sort leaves the numbers of a in order, and binary_search then finds exactly
\* those.
SortFaithful(a, key) ==
  LET r == sort(a)
      Count(q, x) == Cardinality({i \in DOMAIN q : q[i] = x})
      found == binary_search(key, r)
  IN /\ \A i \in 1..Len(r) - 1 : r[i] <= r[i + 1]
     /\ \A x \in ToSet(a) \cup ToSet(r) : Count(a, x) = Count(r, x)
     /\ IF key \in ToSet(a) THEN r[found] = key ELSE found = NULL
=============================================================================
