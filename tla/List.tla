-------------------------------- MODULE List --------------------------------
(***************************************************************************)
(* The doubly linked lists of lib/kernel/list.c at the grain of pointers.  *)
(* A heap m holds the prev and next fields of every node; a list is named  *)
(* by its two sentinels.  Functions that change a list take the heap and   *)
(* return the new one.  The comparison LESS (a, b, aux) is key[a] < key[b].*)
(***************************************************************************)
EXTENDS Integers, Sequences, SequencesExt, FiniteSetsExt

CONSTANT MaxListSize   \* longest list that is checked

\* Nodes are integers: elements 1..MaxListSize + 1, sentinels below 1.
NULL == -9
HeadOf(l) == -2 * l
TailOf(l) == (-2 * l) - 1
Nodes == {HeadOf(0), TailOf(0), HeadOf(1), TailOf(1)} \cup (1..MaxListSize + 1)
RECURSIVE list_size_from(_, _, _), TurnFrom(_, _, _),
          find_end_of_run(_, _, _, _), inplace_merge(_, _, _, _, _),
          MergePass(_, _, _, _, _), list_sort(_, _, _),
          InsertPoint(_, _, _, _, _), UniqueFrom(_, _, _, _, _),
          Best(_, _, _, _, _), Forward(_, _, _), Backward(_, _, _),
          Filled(_, _, _)

less(key, a, b) == key[a] < key[b]

list_begin(m, l) == m.next[HeadOf(l)]
list_end(l) == TailOf(l)
list_empty(m, l) == list_begin(m, l) = list_end(l)

list_init(m, l) ==
  [prev |-> [m.prev EXCEPT ![HeadOf(l)] = NULL, ![TailOf(l)] = HeadOf(l)],
   next |-> [m.next EXCEPT ![HeadOf(l)] = TailOf(l), ![TailOf(l)] = NULL]]

list_insert(m, before, elem) ==
  LET p == m.prev[before]
  IN [prev |-> [m.prev EXCEPT ![elem] = p, ![before] = elem],
      next |-> [m.next EXCEPT ![elem] = before, ![p] = elem]]

list_push_front(m, l, elem) == list_insert(m, list_begin(m, l), elem)
list_push_back(m, l, elem) == list_insert(m, list_end(l), elem)

list_remove(m, elem) ==
  [prev |-> [m.prev EXCEPT ![m.next[elem]] = m.prev[elem]],
   next |-> [m.next EXCEPT ![m.prev[elem]] = m.next[elem]]]

list_pop_front(m, l) == list_remove(m, m.next[HeadOf(l)])
list_pop_back(m, l) == list_remove(m, m.prev[TailOf(l)])

list_splice(m, before, first, last) ==
  LET final == m.prev[last]
      out == [prev |-> [m.prev EXCEPT ![m.next[final]] = m.prev[first]],
              next |-> [m.next EXCEPT ![m.prev[first]] = m.next[final]]]
      p == out.prev[before]
  IN IF first = last THEN m
     ELSE [prev |-> [out.prev EXCEPT ![first] = p, ![before] = final],
           next |-> [out.next EXCEPT ![final] = before, ![p] = first]]

list_size_from(m, l, e) ==
  IF e = list_end(l) THEN 0 ELSE 1 + list_size_from(m, l, m.next[e])
list_size(m, l) == list_size_from(m, l, list_begin(m, l))

TurnFrom(m, l, e) ==
  IF e = list_end(l) THEN m
  ELSE TurnFrom([prev |-> [m.prev EXCEPT ![e] = m.next[e]],
                 next |-> [m.next EXCEPT ![e] = m.prev[e]]], l, m.next[e])

list_reverse(m, l) ==
  LET t == TurnFrom(m, l, list_begin(m, l))
      first == t.prev[TailOf(l)]
      last == t.next[HeadOf(l)]
  IN IF list_empty(m, l) THEN m
     ELSE [prev |-> [t.prev EXCEPT ![TailOf(l)] = last, ![first] = t.next[last]],
           next |-> [t.next EXCEPT ![HeadOf(l)] = first, ![last] = t.prev[first]]]

find_end_of_run(m, key, a, b) ==
  LET e == m.next[a]
  IN IF e = b \/ less(key, e, m.prev[e]) THEN e
     ELSE find_end_of_run(m, key, e, b)

inplace_merge(m, key, a0, a1b0, b1) ==
  IF a0 = a1b0 \/ a1b0 = b1 THEN m
  ELSE IF ~less(key, a1b0, a0) THEN inplace_merge(m, key, m.next[a0], a1b0, b1)
  ELSE LET after == m.next[a1b0]
       IN inplace_merge(list_splice(m, a0, m.prev[after], after), key, a0, after, b1)

\* One pass over the list from a0 on; the heap and the runs put out.
MergePass(m, l, key, a0, output_run_cnt) ==
  IF a0 = list_end(l) THEN [heap |-> m, runs |-> output_run_cnt]
  ELSE LET a1b0 == find_end_of_run(m, key, a0, list_end(l))
           b1 == find_end_of_run(m, key, a1b0, list_end(l))
       IN IF a1b0 = list_end(l) THEN [heap |-> m, runs |-> output_run_cnt + 1]
          ELSE MergePass(inplace_merge(m, key, a0, a1b0, b1), l, key, b1,
                         output_run_cnt + 1)

list_sort(m, l, key) ==
  LET pass == MergePass(m, l, key, list_begin(m, l), 0)
  IN IF pass.runs > 1 THEN list_sort(pass.heap, l, key) ELSE pass.heap

InsertPoint(m, l, elem, key, e) ==
  IF e = list_end(l) \/ less(key, elem, e) THEN e
  ELSE InsertPoint(m, l, elem, key, m.next[e])

\* Fault: the new element goes before its equals.
list_insert_ordered_first(m, l, elem, key) ==
  LET early == [e \in DOMAIN key |-> (2 * key[e]) - (IF e = elem THEN 1 ELSE 0)]
  IN list_insert(m, InsertPoint(m, l, elem, early, list_begin(m, l)), elem)

list_insert_ordered(m, l, elem, key) ==
  list_insert(m, InsertPoint(m, l, elem, key, list_begin(m, l)), elem)

UniqueFrom(m, l, duplicates, key, elem) ==
  LET next == m.next[elem]
  IN IF next = list_end(l) THEN m
     ELSE IF ~less(key, elem, next) /\ ~less(key, next, elem)
          THEN UniqueFrom(list_push_back(list_remove(m, next), duplicates, next),
                          l, duplicates, key, elem)
          ELSE UniqueFrom(m, l, duplicates, key, next)
list_unique(m, l, duplicates, key) ==
  IF list_empty(m, l) THEN m
  ELSE UniqueFrom(m, l, duplicates, key, list_begin(m, l))

Best(m, l, better(_, _), best, e) ==
  IF e = list_end(l) THEN best
  ELSE Best(m, l, better, IF better(e, best) THEN e ELSE best, m.next[e])
BestOf(m, l, better(_, _)) ==
  LET first == list_begin(m, l)
  IN IF first = list_end(l) THEN first ELSE Best(m, l, better, first, m.next[first])
list_max(m, l, key) == BestOf(m, l, LAMBDA e, best : less(key, best, e))
list_min(m, l, key) == BestOf(m, l, LAMBDA e, best : less(key, e, best))
-----------------------------------------------------------------------------
(* What the functions are for, over sequences of elements.                 *)

Forward(m, l, e) == IF e = list_end(l) THEN <<>> ELSE <<e>> \o Forward(m, l, m.next[e])
Contents(m, l) == Forward(m, l, list_begin(m, l))

Backward(m, l, e) == IF e = HeadOf(l) THEN <<>> ELSE Backward(m, l, m.prev[e]) \o <<e>>

\* List l holds s, read forwards and backwards.
Holds(m, l, s) == Contents(m, l) = s /\ Backward(m, l, m.prev[TailOf(l)]) = s

Blank == LET f == [n \in Nodes |-> NULL] IN [prev |-> f, next |-> f]
Filled(m, l, s) == IF s = <<>> THEN m ELSE Filled(list_push_back(m, l, Head(s)), l, Tail(s))
\* List 0 holds s and list 1 holds t.
Heap(s, t) == Filled(Filled(list_init(list_init(Blank, 0), 1), 0, s), 1, t)

\* s in nondecreasing order of key, equal elements in the order of s.
StablySorted(s, key) ==
  LET rank(i) == Cardinality({j \in DOMAIN s :
                    key[s[j]] < key[s[i]] \/ (key[s[j]] = key[s[i]] /\ j <= i)})
  IN [r \in DOMAIN s |-> s[CHOOSE i \in DOMAIN s : rank(i) = r]]
Firsts(s, key) == {i \in DOMAIN s : i = 1 \/ key[s[i]] # key[s[i - 1]]}
Pick(s, I) == LET nth(r) == CHOOSE i \in I : Cardinality({j \in I : j <= i}) = r
              IN [r \in 1..Cardinality(I) |-> s[nth(r)]]

\* A list of n elements with any keys (equal ones included): each function
\* leaves the list it should, linked the same way in both directions.  Sorting
\* is stable and insertion keeps equal elements in order of arrival; a splice
\* moves any stretch to any place of the other list.
ListFaithful(n, key) ==
  LET s == [i \in 1..n |-> i]
      x == n + 1
      m == Heap(s, <<>>)
      sorted == StablySorted(s, key)
      u == list_unique(m, 0, 1, key)
      at == Cardinality({i \in 1..n : key[sorted[i]] <= key[x]})
      lowest == {i \in 1..n : \A j \in 1..n : key[i] <= key[j]}
      highest == {i \in 1..n : \A j \in 1..n : key[i] >= key[j]}
  IN /\ list_size(m, 0) = n
     /\ Holds(list_push_front(m, 0, x), 0, <<x>> \o s)
     /\ Holds(list_push_back(m, 0, x), 0, s \o <<x>>)
     /\ Holds(list_reverse(m, 0), 0, Reverse(s))
     /\ Holds(list_sort(m, 0, key), 0, sorted)
     /\ Holds(list_insert_ordered(Heap(sorted, <<>>), 0, x, key), 0,
              InsertAt(sorted, at + 1, x))
     /\ Holds(u, 0, Pick(s, Firsts(s, key)))
     /\ Holds(u, 1, Pick(s, DOMAIN s \ Firsts(s, key)))
     /\ list_min(m, 0, key) = IF n = 0 THEN list_end(0) ELSE Min(lowest)
     /\ list_max(m, 0, key) = IF n = 0 THEN list_end(0) ELSE Min(highest)
     /\ n > 0 => /\ Holds(list_pop_front(m, 0), 0, Tail(s))
                 /\ Holds(list_pop_back(m, 0), 0, Front(s))
     /\ \A i \in 1..n : Holds(list_remove(m, i), 0, Remove(s, i))
     /\ \A i \in 1..n : \A j \in i..n + 1 :
          LET first == SubSeq(s, 1, i - 1)
              moved == SubSeq(s, i, j - 1)
              last == SubSeq(s, j, n)
              r == list_splice(Heap(s, <<x>>), x, i, IF j > n THEN list_end(0) ELSE j)
          IN Holds(r, 0, first \o last) /\ Holds(r, 1, moved \o <<x>>)
=============================================================================
