------------------------------ MODULE HashTable ------------------------------
(***************************************************************************)
(* The hash table of lib/kernel/hash.c.  Buckets are sequences of elements *)
(* (List models the lists themselves).  An element is a key with a version,*)
(* so that two equal elements can be told apart; hash and less look at the *)
(* key only.  The hash of a key is chosen at the start.  malloc may fail   *)
(* in rehash, which then keeps the buckets it has.                         *)
(***************************************************************************)
EXTENDS Integers, Sequences, SequencesExt, FiniteSetsExt

CONSTANTS Keys,                   \* 1..n
          Versions,               \* how many equal elements there are
          MIN_BUCKETS,            \* 4 in hash_init and rehash
          BEST_ELEMS_PER_BUCKET,  \* 2 in the source
          Hashes                  \* hash functions to check, each on Keys

VARIABLES hash,      \* the function HASH
          buckets,   \* [0..bucket_cnt - 1 -> sequences of elements]
          elem_cnt,
          contents,  \* key -> version put in last; what the table stands for
          result     \* what the last call returned, and what it had to

hvars == <<hash, buckets, elem_cnt, contents, result>>

NoElem == <<0, 0>>
Elements == Keys \X Versions
bucket_cnt == Cardinality(DOMAIN buckets)

EmptyBuckets(n) == [i \in 0..n - 1 |-> <<>>]

\* h & (bucket_cnt - 1), for a power of two.
find_bucket(b, e) == hash[e[1]] % Cardinality(DOMAIN b)

find_elem(b, e) ==
  LET found == {i \in DOMAIN b[find_bucket(b, e)] : b[find_bucket(b, e)][i][1] = e[1]}
  IN IF found = {} THEN NoElem ELSE b[find_bucket(b, e)][Min(found)]

insert_elem(b, e) == [b EXCEPT ![find_bucket(b, e)] = <<e>> \o @]
remove_elem(b, e) ==
  [b EXCEPT ![find_bucket(b, e)] = SelectSeq(@, LAMBDA x : x # e)]

\* x & (x - 1) turns off the lowest 1 bit of x.
turn_off_least_1bit(x) ==
  x - Max({d \in 1..x : x % d = 0 /\ d \in {2 ^ i : i \in 0..x}})
is_power_of_2(x) == x # 0 /\ turn_off_least_1bit(x) = 0

RECURSIVE PowerBelow(_)
PowerBelow(x) == IF is_power_of_2(x) THEN x ELSE PowerBelow(turn_off_least_1bit(x))
IdealCount(cnt) == PowerBelow(Max({MIN_BUCKETS, cnt \div BEST_ELEMS_PER_BUCKET}))

\* Fault: elements move to the bucket with the number of their old one.
rehash_same(b, cnt, ok) ==
  LET n == IdealCount(cnt)
  IN IF n = Cardinality(DOMAIN b) \/ ~ok THEN b
     ELSE [i \in 0..n - 1 |-> IF i \in DOMAIN b THEN b[i] ELSE <<>>]

\* Old buckets in order, each from its front; every element goes to the
\* front of its new bucket.
rehash(b, cnt, ok) ==
  LET n == IdealCount(cnt)
      moved == FlattenSeq([i \in 1..Cardinality(DOMAIN b) |-> b[i - 1]])
  IN IF n = Cardinality(DOMAIN b) \/ ~ok THEN b
     ELSE FoldLeft(insert_elem, EmptyBuckets(n), moved)

hash_init ==
  /\ hash \in Hashes
  /\ buckets = EmptyBuckets(MIN_BUCKETS)
  /\ elem_cnt = 0
  /\ contents = [k \in Keys |-> 0]
  /\ result = <<NoElem, NoElem>>

Held(k) == IF contents[k] = 0 THEN NoElem ELSE <<k, contents[k]>>

hash_insert(new, ok) ==
  LET old == find_elem(buckets, new)
      n == elem_cnt + (IF old = NoElem THEN 1 ELSE 0)
  IN /\ elem_cnt' = n
     /\ buckets' = rehash(IF old = NoElem THEN insert_elem(buckets, new) ELSE buckets, n, ok)
     /\ contents' = [contents EXCEPT ![new[1]] = IF @ = 0 THEN new[2] ELSE @]
     /\ result' = <<old, Held(new[1])>>
     /\ UNCHANGED hash

hash_replace(new, ok) ==
  LET old == find_elem(buckets, new)
      rest == IF old = NoElem THEN buckets ELSE remove_elem(buckets, old)
      n == elem_cnt + (IF old = NoElem THEN 1 ELSE 0)
  IN /\ elem_cnt' = n
     /\ buckets' = rehash(insert_elem(rest, new), n, ok)
     /\ contents' = [contents EXCEPT ![new[1]] = new[2]]
     /\ result' = <<old, Held(new[1])>>
     /\ UNCHANGED hash

hash_delete(e, ok) ==
  LET found == find_elem(buckets, e)
  IN /\ IF found = NoElem THEN UNCHANGED <<buckets, elem_cnt>>
        ELSE /\ elem_cnt' = elem_cnt - 1
             /\ buckets' = rehash(remove_elem(buckets, found), elem_cnt - 1, ok)
     /\ contents' = [contents EXCEPT ![e[1]] = 0]
     /\ result' = <<found, Held(e[1])>>
     /\ UNCHANGED hash

\* With or without a destructor every bucket ends up empty; their number
\* stays.
hash_clear ==
  /\ buckets' = EmptyBuckets(bucket_cnt)
  /\ elem_cnt' = 0
  /\ contents' = [k \in Keys |-> 0]
  /\ UNCHANGED <<hash, result>>

hash_next_state ==
  \/ \E e \in Elements, ok \in BOOLEAN :
       hash_insert(e, ok) \/ hash_replace(e, ok) \/ hash_delete(e, ok)
  \/ hash_clear
-----------------------------------------------------------------------------
\* hash_first, then hash_next until it returns null: the elements met.
hash_next(b, i, j) ==
  LET later == {k \in i + 1..Cardinality(DOMAIN b) - 1 : b[k] # <<>>}
  IN IF j < Len(b[i]) THEN <<i, j + 1>>
     ELSE IF later = {} THEN NoElem ELSE <<Min(later), 1>>
RECURSIVE Iterated(_, _, _)
Iterated(b, i, j) ==
  LET next == hash_next(b, i, j)
  IN IF next = NoElem THEN <<>>
     ELSE <<b[next[1]][next[2]]>> \o Iterated(b, next[1], next[2])

\* A call returned the element the table held before it (the null pointer
\* if none).  A key is found exactly if it was put in and not taken out, with
\* the version put in last, whatever rehashing went on between; an iteration
\* meets every element once, and elem_cnt counts them.
HashFaithful ==
  /\ result[1] = result[2]
  /\ \A k \in Keys : find_elem(buckets, <<k, 1>>) = Held(k)
  /\ LET met == Iterated(buckets, 0, 0)
     IN /\ ToSet(met) = {Held(k) : k \in Keys} \ {NoElem}
        /\ Len(met) = elem_cnt
        /\ elem_cnt = Cardinality(ToSet(met))
=============================================================================
