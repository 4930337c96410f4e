-------------------------------- MODULE Hash --------------------------------
(***************************************************************************)
(* The hash table of lib/kernel/hash.c: buckets that are lists (module     *)
(* List shows what a list is), with a number of buckets that follows the   *)
(* number of elements when malloc() allows it.  Beside the table, members  *)
(* holds the set of elements it should have.                               *)
(***************************************************************************)
EXTENDS Integers, SequencesExt, FiniteSetsExt, Bitwise

CONSTANTS
  Item,          \* the hash elements that exist
  Key,           \* LESS compares keys; different elements may have equal keys
  HashOf,        \* the hash of each element, equal for equal keys
  MinBuckets,    \* 4 in the code
  BEST_ELEMS_PER_BUCKET,
  NoElem

VARIABLES
  h,        \* the struct hash, or NoElem
  members,  \* the elements that should be in the table
  answer    \* what the last call returned, and what it should have

hashVars == <<h, members, answer>>

equal(a, b) == Key[a] = Key[b]

find_bucket(t, e) == HashOf[e] & (t.bucket_cnt - 1)

\* The first equal element of a bucket, or NoElem.
find_elem(t, b, e) ==
  LET found == SelectSeq(t.buckets[b], LAMBDA x : equal(x, e))
  IN  IF found = <<>> THEN NoElem ELSE Head(found)

turn_off_least_1bit(x) == x & (x - 1)
is_power_of_2(x) == x # 0 /\ turn_off_least_1bit(x) = 0

RECURSIVE PowerOf2(_)
PowerOf2(n) == IF is_power_of_2(n) THEN n ELSE PowerOf2(turn_off_least_1bit(n))

insert_elem(t, b, e) ==
  [t EXCEPT !.elem_cnt = @ + 1, !.buckets[b] = <<e>> \o @]

remove_elem(t, e) ==
  [t EXCEPT !.elem_cnt = @ - 1,
            !.buckets = [b \in DOMAIN @ |-> SelectSeq(@[b], LAMBDA x : x # e)]]

empty(n) == [b \in 0..n - 1 |-> <<>>]

\* The elements bucket by bucket, as hash_apply() and rehash() visit them.
Visited(t) == FlattenSeq([i \in 1..t.bucket_cnt |-> t.buckets[i - 1]])

\* Bug variant: an element goes to the new bucket it had before.
rehash_OldIndex(t, fails) ==
  LET n == PowerOf2(Max({t.elem_cnt \div BEST_ELEMS_PER_BUCKET, MinBuckets}))
      move(u, e) == [u EXCEPT !.buckets[find_bucket(t, e) % n] = <<e>> \o @]
  IN  IF n = t.bucket_cnt \/ fails THEN t
      ELSE FoldLeft(move, [t EXCEPT !.bucket_cnt = n, !.buckets = empty(n)],
                    Visited(t))

rehash(t, fails) ==
  LET n == PowerOf2(Max({t.elem_cnt \div BEST_ELEMS_PER_BUCKET, MinBuckets}))
      move(u, e) == [u EXCEPT !.buckets[find_bucket(u, e)] = <<e>> \o @]
  IN  IF n = t.bucket_cnt \/ fails THEN t
      ELSE FoldLeft(move, [t EXCEPT !.bucket_cnt = n, !.buckets = empty(n)],
                    Visited(t))

\* hash_next() from bucket b, position i: the next element, with the
\* bucket and the position it is at, or NoElem after the last bucket.
RECURSIVE hash_next(_, _, _)
hash_next(t, b, i) ==
  IF i < Len(t.buckets[b]) THEN [elem |-> t.buckets[b][i + 1], b |-> b, i |-> i + 1]
  ELSE IF b + 1 >= t.bucket_cnt THEN [elem |-> NoElem, b |-> b, i |-> i]
  ELSE hash_next(t, b + 1, 0)

\* hash_first(), then hash_next() until it returns NoElem.
RECURSIVE Iterate(_, _, _)
Iterate(t, b, i) ==
  LET it == hash_next(t, b, i)
  IN  IF it.elem = NoElem THEN <<>> ELSE <<it.elem>> \o Iterate(t, it.b, it.i)

hash_find(t, e) == find_elem(t, find_bucket(t, e), e)

-----------------------------------------------------------------------------

HashInit == h = NoElem /\ members = {} /\ answer = [got |-> NoElem, due |-> NoElem]

\* The member with the key of e, or NoElem.
Member(e) ==
  IF \E x \in members : equal(x, e) THEN CHOOSE x \in members : equal(x, e)
  ELSE NoElem

Outside == Item \ members

hash_init ==
  /\ h = NoElem
  /\ h' = [elem_cnt |-> 0, bucket_cnt |-> MinBuckets,
           buckets |-> empty(MinBuckets)]
  /\ UNCHANGED <<members, answer>>

\* hash_clear(), with or without a destructor; hash_destroy() also frees
\* the buckets.
hash_clear ==
  /\ h # NoElem
  /\ h' = [h EXCEPT !.elem_cnt = 0, !.buckets = empty(h.bucket_cnt)]
  /\ members' = {}
  /\ UNCHANGED answer

hash_destroy ==
  /\ h # NoElem
  /\ h' = NoElem
  /\ members' = {}
  /\ UNCHANGED answer

hash_insert(e, fails) ==
  LET b == find_bucket(h, e)
      old == find_elem(h, b, e)
  IN  /\ h # NoElem
      /\ h' = rehash(IF old = NoElem THEN insert_elem(h, b, e) ELSE h, fails)
      /\ members' = IF Member(e) = NoElem THEN members \cup {e} ELSE members
      /\ answer' = [got |-> old, due |-> Member(e)]

hash_replace(e, fails) ==
  LET b == find_bucket(h, e)
      old == find_elem(h, b, e)
      cut == IF old = NoElem THEN h ELSE remove_elem(h, old)
  IN  /\ h # NoElem
      /\ h' = rehash(insert_elem(cut, b, e), fails)
      /\ members' = (members \ {Member(e)}) \cup {e}
      /\ answer' = [got |-> old, due |-> Member(e)]

hash_delete(e, fails) ==
  LET found == hash_find(h, e)
  IN  /\ h # NoElem
      /\ h' = IF found = NoElem THEN h ELSE rehash(remove_elem(h, found), fails)
      /\ members' = members \ {Member(e)}
      /\ answer' = [got |-> found, due |-> Member(e)]

HashNext ==
  \/ hash_init \/ hash_clear \/ hash_destroy
  \/ \E fails \in BOOLEAN :
       \/ \E e \in Outside : hash_insert(e, fails) \/ hash_replace(e, fails)
       \/ \E e \in Item : hash_delete(e, fails)

-----------------------------------------------------------------------------
(* Properties.                                                             *)

\* The table is a set without equal elements: every member is found from
\* every element equal to it, elem_cnt counts the members, and each call
\* returned the element it should, whichever of the allocations in rehash()
\* failed on the way.
HashIsSet ==
  h # NoElem =>
    /\ \A e \in Item : hash_find(h, e) = Member(e)
    /\ h.elem_cnt = Cardinality(members)
    /\ is_power_of_2(h.bucket_cnt)
    /\ answer.got = answer.due

\* hash_first() with hash_next(), and hash_apply(), visit each member once.
HashIteration ==
  h # NoElem =>
    /\ Iterate(h, 0, 0) = Visited(h)
    /\ Len(Visited(h)) = Cardinality(members)
    /\ Range(Visited(h)) = members

\* hash.c: the table is the set that the calls built, whether elements are
\* looked up or visited one by one, through every rehash() and failed malloc().
HashCorrect == HashIsSet /\ HashIteration
=============================================================================
