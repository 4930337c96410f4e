-------------------------------- MODULE List --------------------------------
(***************************************************************************)
(* The doubly linked lists of lib/kernel/list.c, at the level of the       *)
(* pointers: a list is a head and a tail cell, and an element carries its  *)
(* own links.  An operation is a function of the memory m of links, and    *)
(* list_failed records that one of its ASSERTs was false.  Beside the      *)
(* memory, seq holds the sequences that list.h promises.                   *)
(***************************************************************************)
EXTENDS Integers, SequencesExt, FiniteSetsExt

CONSTANTS
  Elem,    \* the list elements that exist
  Lists,   \* the lists
  Value,   \* what LESS compares; different elements may have equal values
  NULL

VARIABLES
  mem,          \* mem.next and mem.prev of every cell
  seq,          \* the elements that each list should have, in order
  list_failed   \* an ASSERT has failed

listVars == <<mem, seq, list_failed>>

head(l) == <<l, "head">>
tail(l) == <<l, "tail">>
Cell == Elem \cup {head(l) : l \in Lists} \cup {tail(l) : l \in Lists}

less(a, b) == Value[a] < Value[b]

is_head(m, e) == m.prev[e] = NULL /\ m.next[e] # NULL
is_interior(m, e) == m.prev[e] # NULL /\ m.next[e] # NULL
is_tail(m, e) == m.prev[e] # NULL /\ m.next[e] = NULL

list_init(m, l) ==
  [next |-> [m.next EXCEPT ![head(l)] = tail(l), ![tail(l)] = NULL],
   prev |-> [m.prev EXCEPT ![head(l)] = NULL, ![tail(l)] = head(l)]]

list_begin(m, l) == m.next[head(l)]
list_end(m, l) == tail(l)
list_rbegin(m, l) == m.prev[tail(l)]
list_empty(m, l) == list_begin(m, l) = list_end(m, l)

\* The cells from first up to last, exclusive, as list_next() visits them.
RECURSIVE Forward(_, _, _)
Forward(m, first, last) ==
  IF first = last THEN <<>>
  ELSE <<first>> \o Forward(m, m.next[first], last)

\* The same with list_prev().
RECURSIVE Backward(_, _, _)
Backward(m, first, last) ==
  IF first = last THEN <<>>
  ELSE <<first>> \o Backward(m, m.prev[first], last)

Elements(m, l) == Forward(m, list_begin(m, l), list_end(m, l))
list_size(m, l) == Len(Elements(m, l))

-----------------------------------------------------------------------------
(* The operations on the links.                                            *)

list_insert(m, before, e) ==
  LET p == m.prev[before]
  IN  [next |-> [m.next EXCEPT ![e] = before, ![p] = e],
       prev |-> [m.prev EXCEPT ![e] = p, ![before] = e]]

list_remove(m, e) ==
  [next |-> [m.next EXCEPT ![m.prev[e]] = m.next[e]],
   prev |-> [m.prev EXCEPT ![m.next[e]] = m.prev[e]]]

\* first to last, exclusive, leave their list; then they are linked in.
\* Bug variant: the links of the new place are read before the removal.
list_splice_Early(m, before, first, last) ==
  IF first = last THEN m
  ELSE LET z == m.prev[last]
           p == m.prev[before]
           n1 == [m.next EXCEPT ![m.prev[first]] = last]
           p1 == [m.prev EXCEPT ![last] = m.prev[first]]
       IN  [next |-> [n1 EXCEPT ![z] = before, ![p] = first],
            prev |-> [p1 EXCEPT ![first] = p, ![before] = z]]

list_splice(m, before, first, last) ==
  IF first = last THEN m
  ELSE LET z == m.prev[last]
           n1 == [m.next EXCEPT ![m.prev[first]] = last]
           p1 == [m.prev EXCEPT ![last] = m.prev[first]]
           p == p1[before]
       IN  [next |-> [n1 EXCEPT ![z] = before, ![p] = first],
            prev |-> [p1 EXCEPT ![first] = p, ![before] = z]]

\* swap (&e->prev, &e->next) for every element, then the two ends.
list_reverse(m, l) ==
  IF list_empty(m, l) THEN m
  ELSE LET es == Range(Elements(m, l))
           turned(f, g) == [c \in Cell |-> IF c \in es THEN g[c] ELSE f[c]]
           n1 == [turned(m.next, m.prev) EXCEPT ![head(l)] = m.prev[tail(l)]]
           p1 == [turned(m.prev, m.next) EXCEPT ![tail(l)] = m.next[head(l)]]
           a == n1[head(l)]
           z == p1[tail(l)]
       IN  [next |-> [n1 EXCEPT ![z] = p1[a]],
            prev |-> [p1 EXCEPT ![a] = n1[z]]]

is_sorted(m, a, b) ==
  LET s == Forward(m, a, b)
  IN  \A i \in 2..Len(s) : ~less(s[i], s[i - 1])

RECURSIVE find_end_of_run(_, _, _)
find_end_of_run(m, a, b) ==
  LET n == m.next[a]
  IN  IF n # b /\ ~less(n, m.prev[n]) THEN find_end_of_run(m, n, b) ELSE n

RECURSIVE inplace_merge(_, _, _, _)
inplace_merge(m, a0, a1b0, b1) ==
  IF a0 = a1b0 \/ a1b0 = b1 THEN m
  ELSE IF ~less(a1b0, a0) THEN inplace_merge(m, m.next[a0], a1b0, b1)
  ELSE LET n == m.next[a1b0]
       IN  inplace_merge(list_splice(m, a0, a1b0, n), a0, n, b1)

\* One pass of list_sort() from a0 on, with the output runs counted and the
\* ASSERTs of inplace_merge() noted.
RECURSIVE SortPass(_, _, _, _, _)
SortPass(m, l, a0, runs, ok) ==
  LET end == list_end(m, l)
      a1b0 == find_end_of_run(m, a0, end)
      b1 == find_end_of_run(m, a1b0, end)
  IN  IF a0 = end THEN [m |-> m, runs |-> runs, ok |-> ok]
      ELSE IF a1b0 = end THEN [m |-> m, runs |-> runs + 1, ok |-> ok]
      ELSE SortPass(inplace_merge(m, a0, a1b0, b1), l, b1, runs + 1,
                    ok /\ is_sorted(m, a0, a1b0) /\ is_sorted(m, a1b0, b1))

RECURSIVE list_sort(_, _)
list_sort(m, l) ==
  LET pass == SortPass(m, l, list_begin(m, l), 0, TRUE)
  IN  IF pass.runs > 1 /\ pass.ok THEN list_sort(pass.m, l) ELSE pass

\* The first element that `for (e = ...) if (less (elem, e)) break;' stops at.
RECURSIVE InsertionPoint(_, _, _, _)
InsertionPoint(m, l, e, at) ==
  IF at = list_end(m, l) \/ less(e, at) THEN at
  ELSE InsertionPoint(m, l, e, m.next[at])

RECURSIVE UniqueLoop(_, _, _, _)
UniqueLoop(m, l, duplicates, e) ==
  LET n == m.next[e]
      gone == list_remove(m, n)
  IN  IF n = list_end(m, l) THEN m
      ELSE IF less(e, n) \/ less(n, e) THEN UniqueLoop(m, l, duplicates, n)
      ELSE UniqueLoop(IF duplicates = NULL THEN gone
                      ELSE list_insert(gone, list_end(gone, duplicates), n),
                      l, duplicates, e)

list_unique(m, l, duplicates) ==
  IF list_empty(m, l) THEN m
  ELSE UniqueLoop(m, l, duplicates, list_begin(m, l))

list_max(m, l) ==
  IF list_empty(m, l) THEN list_end(m, l)
  ELSE FoldLeft(LAMBDA max, e : IF less(max, e) THEN e ELSE max,
                list_begin(m, l), Elements(m, l))

list_min(m, l) ==
  IF list_empty(m, l) THEN list_end(m, l)
  ELSE FoldLeft(LAMBDA min, e : IF less(e, min) THEN e ELSE min,
                list_begin(m, l), Elements(m, l))

-----------------------------------------------------------------------------
(* The machine: any sequence of calls that keep to the rules of list.h.    *)

Loose == Elem \ UNION {Range(seq[l]) : l \in Lists}

\* Position i of list l, or its tail.
Place(l, i) == IF i > Len(seq[l]) THEN tail(l) ELSE seq[l][i]

ListInit ==
  /\ mem = LET f == [c \in Cell |-> NULL]
           IN  FoldSet(LAMBDA l, m : list_init(m, l),
                       [next |-> f, prev |-> f], Lists)
  /\ seq = [l \in Lists |-> <<>>]
  /\ list_failed = FALSE

\* The call leaves memory m; asserts holds if its ASSERTs do.
Becomes(m, asserts) == mem' = m /\ list_failed' = ~asserts

Linked(e) == is_interior(mem, e) \/ is_tail(mem, e)

\* list_insert(), with list_push_front() and list_push_back() as its cases.
ListInsert(l, i, e) ==
  /\ Becomes(list_insert(mem, Place(l, i), e), Linked(Place(l, i)))
  /\ seq' = [seq EXCEPT ![l] = InsertAt(@, i, e)]

\* list_remove(), with list_pop_front() and list_pop_back() as its cases.
ListRemove(l, i) ==
  LET e == seq[l][i]
  IN  /\ Becomes(list_remove(mem, e), is_interior(mem, e))
      /\ seq' = [seq EXCEPT ![l] = RemoveAt(@, i)]

\* Positions i to j - 1 of list l go before position n of list k, which is not
\* one of them.
ListSplice(l, i, j, k, n) ==
  LET first == Place(l, i)
      last == Place(l, j)
      moved == SubSeq(seq[l], i, j - 1)
      rest == SubSeq(seq[l], 1, i - 1) \o SubSeq(seq[l], j, Len(seq[l]))
      onto(s, at) == SubSeq(s, 1, at - 1) \o moved \o SubSeq(s, at, Len(s))
  IN  /\ l = k /\ i < j => n < i \/ n >= j
      /\ Becomes(list_splice(mem, Place(k, n), first, last),
                 /\ Linked(Place(k, n))
                 /\ i < j => /\ is_interior(mem, first)
                             /\ is_interior(mem, mem.prev[last]))
      /\ seq' = IF l = k
                  THEN [seq EXCEPT ![l] =
                          onto(rest, IF n >= j THEN n - (j - i) ELSE n)]
                  ELSE [seq EXCEPT ![l] = rest, ![k] = onto(@, n)]

ListReverse(l) ==
  /\ Becomes(list_reverse(mem, l), TRUE)
  /\ seq' = [seq EXCEPT ![l] = Reverse(@)]

\* Sorting keeps equal elements in their order.
StableSort(s) ==
  FlattenSeq([v \in 1..Cardinality(Elem) |->
                SelectSeq(s, LAMBDA e : Value[e] = v)])

ListSort(l) ==
  LET sorted == list_sort(mem, l)
  IN  /\ Becomes(sorted.m, /\ sorted.ok
                           /\ is_sorted(sorted.m, list_begin(sorted.m, l),
                                        list_end(sorted.m, l)))
      /\ seq' = [seq EXCEPT ![l] = StableSort(@)]

ListInsertOrdered(l, e) ==
  /\ is_sorted(mem, list_begin(mem, l), list_end(mem, l))
  /\ Becomes(list_insert(mem, InsertionPoint(mem, l, e, list_begin(mem, l)), e),
             TRUE)
  /\ seq' = [seq EXCEPT ![l] = StableSort(Append(@, e))]

\* Of a run of equal elements the first stays; the others go to the end of
\* the list `duplicates', when there is one.
ListUnique(l, duplicates) ==
  LET s == seq[l]
      again == {i \in 2..Len(s) : Value[s[i]] = Value[s[i - 1]]}
      at(I) == LET is == SetToSortSeq(I, <)
               IN  [n \in DOMAIN is |-> s[is[n]]]
      kept == [seq EXCEPT ![l] = at(DOMAIN s \ again)]
  IN  /\ Becomes(list_unique(mem, l, duplicates), TRUE)
      /\ seq' = IF duplicates = NULL THEN kept
                ELSE [kept EXCEPT ![duplicates] = @ \o at(again)]

ListNext ==
  /\ ~list_failed
  /\ \E l \in Lists :
       \/ \E e \in Loose :
            \/ \E i \in 1..Len(seq[l]) + 1 : ListInsert(l, i, e)
            \/ ListInsertOrdered(l, e)
       \/ \E i \in DOMAIN seq[l] : ListRemove(l, i)
       \/ \E i \in 1..Len(seq[l]) + 1, k \in Lists :
            \E j \in i..Len(seq[l]) + 1, n \in 1..Len(seq[k]) + 1 :
              ListSplice(l, i, j, k, n)
       \/ ListReverse(l)
       \/ ListSort(l)
       \/ \E d \in (Lists \ {l}) \cup {NULL} : ListUnique(l, d)

-----------------------------------------------------------------------------
(* Properties.                                                             *)

\* Whatever calls are made, following the links forwards gives the sequence
\* that list.h promises and following them backwards gives its reverse;
\* sorting is stable; and no ASSERT of list.c fails.
ListIsSequence ==
  /\ ~list_failed
  /\ \A l \in Lists :
       /\ Elements(mem, l) = seq[l]
       /\ Backward(mem, list_rbegin(mem, l), head(l)) = Reverse(seq[l])

\* list_max() and list_min() return the earliest of several candidates, and
\* the tail of an empty list; list_size() and list_empty() agree.
ListQueries ==
  \A l \in Lists :
    LET s == seq[l]
        first(better(_, _)) ==
          IF s = <<>> THEN tail(l)
          ELSE s[Min({i \in DOMAIN s :
                        \A j \in DOMAIN s : ~better(Value[s[j]], Value[s[i]])})]
    IN  /\ list_max(mem, l) = first(LAMBDA x, y : x > y)
        /\ list_min(mem, l) = first(LAMBDA x, y : x < y)
        /\ list_size(mem, l) = Len(s)
        /\ list_empty(mem, l) <=> s = <<>>

\* list.c: the links are the sequence that the calls built, and what is asked
\* of them is answered as of that sequence.
ListCorrect == ListIsSequence /\ ListQueries
=============================================================================
