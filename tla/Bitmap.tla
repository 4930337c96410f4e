------------------------------- MODULE Bitmap -------------------------------
(***************************************************************************)
(* Bitmaps (lib/kernel/bitmap.c), with the four ways in which bitmap_scan()*)
(* can look for a group of bits.  A word is the set of its bits that are   *)
(* on; a word has ELEM_BITS of them.  A search returns Panic where an      *)
(* ASSERT of the code fails.                                               *)
(***************************************************************************)
EXTENDS Integers, SequencesExt, FiniteSetsExt

CONSTANTS
  ELEM_BITS,
  BitCnt,       \* sizes of bitmaps
  BuddyMax      \* `max' of the buddy search: 512 in the code, a power of 2

BITMAP_ERROR == -1  \* SIZE_MAX
Panic == -2

elem_idx(i) == i \div ELEM_BITS
bit_mask(i) == {i % ELEM_BITS}
elem_cnt(n) == (n + ELEM_BITS - 1) \div ELEM_BITS
Word == SUBSET (0..ELEM_BITS - 1)

\* The bits of the last word that are in use.
last_mask(b) ==
  LET last_bits == b.bit_cnt % ELEM_BITS
  IN  IF last_bits = 0 THEN 0..ELEM_BITS - 1 ELSE 0..last_bits - 1

bitmap_mark(b, i) == [b EXCEPT !.bits[elem_idx(i)] = @ \cup bit_mask(i)]
bitmap_reset(b, i) == [b EXCEPT !.bits[elem_idx(i)] = @ \ bit_mask(i)]
bitmap_flip(b, i) ==
  [b EXCEPT !.bits[elem_idx(i)] =
     IF bit_mask(i) \subseteq @ THEN @ \ bit_mask(i) ELSE @ \cup bit_mask(i)]
bitmap_set(b, i, value) == IF value THEN bitmap_mark(b, i) ELSE bitmap_reset(b, i)
bitmap_test(b, i) == bit_mask(i) \subseteq b.bits[elem_idx(i)]

bitmap_set_multiple(b, start, cnt, value) ==
  FoldSet(LAMBDA i, c : bitmap_set(c, i, value), b, start..start + cnt - 1)

\* bitmap_create(), and bitmap_create_in_buf() without its two allocations:
\* all bits start as zero.
bitmap_create(n) ==
  bitmap_set_multiple([bit_cnt |-> n,
                       bits |-> [w \in 0..elem_cnt(n) - 1 |-> {}]],
                      0, n, FALSE)

bitmap_count(b, start, cnt, value) ==
  Cardinality({i \in start..start + cnt - 1 : bitmap_test(b, i) = value})

bitmap_contains(b, start, cnt, value) ==
  \E i \in start..start + cnt - 1 : bitmap_test(b, i) = value

bitmap_any(b, start, cnt) == bitmap_contains(b, start, cnt, TRUE)
bitmap_none(b, start, cnt) == ~bitmap_contains(b, start, cnt, TRUE)
bitmap_all(b, start, cnt) == ~bitmap_contains(b, start, cnt, FALSE)

-----------------------------------------------------------------------------
(* bitmap_scan().                                                          *)

\* cnt bits from i are all `value'.  bitmap_contains() ASSERTs that they lie
\* in the bitmap.
Group(b, i, cnt, value) ==
  i + cnt <= b.bit_cnt /\ ~bitmap_contains(b, i, cnt, ~value)

\* The first i of first..last that starts a group.
FirstGroup(b, first, last, cnt, value) ==
  LET found == {i \in first..last : Group(b, i, cnt, value)}
  IN  IF found = {} THEN BITMAP_ERROR ELSE Min(found)

FirstFit(b, start, cnt, value) ==
  FirstGroup(b, start, b.bit_cnt - cnt, cnt, value)

\* From the last allocation to the end, then from the start to the last
\* allocation, where bitmap_contains() is called past the last place too.
NextFit(b, start, cnt, value, lastest) ==
  LET last == b.bit_cnt - cnt
      after == FirstGroup(b, lastest, last, cnt, value)
      before == FirstGroup(b, start, Min({lastest, last}), cnt, value)
  IN  IF after # BITMAP_ERROR THEN after
      ELSE IF before # BITMAP_ERROR THEN before
      ELSE IF lastest > last /\ lastest >= start THEN Panic
      ELSE BITMAP_ERROR

\* The best of the runs of free bits from i on; a run is followed only up to
\* `last', and the first of the shortest ones is kept.
RECURSIVE BestRun(_, _, _, _)
BestRun(b, i, cnt, best) ==
  LET last == b.bit_cnt - cnt
      stop == Min({j \in i..last : bitmap_test(b, j)} \cup {last + 1})
      size == stop - i
  IN  IF i > last THEN IF best.size = 0 THEN BITMAP_ERROR ELSE best.idx
      ELSE IF bitmap_test(b, i) THEN BestRun(b, i + 1, cnt, best)
      ELSE BestRun(b, stop, cnt,
                   IF cnt <= size /\ (best.size = 0 \/ size < best.size)
                     THEN [idx |-> i, size |-> size] ELSE best)

BestFit(b, start, cnt) == BestRun(b, start, cnt, [idx |-> 0, size |-> 0])

\* The smallest power of 2 that is at least n; 0 for 0.
RECURSIVE RoundUp(_, _)
RoundUp(n, p) == IF n = 0 THEN 0 ELSE IF n <= p THEN p ELSE RoundUp(n, 2 * p)

\* The size of the blocks that are tried: twice the largest BuddyMax / 2^k
\* below cnt, or 0 + 1 when that is 0.
RECURSIVE Bound(_, _)
Bound(cnt, bound) == IF cnt > bound THEN bound ELSE Bound(cnt, bound \div 2)

\* The search from i on.  `offset', the bits found allocated, is not reset
\* from one allocated run to the next; `limit' is max + check_size.
RECURSIVE BuddyFrom(_, _, _, _, _, _)
BuddyFrom(b, i, bound, offset, limit, value) ==
  LET step == 2 * bound
      run == Min({j \in i..b.bit_cnt : j = b.bit_cnt \/ ~bitmap_test(b, j)}
                 \cup {limit})
      size == RoundUp(offset + (run - i), 1)
  IN  IF i >= limit THEN BITMAP_ERROR
      ELSE IF i >= b.bit_cnt THEN Panic
      ELSE IF bitmap_test(b, i)
      THEN IF run >= limit THEN BITMAP_ERROR
           ELSE IF run >= b.bit_cnt THEN Panic
           ELSE IF size > BuddyMax \div 2 THEN 0
           ELSE BuddyFrom(b, i + Max({size, step}), bound, size, limit, value)
      ELSE IF bound = 0 THEN i
      ELSE IF i + step > b.bit_cnt THEN Panic
      ELSE IF Group(b, i, step, value) THEN i
      ELSE BuddyFrom(b, i + step, bound, offset, limit, value)

BuddySystem(b, cnt, value, check_size) ==
  IF cnt > BuddyMax THEN BITMAP_ERROR
  ELSE BuddyFrom(b, 0, Bound(cnt, BuddyMax \div 2), 0, BuddyMax + check_size,
                 value)

bitmap_scan(b, start, cnt, value, select, lastest, check_size) ==
  IF cnt > b.bit_cnt THEN BITMAP_ERROR
  ELSE CASE select = "FIRST_FIT" -> FirstFit(b, start, cnt, value)
         [] select = "NEXT_FIT" -> NextFit(b, start, cnt, value, lastest)
         [] select = "BEST_FIT" -> BestFit(b, start, cnt)
         [] select = "BUDDY_SYSTEM" -> BuddySystem(b, cnt, value, check_size)

-----------------------------------------------------------------------------
(* The machine: one bitmap, its file, and the statics of bitmap_scan().    *)

VARIABLES
  bm,          \* the struct bitmap
  on,          \* the bits that should be on
  saved,       \* the words in the file
  Select,      \* the policy; FIRST_FIT in the code
  lastestAlloc, check_size

bitmapVars == <<bm, on, saved, Select, lastestAlloc, check_size>>

Policy == {"FIRST_FIT", "NEXT_FIT", "BEST_FIT", "BUDDY_SYSTEM"}

\* The bits of words ws that are on.
BitsOf(n, ws) == {i \in 0..n - 1 : bit_mask(i) \subseteq ws[elem_idx(i)]}

\* The file may hold anything before the first bitmap_write().
BitmapInit ==
  /\ \E n \in BitCnt : bm = bitmap_create(n)
  /\ on = {}
  /\ saved \in [DOMAIN bm.bits -> {{}, 0..ELEM_BITS - 1}]
  /\ Select \in Policy
  /\ lastestAlloc = 0 /\ check_size = 0

statics == <<saved, Select, lastestAlloc, check_size>>

BitmapSet(i, value) ==
  /\ bm' = bitmap_set(bm, i, value)
  /\ on' = IF value THEN on \cup {i} ELSE on \ {i}
  /\ UNCHANGED statics

BitmapFlip(i) ==
  /\ bm' = bitmap_flip(bm, i)
  /\ on' = IF i \in on THEN on \ {i} ELSE on \cup {i}
  /\ UNCHANGED statics

\* check_cnt is never counted up, so every call adds to check_size; only the
\* buddy search reads it, and the model keeps it for that one.
Checked(cnt) == IF Select = "BUDDY_SYSTEM" THEN check_size + cnt ELSE 0

\* The kernel looks for bits that are off.
Scan(start, cnt) ==
  bitmap_scan(bm, start, cnt, FALSE, Select, lastestAlloc, Checked(cnt))

\* Bounded by check_size <= BuddyMax.
bitmap_scan_and_flip(start, cnt) ==
  LET idx == Scan(start, cnt)
      ok == idx # BITMAP_ERROR
  IN  /\ idx # Panic /\ idx + cnt <= bm.bit_cnt
      /\ Checked(cnt) <= BuddyMax
      /\ check_size' = Checked(cnt)
      /\ lastestAlloc' = IF ok /\ Select = "NEXT_FIT" THEN idx ELSE lastestAlloc
      /\ bm' = IF ok THEN bitmap_set_multiple(bm, idx, cnt, TRUE) ELSE bm
      /\ on' = IF ok THEN on \cup idx..idx + cnt - 1 ELSE on
      /\ UNCHANGED <<saved, Select>>

bitmap_write ==
  /\ saved' = bm.bits
  /\ UNCHANGED <<bm, on, Select, lastestAlloc, check_size>>

\* Bug variant: the bits past the end are kept.
bitmap_read_NoMask(words) ==
  LET ws == [w \in DOMAIN bm.bits |-> IF w < words THEN saved[w] ELSE bm.bits[w]]
  IN  /\ bm' = [bm EXCEPT !.bits = ws]
      /\ on' = BitsOf(bm.bit_cnt, ws)
          /\ UNCHANGED statics

\* The file may end early: then only some words are read, and it fails.
bitmap_read(words) ==
  LET ws == [w \in DOMAIN bm.bits |-> IF w < words THEN saved[w] ELSE bm.bits[w]]
      last == elem_cnt(bm.bit_cnt) - 1
  IN  /\ bm' = [bm EXCEPT !.bits = [ws EXCEPT ![last] = @ \cap last_mask(bm)]]
      /\ on' = BitsOf(bm.bit_cnt, ws)
          /\ UNCHANGED statics

BitmapNext ==
  \/ \E i \in 0..bm.bit_cnt - 1 :
       BitmapFlip(i) \/ \E value \in BOOLEAN : BitmapSet(i, value)
  \/ \E start \in 0..bm.bit_cnt, cnt \in 1..bm.bit_cnt :
       bitmap_scan_and_flip(start, cnt)
  \/ bitmap_write
  \/ \E words \in 0..elem_cnt(bm.bit_cnt) : bitmap_read(words)

-----------------------------------------------------------------------------
(* Properties.                                                             *)

\* A bit is changed by the calls that name it and by no other, across word
\* boundaries and through the file; counting and testing groups agrees; and
\* no bit past the end is on, which bitmap_read() must see to.
BitmapIsSet ==
  /\ \A i \in 0..bm.bit_cnt - 1 : bitmap_test(bm, i) <=> i \in on
  /\ \A w \in DOMAIN bm.bits : \A k \in bm.bits[w] :
       w * ELEM_BITS + k < bm.bit_cnt
  /\ \A start \in 0..bm.bit_cnt : \A cnt \in 0..bm.bit_cnt - start :
       LET range == start..start + cnt - 1
       IN  /\ bitmap_count(bm, start, cnt, TRUE) = Cardinality(range \cap on)
           /\ bitmap_any(bm, start, cnt) <=> range \cap on # {}
           /\ bitmap_all(bm, start, cnt) <=> range \subseteq on
           /\ bitmap_none(bm, start, cnt) <=> ~bitmap_any(bm, start, cnt)

Free(i, cnt) == i..i + cnt - 1 \subseteq (0..bm.bit_cnt - 1) \ on

\* The bits that bitmap_scan() finds are off and lie in the bitmap, whatever
\* the policy.  The buddy search returns 0, whatever is there, when it has
\* passed more than half of its largest block.
ScanSound ==
  \A start \in 0..bm.bit_cnt : \A cnt \in 1..bm.bit_cnt :
    LET idx == Scan(start, cnt)
    IN  \/ idx \in {BITMAP_ERROR, Panic}
        \/ Free(idx, cnt)
        \/ Select = "BUDDY_SYSTEM" /\ idx = 0

\* With FIRST_FIT the group is the first one at or after START, and there is
\* an error only if there is none.  NEXT_FIT misses no group either, but may
\* run into an ASSERT; BEST_FIT and the buddy search do miss some.
ScanFirst ==
  \A start \in 0..bm.bit_cnt : \A cnt \in 1..bm.bit_cnt :
    LET idx == Scan(start, cnt)
        groups == {i \in start..bm.bit_cnt - 1 : Free(i, cnt)}
    IN  CASE Select = "FIRST_FIT" ->
               idx = IF groups = {} THEN BITMAP_ERROR ELSE Min(groups)
          [] Select = "NEXT_FIT" ->
               idx \in {BITMAP_ERROR, Panic} => groups = {}
          [] OTHER -> idx = Panic => Select = "BUDDY_SYSTEM"

\* bitmap.c: the words are the set of bits that the calls built, and
\* bitmap_scan() finds groups that are in its complement.
BitmapCorrect == BitmapIsSet /\ ScanSound /\ ScanFirst
=============================================================================
