------------------------------- MODULE Palloc -------------------------------
(***************************************************************************)
(* The page allocator (threads/palloc.c).  palloc_get_multiple() searches  *)
(* the bitmap of a pool bit by bit under the pool's lock, and              *)
(* palloc_free_multiple() clears bits one by one without it; the           *)
(* instructions that change a bit are atomic (bitmap.c).                   *)
(***************************************************************************)
EXTENDS Integers, FiniteSets

CONSTANTS
  Thread,
  KernelPages, UserPages,  \* the sizes of the two pools
  NULL

VARIABLES
  used,       \* the pages whose bit is on in the used_map of their pool
  pool_lock,  \* the holder of each pool's lock
  pa,         \* each thread's call of the page allocator
  sure,       \* the pages that were free from the start of its search on
  panicked    \* an ASSERT has failed

pallocVars == <<used, pool_lock, pa, sure>>

Pool == {"kernel", "user"}
Page == 0..KernelPages + UserPages - 1
NoPage == -1

\* init_pool() and palloc_init(): the user pool follows the kernel pool.
base(pool) == IF pool = "kernel" THEN 0 ELSE KernelPages
page_cnt(pool) == IF pool = "kernel" THEN KernelPages ELSE UserPages
Pages(pool) == base(pool)..base(pool) + page_cnt(pool) - 1

\* page_from_pool() in the order of palloc_free_multiple().
page_from_pool(page) == IF page \in Pages("kernel") THEN "kernel" ELSE "user"

idle == [pc |-> "idle", pool |-> "kernel", cnt |-> 0, i |-> 0, k |-> 0,
         page |-> NoPage]

PallocInit ==
  /\ used = {}
  /\ pool_lock = [p \in Pool |-> NULL]
  /\ pa = [t \in Thread |-> idle]
  /\ sure = [t \in Thread |-> {}]

at(t, label) == pa[t].pc = label

\* The call is made; lock_acquire() comes next, unless no page is asked for.
palloc_get_multiple(t, pool, cnt) ==
  /\ pa' = [pa EXCEPT ![t] = [idle EXCEPT !.pool = pool, !.cnt = cnt,
                                !.pc = IF cnt = 0 THEN "done" ELSE "acquire"]]
  /\ UNCHANGED <<used, pool_lock, sure>>

\* The caller has taken the result.
palloc_return(t) ==
  /\ pa' = [pa EXCEPT ![t] = idle]
  /\ sure' = [sure EXCEPT ![t] = {}]
  /\ UNCHANGED <<used, pool_lock>>

\* The pages from `page' on are given back, after the ASSERT on bitmap_all().
palloc_free_multiple(t, page, cnt) ==
  /\ pa' = [pa EXCEPT ![t] = [idle EXCEPT !.pc = "clear", !.cnt = cnt,
                                          !.pool = page_from_pool(page),
                                          !.page = page]]
  /\ panicked' = (panicked \/ ~(page..page + cnt - 1 \subseteq used))
  /\ UNCHANGED <<used, pool_lock, sure>>

\* Bug variant: the search does not take the lock.
Acquire_NoLock(t) ==
  LET c == pa[t]
  IN  /\ at(t, "acquire")
      /\ pa' = [pa EXCEPT ![t].pc = "scan", ![t].i = base(c.pool)]
      /\ sure' = [sure EXCEPT ![t] = Pages(c.pool) \ used]
      /\ UNCHANGED <<used, pool_lock, panicked>>

Acquire(t) ==
  LET c == pa[t]
  IN  /\ at(t, "acquire")
      /\ pool_lock[c.pool] = NULL
      /\ pool_lock' = [pool_lock EXCEPT ![c.pool] = t]
      /\ pa' = [pa EXCEPT ![t].pc = "scan", ![t].i = base(c.pool)]
      /\ sure' = [sure EXCEPT ![t] = Pages(c.pool) \ used]
      /\ UNCHANGED <<used, panicked>>

\* bitmap_scan(), FIRST_FIT: one bitmap_test() of bitmap_contains(b, i, cnt).
Scan(t) ==
  LET c == pa[t]
      last == base(c.pool) + page_cnt(c.pool) - c.cnt
  IN  /\ at(t, "scan")
      /\ pa' = [pa EXCEPT ![t] =
                  IF c.i > last THEN [c EXCEPT !.pc = "release"]
                  ELSE IF c.i + c.k \in used
                  THEN [c EXCEPT !.i = c.i + 1, !.k = 0]
                  ELSE IF c.k + 1 < c.cnt THEN [c EXCEPT !.k = c.k + 1]
                  ELSE [c EXCEPT !.pc = "mark", !.k = 0, !.page = c.i]]
      /\ UNCHANGED <<used, pool_lock, sure, panicked>>

\* bitmap_set_multiple(b, idx, cnt, true), one bit at a time.
Mark(t) ==
  LET c == pa[t]
  IN  /\ at(t, "mark")
      /\ used' = used \cup {c.page + c.k}
      /\ pa' = [pa EXCEPT ![t].k = c.k + 1,
                          ![t].pc = IF c.k + 1 = c.cnt THEN "release" ELSE @]
      /\ sure' = [u \in Thread |-> sure[u] \ {c.page + c.k}]
      /\ UNCHANGED <<pool_lock, panicked>>

Release(t) ==
  /\ at(t, "release")
  /\ pool_lock' = [pool_lock EXCEPT ![pa[t].pool] = NULL]
  /\ pa' = [pa EXCEPT ![t].pc = "done"]
  /\ UNCHANGED <<used, sure, panicked>>

\* bitmap_set_multiple(b, idx, cnt, false), one bit at a time.
Clear(t) ==
  LET c == pa[t]
  IN  /\ at(t, "clear")
      /\ used' = used \ {c.page + c.k}
      /\ pa' = [pa EXCEPT ![t] =
                  IF c.k + 1 = c.cnt THEN [idle EXCEPT !.pc = "done"]
                  ELSE [c EXCEPT !.k = c.k + 1]]
      /\ UNCHANGED <<pool_lock, sure, panicked>>

PallocStep(t) ==
  Acquire(t) \/ Scan(t) \/ Mark(t) \/ Release(t) \/ Clear(t)

\* The pages that a call has marked and not handed over, or not cleared yet.
InHand(t) ==
  LET c == pa[t]
  IN  IF c.page = NoPage THEN {}
      ELSE IF c.pc = "clear" THEN c.page + c.k..c.page + c.cnt - 1
      ELSE c.page..c.page + c.k - 1

\* palloc_get_multiple() fails only if no CNT contiguous pages were free
\* throughout its search: pages that others give back meanwhile, without
\* the lock, do not make it miss the ones that were there.
SearchComplete ==
  \A t \in Thread :
    at(t, "release") /\ pa[t].page = NoPage =>
      \A i \in Page : ~(i..i + pa[t].cnt - 1 \subseteq sure[t])
=============================================================================
