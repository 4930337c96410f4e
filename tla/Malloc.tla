------------------------------- MODULE Malloc -------------------------------
(***************************************************************************)
(* malloc(), calloc(), realloc() and free() (threads/malloc.c) over the    *)
(* page allocator, called by several threads at once.  An address is a     *)
(* number; a descriptor is known by its block size.  A step runs from one  *)
(* lock operation or call of the page allocator to the next: what it       *)
(* touches in between, the descriptor's lock or the caller owns.           *)
(***************************************************************************)
EXTENDS Palloc, SequencesExt, FiniteSetsExt

CONSTANTS
  PGSIZE,
  ARENA,       \* sizeof (struct arena)
  MinBlock,    \* the smallest block size: 16 in the code
  Size,        \* the sizes that are asked for
  SIZE_MAX,    \* the largest size_t
  MaxBlocks    \* bound on the blocks in use

VARIABLES
  arena,       \* the arena at the start of each page, NULL where there is none
  free_list,   \* of each descriptor
  desc_lock,   \* the holder of each descriptor's lock
  pc,          \* where each thread is
  size,        \* the size that malloc() is called with
  asked,       \* the bytes that its caller counts on
  old,         \* the block that a thread frees, or will after realloc()
  blocks,      \* the blocks in use: the bytes asked for at each address
  user_pages   \* the pages of user processes

mallocVars ==
  <<pallocVars, panicked, arena, free_list, desc_lock, pc, size, asked, old,
    blocks, user_pages>>

\* malloc_init(): block sizes double up to half a page.
RECURSIVE Sizes(_)
Sizes(s) == IF 2 * s < PGSIZE THEN {s} \cup Sizes(2 * s) ELSE {}
Desc == Sizes(MinBlock)
blocks_per_arena(d) == (PGSIZE - ARENA) \div d

\* The smallest descriptor that is large enough; 0 for a big block.
DescFor(s) ==
  LET ds == {d \in Desc : d >= s} IN IF ds = {} THEN 0 ELSE Min(ds)

\* DIV_ROUND_UP (size + sizeof *a, PGSIZE), in which every sum wraps around.
big_pages(s) == ((s + ARENA + PGSIZE - 1) % (SIZE_MAX + 1)) \div PGSIZE

arena_to_block(a, d, idx) == a * PGSIZE + ARENA + idx * d
page_of(b) == b \div PGSIZE
BlocksOf(a, d) == {arena_to_block(a, d, i) : i \in 0..blocks_per_arena(d) - 1}

\* The ASSERTs of block_to_arena(): the magic, and the alignment of b.
GoodBlock(b) ==
  LET a == arena[page_of(b)]
  IN  /\ a # NULL
      /\ IF a.desc = 0 THEN b % PGSIZE = ARENA
         ELSE ((b % PGSIZE) - ARENA) % a.desc = 0

\* block_size()
block_size(b) ==
  LET a == arena[page_of(b)]
  IN  IF a.desc # 0 THEN a.desc ELSE PGSIZE * a.free_cnt - (b % PGSIZE)

\* calloc(): the product wraps around, and some products that do are refused.
calloc_size(a, b) ==
  LET s == (a * b) % (SIZE_MAX + 1) IN IF s < a \/ s < b THEN 0 ELSE s

Init ==
  /\ PallocInit
  /\ panicked = FALSE
  /\ arena = [p \in Page |-> NULL]
  /\ free_list = [d \in Desc |-> <<>>]
  /\ desc_lock = [d \in Desc |-> NULL]
  /\ pc = [t \in Thread |-> "run"]
  /\ size = [t \in Thread |-> 0]
  /\ asked = [t \in Thread |-> 0]
  /\ old = [t \in Thread |-> 0]
  /\ blocks = [b \in {} |-> 0]
  /\ user_pages = {}

Goto(t, label) == pc' = [pc EXCEPT ![t] = label]
heapVars == <<arena, free_list, desc_lock>>

-----------------------------------------------------------------------------
(* malloc().                                                               *)

\* A call with s bytes, for a caller that counts on n; o is the block that
\* realloc() frees afterwards.
malloc(t, s, n, o) ==
  /\ pc[t] = "run" /\ s > 0
  /\ Cardinality(DOMAIN blocks) < MaxBlocks
  /\ size' = [size EXCEPT ![t] = s]
  /\ asked' = [asked EXCEPT ![t] = n]
  /\ old' = [old EXCEPT ![t] = o]
  /\ IF DescFor(s) = 0
       THEN Goto(t, "big") /\ palloc_get_multiple(t, "kernel", big_pages(s))
       ELSE Goto(t, "lock") /\ UNCHANGED pallocVars
  /\ UNCHANGED <<heapVars, blocks, user_pages, panicked>>

\* The call returns block b: realloc() copies and goes on to free its old
\* block, which nobody else uses.
Hand(t, b) ==
  LET kept == [x \in DOMAIN blocks \ {old[t]} |-> blocks[x]]
  IN  /\ blocks' = [x \in DOMAIN kept \cup {b} |->
                      IF x = b THEN asked[t] ELSE kept[x]]
      /\ Goto(t, IF old[t] = 0 THEN "run" ELSE "free")
      /\ size' = [size EXCEPT ![t] = 0]
      /\ asked' = [asked EXCEPT ![t] = 0]
      /\ UNCHANGED old

Fail(t) ==
  /\ Goto(t, "run")
  /\ size' = [size EXCEPT ![t] = 0]
  /\ asked' = [asked EXCEPT ![t] = 0]
  /\ old' = [old EXCEPT ![t] = 0]
  /\ UNCHANGED blocks

\* The big block is there, or not.
Big(t) ==
  LET a == pa[t].page
  IN  /\ pc[t] = "big" /\ at(t, "done")
      /\ palloc_return(t)
      /\ IF a = NoPage THEN Fail(t) /\ UNCHANGED arena
         ELSE /\ arena' = [arena EXCEPT ![a] = [desc |-> 0,
                                                free_cnt |-> pa[t].cnt]]
              /\ Hand(t, a * PGSIZE + ARENA)
      /\ UNCHANGED <<free_list, desc_lock, user_pages, panicked>>

\* The first block of list fl is handed out.
Pop(t, d, fl, ar) ==
  LET b == Head(fl)
  IN  /\ free_list' = [free_list EXCEPT ![d] = Tail(fl)]
      /\ arena' = [ar EXCEPT ![page_of(b)].free_cnt = @ - 1]
      /\ Hand(t, b)

Lock(t) ==
  LET d == DescFor(size[t])
  IN  /\ pc[t] = "lock" /\ desc_lock[d] = NULL
      /\ IF free_list[d] = <<>>
           THEN /\ desc_lock' = [desc_lock EXCEPT ![d] = t]
                /\ palloc_get_multiple(t, "kernel", 1)
                /\ Goto(t, "arena")
                /\ UNCHANGED <<arena, free_list, size, asked, old, blocks>>
           ELSE /\ Pop(t, d, free_list[d], arena)
                /\ UNCHANGED <<pallocVars, desc_lock>>
      /\ UNCHANGED <<user_pages, panicked>>

\* The page of a new arena is there: its blocks join the list and the first
\* is handed out; or it is not, and the call fails.
Arena(t) ==
  LET d == DescFor(size[t])
      a == pa[t].page
      n == blocks_per_arena(d)
  IN  /\ pc[t] = "arena" /\ at(t, "done")
      /\ palloc_return(t)
      /\ desc_lock' = [desc_lock EXCEPT ![d] = NULL]
      /\ IF a = NoPage THEN Fail(t) /\ UNCHANGED <<arena, free_list>>
         ELSE Pop(t, d, free_list[d] \o
                        [i \in 1..n |-> arena_to_block(a, d, i - 1)],
                  [arena EXCEPT ![a] = [desc |-> d, free_cnt |-> n]])
      /\ UNCHANGED <<user_pages, panicked>>

-----------------------------------------------------------------------------
(* free().                                                                 *)

\* free(), or realloc() to 0 bytes, of a block that is in use.
free(t, b) ==
  /\ pc[t] = "run"
  /\ blocks' = [x \in DOMAIN blocks \ {b} |-> blocks[x]]
  /\ old' = [old EXCEPT ![t] = b]
  /\ Goto(t, "free")
  /\ UNCHANGED <<pallocVars, heapVars, size, asked, user_pages, panicked>>

\* The arena is looked up; the pages of a big block go back at once.
Lookup(t) ==
  LET b == old[t]
      a == arena[page_of(b)]
      big == a.desc = 0
  IN  /\ pc[t] = "free"
      /\ IF ~GoodBlock(b)
           THEN panicked' = TRUE /\ UNCHANGED <<pallocVars, arena, pc>>
           ELSE IF big
           THEN /\ palloc_free_multiple(t, page_of(b), a.free_cnt)
                /\ arena' = [arena EXCEPT ![page_of(b)] = NULL]
                /\ Goto(t, "freed")
           ELSE Goto(t, "free_lock") /\ UNCHANGED <<pallocVars, arena, panicked>>
      /\ UNCHANGED <<free_list, desc_lock, size, asked, old, blocks, user_pages>>

\* Bug variant: the arena's free blocks stay on the list.
FreeLock_KeepBlocks(t) ==
  LET b == old[t]
      a == page_of(b)
      d == arena[a].desc
      full == arena[a].free_cnt + 1 >= blocks_per_arena(d)
  IN  /\ pc[t] = "free_lock" /\ desc_lock[d] = NULL
      /\ free_list' = [free_list EXCEPT ![d] = <<b>> \o @]
      /\ IF full
           THEN /\ arena' = [arena EXCEPT ![a] = NULL]
                /\ palloc_free_multiple(t, a, 1)
                /\ desc_lock' = [desc_lock EXCEPT ![d] = t]
                /\ size' = [size EXCEPT ![t] = d]
                /\ Goto(t, "free_unlock")
                /\ UNCHANGED old
           ELSE /\ arena' = [arena EXCEPT ![a].free_cnt = @ + 1]
                /\ Goto(t, "run")
                /\ old' = [old EXCEPT ![t] = 0]
                /\ UNCHANGED <<pallocVars, panicked, desc_lock, size>>
      /\ UNCHANGED <<asked, blocks, user_pages>>

\* The block joins the free list; an arena without blocks in use leaves it
\* with all of its blocks, and its page goes back while the lock is held.
FreeLock(t) ==
  LET b == old[t]
      a == page_of(b)
      d == arena[a].desc
      full == arena[a].free_cnt + 1 >= blocks_per_arena(d)
      list == <<b>> \o free_list[d]
  IN  /\ pc[t] = "free_lock" /\ desc_lock[d] = NULL
      /\ IF full
           THEN /\ free_list' = [free_list EXCEPT ![d] =
                     SelectSeq(list, LAMBDA x : x \notin BlocksOf(a, d))]
                /\ arena' = [arena EXCEPT ![a] = NULL]
                /\ palloc_free_multiple(t, a, 1)
                /\ desc_lock' = [desc_lock EXCEPT ![d] = t]
                /\ size' = [size EXCEPT ![t] = d]
                /\ Goto(t, "free_unlock")
                /\ UNCHANGED old
           ELSE /\ free_list' = [free_list EXCEPT ![d] = list]
                /\ arena' = [arena EXCEPT ![a].free_cnt = @ + 1]
                /\ Goto(t, "run")
                /\ old' = [old EXCEPT ![t] = 0]
                /\ UNCHANGED <<pallocVars, panicked, desc_lock, size>>
      /\ UNCHANGED <<asked, blocks, user_pages>>

\* The page is back: the end of free().
Freed(t) ==
  /\ pc[t] \in {"freed", "free_unlock"} /\ at(t, "done")
  /\ palloc_return(t)
  /\ desc_lock' = IF pc[t] = "free_unlock"
                    THEN [desc_lock EXCEPT ![size[t]] = NULL] ELSE desc_lock
  /\ Fail(t)
  /\ UNCHANGED <<arena, free_list, user_pages, panicked>>

-----------------------------------------------------------------------------
(* User pages come from their own pool.                                    *)

UserGet(t) ==
  /\ pc[t] = "run"
  /\ palloc_get_multiple(t, "user", 1)
  /\ Goto(t, "user")
  /\ UNCHANGED <<heapVars, size, asked, old, blocks, user_pages, panicked>>

UserGot(t) ==
  /\ pc[t] = "user" /\ at(t, "done")
  /\ palloc_return(t)
  /\ user_pages' = user_pages \cup ({pa[t].page} \ {NoPage})
  /\ Goto(t, "run")
  /\ UNCHANGED <<heapVars, size, asked, old, blocks, panicked>>

UserFree(t, p) ==
  /\ pc[t] = "run"
  /\ palloc_free_multiple(t, p, 1)
  /\ user_pages' = user_pages \ {p}
  /\ Goto(t, "freed")
  /\ UNCHANGED <<heapVars, size, asked, old, blocks>>

Call(t) ==
  \/ \E s \in Size : malloc(t, s, s, 0)
  \/ \E a, b \in Size : malloc(t, calloc_size(a, b), a * b, 0)
  \/ \E b \in DOMAIN blocks \ {old[u] : u \in Thread} :
       free(t, b) \/ \E s \in Size : malloc(t, s, s, b)
  \/ UserGet(t)
  \/ \E p \in user_pages : UserFree(t, p)

Step(t) ==
  \/ PallocStep(t) /\ UNCHANGED <<heapVars, pc, size, asked, old, blocks, user_pages>>
  \/ Big(t) \/ Lock(t) \/ Arena(t) \/ Lookup(t) \/ FreeLock(t) \/ Freed(t)
  \/ UserGot(t)

Next == ~panicked /\ \E t \in Thread : Call(t) \/ Step(t)

Spec == Init /\ [][Next]_mallocVars

-----------------------------------------------------------------------------
(* Properties.                                                             *)

\* No ASSERT fails: pages are given back once, and only blocks of live
\* arenas are freed.
NoPanic == ~panicked

Bytes(b) == b..b + block_size(b) - 1
Header(a) == a * PGSIZE..a * PGSIZE + ARENA - 1

\* Neither the product of calloc() nor the page count of a big block of n
\* bytes wraps around.
fits(n) == n + ARENA + PGSIZE - 1 <= SIZE_MAX

\* A block is not shorter than what was asked for.
LargeEnough(b) == block_size(b) >= blocks[b]

\* calloc() gives A times B bytes: it makes sure that the product fits in a
\* size_t.
CallocGivesAll == \A b \in DOMAIN blocks : LargeEnough(b)

\* Blocks in use are disjoint, and touch neither an arena header nor a free
\* block nor a page that is free.  They hold the bytes that were asked for,
\* when these and the arena fit in a size_t: malloc() and calloc() may return
\* a block that is too small when they do not.
BlocksDisjoint ==
  /\ \A b \in DOMAIN blocks :
       /\ fits(blocks[b]) => LargeEnough(b)
       /\ \A x \in Bytes(b) : page_of(x) \in used
       /\ \A c \in DOMAIN blocks \ {b} : Bytes(b) \cap Bytes(c) = {}
       /\ \A a \in Page : arena[a] # NULL => Bytes(b) \cap Header(a) = {}
  /\ \A d \in Desc : Range(free_list[d]) \cap DOMAIN blocks = {}

\* A block is at most once on the free list of its descriptor, an arena
\* counts its free blocks right, and one without blocks in use is gone.
ArenaCounts ==
  \A d \in Desc :
    /\ IsInjective(free_list[d])
    /\ \A a \in Page :
         arena[a] # NULL /\ arena[a].desc = d =>
           /\ arena[a].free_cnt =
                Cardinality(BlocksOf(a, d) \cap Range(free_list[d]))
           /\ arena[a].free_cnt < blocks_per_arena(d)
    /\ \A b \in Range(free_list[d]) :
         arena[page_of(b)] # NULL /\ arena[page_of(b)].desc = d

\* The pages that somebody owns: arenas, big blocks and user pages.
Owned ==
  user_pages \cup UNION {IF arena[a] = NULL THEN {}
                         ELSE IF arena[a].desc # 0 THEN {a}
                         ELSE a..a + arena[a].free_cnt - 1 : a \in Page}

\* A page is marked exactly while it has an owner or is on its way to or
\* from one, and never has two: clearing bits without the pool's lock gives
\* away no page that is in use and loses none.
PagesExclusive ==
  /\ used = Owned \cup UNION {InHand(t) : t \in Thread}
  /\ \A t \in Thread : /\ InHand(t) \cap Owned = {}
                       /\ \A u \in Thread \ {t} : InHand(t) \cap InHand(u) = {}

\* Threads that allocate and free at the same time: no ASSERT fails, blocks
\* in use share no byte and are large enough unless a sum has wrapped around,
\* and the arenas and free lists agree.
HeapSound == NoPanic /\ BlocksDisjoint /\ ArenaCounts

\* Although palloc_free_multiple() takes no lock: a page has one owner, and a
\* search misses no group that was free throughout.
PagesSound == PagesExclusive /\ SearchComplete
=============================================================================
