------------------------------ MODULE MCMalloc ------------------------------
(***************************************************************************)
(* Processes, and the memory of the kernel.  `part' says which a behaviour *)
(* is about, and only that one moves: to module Process an allocation is   *)
(* one step that takes a page or fails.                                    *)
(***************************************************************************)
EXTENDS MCProcess

CONSTANTS
  Caller,  \* the threads that allocate
  KernelPages, UserPages, PGSIZE, ARENA, MinBlock, Size, SIZE_MAX, MaxBlocks

VARIABLES
  part,
  used, pool_lock, pa, sure, panicked, arena, free_list, desc_lock, pc, size, asked, old,
  blocks, user_pages

heapVars == <<used, pool_lock, pa, sure, panicked, arena, free_list, desc_lock, pc, size,
              asked, old, blocks, user_pages>>

Heap == INSTANCE Malloc WITH Thread <- Caller

BothInit == part \in {"process", "heap"} /\ Init /\ Heap!Init

\* The processes may all come to a stop, the allocators may not.
BothNext ==
  \/ part = "process" /\ (Next \/ UNCHANGED vars) /\ UNCHANGED <<part, heapVars>>
  \/ part = "heap" /\ Heap!Next /\ UNCHANGED <<part, vars>>

BothSpec == BothInit /\ [][BothNext]_<<part, vars, heapVars>>

BothSymmetry == Symmetry \cup Permutations(Caller)

-----------------------------------------------------------------------------
(* The properties of Malloc.                                               *)

\* malloc.c: no ASSERT fails, blocks in use share no byte and are large enough
\* unless a sum has wrapped around, and the arenas and free lists agree.
HeapSound == Heap!HeapSound

\* palloc.c: although palloc_free_multiple() takes no lock, a page has one
\* owner, and a search misses no group that was free throughout.
PagesSound == Heap!PagesSound

\* calloc(): a block holds A times B bytes.
CallocGivesAll == Heap!CallocGivesAll
=============================================================================
