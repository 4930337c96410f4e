------------------------------- MODULE Fileio -------------------------------
(***************************************************************************)
(* Reading and writing files (filesys/inode.c, filesys/file.c and the      *)
(* system calls of userprog/syscall.c): processes that have the same file  *)
(* open, each through a struct file of its own, move bytes sector by       *)
(* sector.  An access to a sector is one step, as the driver promises.     *)
(***************************************************************************)
EXTENDS Integers, Sequences, SequencesExt

CONSTANTS
  Process,             \* numbers; a process writes bytes that say who it is
  BLOCK_SECTOR_SIZE,
  Start, Length,       \* the file's inode_disk
  SectorCnt,           \* the size of the disk
  Size, Position       \* the arguments of read() and write(), and of seek()

ASSUME FileioAssumption ==
  /\ BLOCK_SECTOR_SIZE \in Nat \ {0}
  /\ Start \in Nat /\ Length \in Nat

VARIABLES
  sectors,    \* the contents of the disk, a sequence of bytes for each sector
  file_lock,
  file,       \* each process's pos, and its call
  before      \* what was on the disk when each process took the lock

fileioVars == <<sectors, file_lock, file, before>>

nobody == 0
quiet(pos) == [pc |-> "user", pos |-> pos, op |-> "read", size |-> 0, offset |-> 0,
               buffer |-> <<>>, bytes |-> 0, asked |-> 0, bounce |-> <<>>]

FileioInit ==
  /\ sectors = [s \in 0..SectorCnt - 1 |-> [i \in 1..BLOCK_SECTOR_SIZE |-> 0]]
  /\ file_lock = nobody
  /\ file = [p \in Process |-> quiet(0)]
  /\ before = [p \in Process |-> <<>>]

now(p, label) == file[p].pc = label
upd(p, f) == file' = [file EXCEPT ![p] = f]

\* byte_to_sector(), for positions inside the file
byte_to_sector(pos) == Start + pos \div BLOCK_SECTOR_SIZE
sector_ofs(f) == f.offset % BLOCK_SECTOR_SIZE

\* The bytes that this round of the loop moves.
chunk_size(f) ==
  LET inode_left == Length - f.offset
      sector_left == BLOCK_SECTOR_SIZE - sector_ofs(f)
      min_left == IF inode_left < sector_left THEN inode_left ELSE sector_left
  IN  IF f.size < min_left THEN f.size ELSE min_left

more(f) == f.size > 0 /\ chunk_size(f) > 0
whole(f) == sector_ofs(f) = 0 /\ chunk_size(f) = BLOCK_SECTOR_SIZE

\* The end of the loop's body.
advance(f) ==
  LET n == chunk_size(f)
  IN  [f EXCEPT !.size = @ - n, !.offset = @ + n, !.bytes = @ + n]

\* read (fd, buffer, size) and write (fd, buffer, size) are called.
call(p, op, size) ==
  /\ now(p, "user")
  /\ upd(p, [file[p] EXCEPT !.pc = "lock", !.op = op, !.size = size, !.asked = size])
  /\ UNCHANGED <<sectors, file_lock, before>>

\* lock_acquire (&file_lock), and file_read() or file_write() begins.
file_lock_acquire(p) ==
  /\ now(p, "lock") /\ file_lock = nobody
  /\ file_lock' = p
  /\ upd(p, [file[p] EXCEPT !.pc = "loop", !.offset = file[p].pos])
  /\ before' = [before EXCEPT ![p] = sectors]
  /\ UNCHANGED sectors

\* A bounce buffer cannot be had: the loop ends early.
malloc_fails(p) ==
  LET f == file[p]
  IN  /\ now(p, "loop") /\ more(f) /\ ~whole(f) /\ f.bounce = <<>>
      /\ upd(p, [f EXCEPT !.pc = "return"])
      /\ UNCHANGED <<sectors, file_lock, before>>

\* One round of the loop of inode_read_at(): block_read(), and memcpy() from
\* the bounce buffer unless the sector is read whole.
inode_read_at(p) ==
  LET f == file[p]
      data == sectors[byte_to_sector(f.offset)]
      o == sector_ofs(f)
  IN  /\ now(p, "loop") /\ f.op = "read" /\ more(f)
      /\ upd(p, advance([f EXCEPT !.buffer = @ \o SubSeq(data, o + 1, o + chunk_size(f)),
                                  !.bounce = IF whole(f) THEN @ ELSE data]))
      /\ UNCHANGED <<sectors, file_lock, before>>

\* One round of the loop of inode_write_at(): a whole sector is written at
\* once ...
inode_write_at(p) ==
  LET f == file[p]
  IN  /\ now(p, "loop") /\ f.op = "write" /\ more(f) /\ whole(f)
      /\ sectors' = [sectors EXCEPT ![byte_to_sector(f.offset)] =
                                      [i \in 1..BLOCK_SECTOR_SIZE |-> p]]
      /\ upd(p, advance(f))
      /\ UNCHANGED <<file_lock, before>>

\* Bug variant: a sector is not read if the chunk starts at its front.
bounce_read_Zero(p) ==
  LET f == file[p]
  IN  /\ now(p, "loop") /\ f.op = "write" /\ more(f) /\ ~whole(f)
      /\ upd(p, [f EXCEPT !.pc = "merge",
                          !.bounce = IF sector_ofs(f) > 0
                                     THEN sectors[byte_to_sector(f.offset)]
                                     ELSE [i \in 1..BLOCK_SECTOR_SIZE |-> 0]])
      /\ UNCHANGED <<sectors, file_lock, before>>

\* ... and a part of a sector is put into a copy of it.  A part never fills
\* the sector, so that the branch that starts with zeros is never taken.
bounce_read(p) ==
  LET f == file[p]
      part == sector_ofs(f) > 0 \/ chunk_size(f) < BLOCK_SECTOR_SIZE - sector_ofs(f)
  IN  /\ now(p, "loop") /\ f.op = "write" /\ more(f) /\ ~whole(f)
      /\ upd(p, [f EXCEPT !.pc = "merge",
                          !.bounce = IF part THEN sectors[byte_to_sector(f.offset)]
                                     ELSE [i \in 1..BLOCK_SECTOR_SIZE |-> 0]])
      /\ UNCHANGED <<sectors, file_lock, before>>

bounce_write(p) ==
  LET f == file[p]
      o == sector_ofs(f)
      merged == [i \in 1..BLOCK_SECTOR_SIZE |->
                   IF i \in o + 1..o + chunk_size(f) THEN p ELSE f.bounce[i]]
  IN  /\ now(p, "merge")
      /\ sectors' = [sectors EXCEPT ![byte_to_sector(f.offset)] = merged]
      /\ upd(p, [advance(f) EXCEPT !.pc = "loop", !.bounce = merged])
      /\ UNCHANGED <<file_lock, before>>

loop_ends(p) ==
  /\ now(p, "loop") /\ ~more(file[p])
  /\ upd(p, [file[p] EXCEPT !.pc = "return"])
  /\ UNCHANGED <<sectors, file_lock, before>>

\* file_read() and file_write() advance pos, and the lock is released.
return(p) ==
  /\ now(p, "return")
  /\ upd(p, quiet(file[p].pos + file[p].bytes))
  /\ file_lock' = nobody
  /\ before' = [before EXCEPT ![p] = <<>>]
  /\ UNCHANGED sectors

\* seek(): file_seek() takes no lock.
seek(p, pos) ==
  /\ now(p, "user") /\ pos >= 0
  /\ upd(p, quiet(pos))
  /\ UNCHANGED <<sectors, file_lock, before>>

FileioNext ==
  \E p \in Process :
    \/ \E op \in {"read", "write"}, n \in Size : call(p, op, n)
    \/ \E pos \in Position : seek(p, pos)
    \/ file_lock_acquire(p) \/ malloc_fails(p) \/ inode_read_at(p)
    \/ inode_write_at(p) \/ bounce_read(p) \/ bounce_write(p)
    \/ loop_ends(p) \/ return(p)

-----------------------------------------------------------------------------

\* The bytes of the file among those of the disk, and the positions that a
\* call covers.
ByteAt(disk, pos) ==
  disk[Start + pos \div BLOCK_SECTOR_SIZE][(pos % BLOCK_SECTOR_SIZE) + 1]
Covered(f) == {pos \in 0..Length - 1 : pos >= f.pos /\ pos < f.pos + f.bytes}

\* A call moves as many bytes as it was asked for and the file has from its
\* position on, fewer only if memory ran out in a sector it needs in part.
CountExact ==
  \A p \in Process :
    LET f == file[p]
        rest == IF f.pos < Length THEN Length - f.pos ELSE 0
        all == IF f.asked < 0 THEN 0 ELSE IF f.asked < rest THEN f.asked ELSE rest
    IN  now(p, "return") =>
          /\ f.bytes <= all
          /\ f.bytes < all => f.bounce = <<>>

\* read() returns the bytes that the file had when it took the lock: no
\* write() of another process comes between its sectors.
ReadsAtomic ==
  \A p \in Process :
    LET f == file[p]
    IN  now(p, "return") /\ f.op = "read" =>
          /\ Len(f.buffer) = f.bytes
          /\ \A i \in 1..f.bytes : f.buffer[i] = ByteAt(before[p], f.pos + i - 1)

\* When write() gives the lock back, the bytes it covers are its own and
\* every other byte of the disk, in the same sectors or not, is what it was.
WritesExact ==
  \A p \in Process :
    LET f == file[p]
        hit(s, i) ==
          \E pos \in Covered(f) : s = Start + pos \div BLOCK_SECTOR_SIZE
                                  /\ i = (pos % BLOCK_SECTOR_SIZE) + 1
    IN  now(p, "return") /\ f.op = "write" =>
          \A s \in DOMAIN sectors, i \in 1..BLOCK_SECTOR_SIZE :
            sectors[s][i] = IF hit(s, i) THEN p ELSE before[p][s][i]

\* read() and write() of two processes on one file move exactly the bytes
\* they should, and neither sees the half of the other.
TransfersExact == CountExact /\ ReadsAtomic /\ WritesExact
=============================================================================
