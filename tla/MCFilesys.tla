----------------------------- MODULE MCFilesys -----------------------------
(***************************************************************************)
(* The kernel's monitors, and its files.  `part' says which a behaviour is *)
(* about, and only that one moves; file_lock is a variable that holds its  *)
(* owner, which the other part shows that a lock is.                       *)
(***************************************************************************)
EXTENDS MCSynch, TLC

CONSTANTS
  Process, Name, Node, File, Length, SectorCnt, EntryCnt, MallocFails, MaxCrashes

VARIABLES
  part,
  disk_map, disk_inode, dir, free_map, open_inodes, inode, file, file_lock, where, loc, lost,
  crashes, panicked, malloc_fails

fsVars == <<disk_map, disk_inode, dir, free_map, open_inodes, inode, file, file_lock, where,
            loc, lost, crashes, panicked, malloc_fails>>

Fs == INSTANCE Filesys WITH pc <- where

\* The threads have no use for a choice of malloc_fails.
BothInit ==
  /\ part \in {"synch", "filesys"}
  /\ Init /\ Fs!Init
  /\ part = "synch" => malloc_fails = FALSE

BothNext ==
  \/ part = "synch" /\ Next /\ UNCHANGED <<part, fsVars>>
  \/ part = "filesys" /\ Fs!Next /\ UNCHANGED <<part, vars>>

BothSpec == BothInit /\ [][BothNext]_<<part, vars, fsVars>>

Symmetry == Permutations(Name) \cup Permutations(Node)

-----------------------------------------------------------------------------
(* The properties of Filesys.                                              *)

\* filesys.c, directory.c, inode.c and free-map.c: whatever moment the machine
\* stops at, the disk is sound.
DiskSound == Fs!DiskSound

\* The same files: through every failed allocation open inodes, the directory
\* and the free map agree.
OpenFilesSound == Fs!OpenFilesSound

\* inode_open(): opening a sector twice returns the same struct inode.
OneInodePerSector == Fs!OneInodePerSector
=============================================================================
