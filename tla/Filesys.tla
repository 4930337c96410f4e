------------------------------- MODULE Filesys -------------------------------
(***************************************************************************)
(* The file system: filesys.c, directory.c, inode.c, file.c and free-map.c *)
(* under the system calls create(), open(), remove() and close().  A step  *)
(* ends at the latest where the code writes a sector, so that a crash can  *)
(* come between any two writes, and where another process can come in      *)
(* between a test and the update that relies on it.                        *)
(*                                                                         *)
(* A file's contents are left out: a file is its inode sector and its run  *)
(* of data sectors.  A Node is the heap block of a struct inode, a File    *)
(* that of a struct file.                                                  *)
(***************************************************************************)
EXTENDS Integers, FiniteSets, FiniteSetsExt, Functions

CONSTANTS
  Process, Name, Node, File,
  Length,       \* lengths of new files, in sectors
  SectorCnt,    \* sectors of the file system device
  EntryCnt,     \* slots of the root directory
  MallocFails,  \* whether malloc() may return a null pointer: a set of choices
  MaxCrashes,   \* bound on the crashes explored
  NULL

Sector == 0..SectorCnt - 1
Slot == 1..EntryCnt

\* The free map's inode, the root directory's, and a data sector of each.
FREE_MAP_SECTOR == 0
ROOT_DIR_SECTOR == 1
Reserved == 0..3

VARIABLES
  \* on disk
  disk_map,     \* the sectors marked in the free map file
  disk_inode,   \* the struct inode_disk in each sector, or NULL
  dir,          \* the entries of the root directory
  \* in memory
  free_map,     \* the sectors marked in the bitmap
  open_inodes,  \* the nodes on the list
  inode,        \* the struct inode in each node, or NULL
  file,         \* the struct file in each File, or NULL
  file_lock,    \* the process in open(), or NULL
  pc, loc,      \* where each process is, and its local variables
  lost,         \* the sectors that no file owns any more and that stay marked
  crashes, panicked,
  malloc_fails  \* TRUE if malloc() may fail; it does not change

diskVars == <<disk_map, disk_inode, dir>>
memVars == <<free_map, open_inodes, inode, file>>
vars == <<diskVars, memVars, file_lock, pc, loc, lost, crashes, panicked,
          malloc_fails>>

InodeDisk == [start : Sector, length : Nat]
Entry == [name : Name, inode_sector : Sector]
Inode == [sector : Sector, open_cnt : Nat, removed : BOOLEAN,
          data : InodeDisk \cup {NULL}]

Label == {"user", "open_scan", "open_new", "open_read", "close",
          "release_inode", "release_data", "create", "flip_inode",
          "inode_create", "flip_data",
          "write_inode", "dir_add", "write_slot", "create_fail", "lookup",
          "file_open", "erase", "mark", "dir_close"}

Local == [op : {"create", "open", "remove", "close", NULL},
          name : Name \cup {NULL}, length : Nat,
          inode_sector : Sector \cup {NULL}, start : Sector \cup {NULL},
          slot : Slot \cup {NULL}, root : Node \cup {NULL},
          node : Node \cup {NULL},
          want : Sector \cup {NULL},     \* argument of inode_open()
          got : Node \cup {NULL},        \* argument of inode_close()
          ret : Label]                   \* where the call in progress returns

idle == [op |-> NULL, name |-> NULL, length |-> 0, inode_sector |-> NULL,
         start |-> NULL, slot |-> NULL, root |-> NULL, node |-> NULL,
         want |-> NULL, got |-> NULL, ret |-> "user"]

TypeOK ==
  /\ disk_map \in SUBSET Sector
  /\ disk_inode \in [Sector -> InodeDisk \cup {NULL}]
  /\ dir \in [Slot -> Entry \cup {NULL}]
  /\ free_map \in SUBSET Sector
  /\ open_inodes \in SUBSET Node
  /\ inode \in [Node -> Inode \cup {NULL}]
  /\ file \in [File -> [owner : Process, node : Node] \cup {NULL}]
  /\ file_lock \in Process \cup {NULL}
  /\ pc \in [Process -> Label]
  /\ loc \in [Process -> Local]
  /\ lost \in SUBSET Sector
  /\ crashes \in 0..MaxCrashes
  /\ panicked \in BOOLEAN
  /\ malloc_fails \in MallocFails

\* A freshly formatted device, mounted.
Init ==
  /\ disk_map = Reserved
  /\ disk_inode = [s \in Sector |->
       CASE s = FREE_MAP_SECTOR -> [start |-> 2, length |-> 1]
         [] s = ROOT_DIR_SECTOR -> [start |-> 3, length |-> 1]
         [] OTHER -> NULL]
  /\ dir = [s \in Slot |-> NULL]
  /\ free_map = Reserved
  /\ open_inodes = {}
  /\ inode = [n \in Node |-> NULL]
  /\ file = [f \in File |-> NULL]
  /\ file_lock = NULL
  /\ pc = [p \in Process |-> "user"]
  /\ loc = [p \in Process |-> idle]
  /\ lost = {}
  /\ crashes = 0
  /\ panicked = FALSE
  /\ malloc_fails \in MallocFails

Goto(p, label) == pc' = [pc EXCEPT ![p] = label]
Set(p, l) == loc' = [loc EXCEPT ![p] = l]

\* The sectors of LENGTH data sectors from START.
Run(start, length) == start..(start + length - 1)

\* The sectors of the file whose inode is in sector s.
Extent(s) ==
  {s} \cup IF disk_inode[s] = NULL THEN {}
           ELSE Run(disk_inode[s].start, disk_inode[s].length)

-----------------------------------------------------------------------------
(* inode_open(): the list is searched, and if the sector is not there a    *)
(* struct inode is allocated, linked and then filled from disk.            *)

\* Start inode_open(s) with the locals l; it returns to label.
inode_open(p, s, l, label) ==
  /\ Goto(p, "open_scan")
  /\ Set(p, [l EXCEPT !.want = s, !.got = NULL, !.ret = label])

inode_reopen(n) == [inode EXCEPT ![n].open_cnt = @ + 1]

OpenScan(p) ==
  LET l == loc[p]
      found == {n \in open_inodes : inode[n].sector = l.want}
  IN  /\ pc[p] = "open_scan"
      /\ \/ \E n \in found :
              /\ inode' = inode_reopen(n)
              /\ Set(p, [l EXCEPT !.got = n])
              /\ Goto(p, l.ret)
         \/ /\ found = {}
            /\ Goto(p, "open_new")
            /\ UNCHANGED <<inode, loc>>
      /\ UNCHANGED <<diskVars, free_map, open_inodes, file, file_lock, lost,
                     crashes, panicked>>

OpenNew(p) ==
  LET l == loc[p]
  IN  /\ pc[p] = "open_new"
      /\ \/ \E n \in Node :
              /\ inode[n] = NULL
              /\ open_inodes' = open_inodes \cup {n}
              /\ inode' = [inode EXCEPT ![n] =
                   [sector |-> l.want, open_cnt |-> 1, removed |-> FALSE,
                    data |-> NULL]]
              /\ Set(p, [l EXCEPT !.got = n])
              /\ Goto(p, "open_read")
         \/ /\ malloc_fails
            /\ Goto(p, l.ret)
            /\ UNCHANGED <<open_inodes, inode, loc>>
      /\ UNCHANGED <<diskVars, free_map, file, file_lock, lost, crashes,
                     panicked>>

OpenRead(p) ==
  LET l == loc[p]
  IN  /\ pc[p] = "open_read"
      /\ inode' = [inode EXCEPT ![l.got].data = disk_inode[l.want]]
      /\ Goto(p, l.ret)
      /\ UNCHANGED <<diskVars, free_map, open_inodes, file, file_lock, loc,
                     lost, crashes, panicked>>

-----------------------------------------------------------------------------
(* The free map.                                                           *)

\* bitmap_scan() with the first-fit policy: the lowest run of cnt clear bits.
Fits(cnt) == {s \in Sector : s + cnt <= SectorCnt
                             /\ Run(s, cnt) \cap free_map = {}}

\* bitmap_scan_and_flip(): the run found earlier is marked and the map is
\* written; if that fails for want of memory the run is cleared again.
flip(start, cnt) ==
  /\ free_map' = free_map \cup Run(start, cnt)
  /\ disk_map' = free_map'

\* The result of the write is not looked at.
free_map_release(start, cnt) ==
  /\ free_map' = free_map \ Run(start, cnt)
  /\ panicked' = (panicked \/ ~(Run(start, cnt) \subseteq free_map))
  /\ \/ disk_map' = free_map'
     \/ malloc_fails /\ UNCHANGED disk_map

-----------------------------------------------------------------------------
(* inode_close(): the last opener unlinks the node, gives back the sectors *)
(* of a removed file and frees the node.                                   *)

\* Start inode_close(n) with the locals l; it returns to label.
inode_close(p, n, l, label) ==
  /\ Goto(p, "close")
  /\ Set(p, [l EXCEPT !.got = n, !.ret = label])

\* The end of a subroutine, and of a system call, which gives up file_lock.
return(p, l) ==
  /\ Goto(p, l.ret)
  /\ Set(p, IF l.ret = "user" THEN idle ELSE l)
  /\ file_lock' = IF l.ret = "user" /\ file_lock = p THEN NULL ELSE file_lock

Close(p) ==
  LET l == loc[p]
      n == l.got
  IN  /\ pc[p] = "close"
      /\ \/ /\ n = NULL
            /\ return(p, l)
            /\ UNCHANGED <<open_inodes, inode>>
         \/ /\ n # NULL /\ inode[n].open_cnt > 1
            /\ inode' = [inode EXCEPT ![n].open_cnt = @ - 1]
            /\ return(p, l)
            /\ UNCHANGED open_inodes
         \/ /\ n # NULL /\ inode[n].open_cnt = 1
            /\ open_inodes' = open_inodes \ {n}
            /\ IF inode[n].removed
                 THEN /\ inode' = [inode EXCEPT ![n].open_cnt = 0]
                      /\ Goto(p, "release_inode")
                      /\ UNCHANGED <<loc, file_lock>>
                 ELSE /\ inode' = [inode EXCEPT ![n] = NULL]
                      /\ return(p, l)
      /\ UNCHANGED <<diskVars, free_map, file, lost, crashes, panicked>>

ReleaseInode(p) ==
  /\ pc[p] = "release_inode"
  /\ free_map_release(inode[loc[p].got].sector, 1)
  /\ Goto(p, "release_data")
  /\ UNCHANGED <<disk_inode, dir, open_inodes, inode, file, file_lock, loc,
                 lost, crashes>>

\* What the code finds in inode->data: anything, if it has not been read yet.
contents(n) == IF inode[n].data = NULL THEN [start : Sector, length : Length]
                                       ELSE {inode[n].data}

ReleaseData(p) ==
  LET n == loc[p].got
  IN  /\ pc[p] = "release_data"
      /\ \E d \in contents(n) : free_map_release(d.start, d.length)
      /\ inode' = [inode EXCEPT ![n] = NULL]
      /\ return(p, loc[p])
      /\ UNCHANGED <<disk_inode, dir, open_inodes, file, lost, crashes>>

-----------------------------------------------------------------------------
(* filesys_create().                                                       *)

create(p, name, length) ==
  /\ pc[p] = "user"
  /\ inode_open(p, ROOT_DIR_SECTOR,
                [idle EXCEPT !.op = "create", !.name = name,
                             !.length = length], "create")
  /\ UNCHANGED <<diskVars, memVars, file_lock, lost, crashes, panicked>>

\* dir_open() has the root directory, or fails; free_map_allocate (1, ...)
\* looks for a sector.
Create(p) ==
  LET l == [loc[p] EXCEPT !.root = loc[p].got]
  IN  /\ pc[p] = "create"
      /\ \/ /\ l.got = NULL \/ malloc_fails
            /\ inode_close(p, l.got, l, "user")
         \/ /\ l.got # NULL /\ Fits(1) = {}
            /\ Set(p, l) /\ Goto(p, "dir_close")
         \/ /\ l.got # NULL /\ Fits(1) # {}
            /\ Set(p, [l EXCEPT !.inode_sector = Min(Fits(1))])
            /\ Goto(p, "flip_inode")
      /\ UNCHANGED <<diskVars, memVars, file_lock, lost, crashes, panicked>>

\* If the map cannot be written the bit is cleared again and create() fails.
FlipInode(p) ==
  /\ pc[p] = "flip_inode"
  /\ \/ /\ flip(loc[p].inode_sector, 1)
        /\ Goto(p, "inode_create")
     \/ /\ malloc_fails
        /\ free_map' = free_map \ {loc[p].inode_sector}
        /\ Goto(p, "dir_close")
        /\ UNCHANGED disk_map
  /\ UNCHANGED <<disk_inode, dir, open_inodes, inode, file, file_lock, loc,
                 lost, crashes, panicked>>

\* inode_create() needs memory and a run of data sectors.
InodeCreate(p) ==
  LET l == loc[p]
  IN  /\ pc[p] = "inode_create"
      /\ \/ /\ malloc_fails \/ Fits(l.length) = {}
            /\ Goto(p, "create_fail")
            /\ UNCHANGED loc
         \/ /\ Fits(l.length) # {}
            /\ Set(p, [l EXCEPT !.start = Min(Fits(l.length))])
            /\ Goto(p, "flip_data")
      /\ UNCHANGED <<diskVars, memVars, file_lock, lost, crashes, panicked>>

\* Bug variant: the run is marked in memory and not written.
FlipData_NoWrite(p) ==
  /\ pc[p] = "flip_data"
  /\ free_map' = free_map \cup Run(loc[p].start, loc[p].length)
  /\ Goto(p, "write_inode")
  /\ UNCHANGED <<diskVars, open_inodes, inode, file, file_lock, loc, lost,
                 crashes, panicked>>

FlipData(p) ==
  LET l == loc[p]
  IN  /\ pc[p] = "flip_data"
      /\ \/ /\ flip(l.start, l.length)
            /\ Goto(p, "write_inode")
         \/ /\ malloc_fails
            /\ free_map' = free_map \ Run(l.start, l.length)
            /\ Goto(p, "create_fail")
            /\ UNCHANGED disk_map
      /\ UNCHANGED <<disk_inode, dir, open_inodes, inode, file, file_lock, loc,
                     lost, crashes, panicked>>

\* The inode and then zeros for its data.
WriteInode(p) ==
  LET l == loc[p]
  IN  /\ pc[p] = "write_inode"
      /\ disk_inode' = [disk_inode EXCEPT ![l.inode_sector] =
                          [start |-> l.start, length |-> l.length]]
      /\ Goto(p, "dir_add")
      /\ UNCHANGED <<disk_map, dir, memVars, file_lock, loc, lost, crashes,
                     panicked>>

\* A loop over the directory sees all slots, or stops short at a read that
\* finds no memory for its bounce buffer.
seen == IF malloc_fails THEN {1..k : k \in 0..EntryCnt} ELSE {Slot}

lookup(name, slots) == {s \in slots : dir[s] # NULL /\ dir[s].name = name}

\* The slot at which dir_add()'s second loop stops: the first free one, or
\* the one whose read was short, which may be the end of the file.
free_slot(slots) ==
  LET free == {s \in slots : dir[s] = NULL}
  IN  IF free # {} THEN Min(free) ELSE Cardinality(slots) + 1

\* dir_add() fails if the name is in use (or not a valid name) and if the
\* directory is full; filesys_create() then leaves the data sectors of the new
\* inode marked for ever.
DirAdd(p) ==
  LET l == loc[p]
  IN  /\ pc[p] = "dir_add"
      /\ \E s1, s2 \in seen :
           IF lookup(l.name, s1) = {} /\ free_slot(s2) \in Slot
             THEN /\ Set(p, [l EXCEPT !.slot = free_slot(s2)])
                  /\ Goto(p, "write_slot")
                  /\ UNCHANGED lost
             ELSE /\ Goto(p, "create_fail")
                  /\ lost' = lost \cup Run(l.start, l.length)
                  /\ UNCHANGED loc
      /\ UNCHANGED <<diskVars, memVars, file_lock, crashes, panicked>>

\* The entry is written, over the one of another file if dir_add()'s second
\* loop stopped short at it.
WriteSlot(p) ==
  LET l == loc[p]
  IN  /\ pc[p] = "write_slot"
      /\ \/ /\ dir' = [dir EXCEPT ![l.slot] =
                         [name |-> l.name, inode_sector |-> l.inode_sector]]
            /\ Goto(p, "dir_close")
            /\ lost' = lost \cup IF dir[l.slot] = NULL THEN {}
                                ELSE Extent(dir[l.slot].inode_sector)
         \/ /\ malloc_fails
            /\ Goto(p, "create_fail")
            /\ lost' = lost \cup Run(l.start, l.length)
            /\ UNCHANGED dir
      /\ UNCHANGED <<disk_map, disk_inode, memVars, file_lock, loc, crashes,
                     panicked>>

CreateFail(p) ==
  /\ pc[p] = "create_fail"
  /\ free_map_release(loc[p].inode_sector, 1)
  /\ Goto(p, "dir_close")
  /\ UNCHANGED <<disk_inode, dir, open_inodes, inode, file, file_lock, loc,
                 lost, crashes>>

-----------------------------------------------------------------------------
(* open(), remove() and close().                                           *)

\* The number of open files is bounded by File.
open(p, name) ==
  /\ pc[p] = "user"
  /\ \E f \in File : file[f] = NULL
  /\ file_lock = NULL
  /\ file_lock' = p
  /\ inode_open(p, ROOT_DIR_SECTOR,
                [idle EXCEPT !.op = "open", !.name = name], "lookup")
  /\ UNCHANGED <<diskVars, memVars, lost, crashes, panicked>>

remove(p, name) ==
  /\ pc[p] = "user"
  /\ inode_open(p, ROOT_DIR_SECTOR,
                [idle EXCEPT !.op = "remove", !.name = name], "lookup")
  /\ UNCHANGED <<diskVars, memVars, file_lock, lost, crashes, panicked>>

\* In dir_lookup() and dir_remove(): find the entry and open its inode.
Lookup(p) ==
  LET l == [loc[p] EXCEPT !.root = loc[p].got, !.got = NULL]
      n == loc[p].got
  IN  /\ pc[p] = "lookup"
      /\ \/ /\ n = NULL \/ malloc_fails
            /\ inode_close(p, n, l, "user")
         \/ /\ n # NULL
            /\ \E s1 \in seen :
                 IF lookup(l.name, s1) = {}
                   THEN Set(p, l) /\ Goto(p, "dir_close")
                   ELSE LET s == Min(lookup(l.name, s1))
                        IN  inode_open(p, dir[s].inode_sector,
                                       [l EXCEPT !.slot = s],
                                       IF l.op = "open" THEN "dir_close"
                                                        ELSE "erase")
      /\ UNCHANGED <<diskVars, memVars, file_lock, lost, crashes, panicked>>

\* The rest of dir_remove(): the entry is erased on disk, then the inode is
\* marked, and its last closer gives the sectors back.
Erase(p) ==
  LET l == [loc[p] EXCEPT !.node = loc[p].got]
  IN  /\ pc[p] = "erase"
      /\ \/ /\ l.node # NULL
            /\ dir' = [dir EXCEPT ![l.slot] = NULL]
            /\ Set(p, l)
            /\ Goto(p, "mark")
         \/ /\ l.node = NULL \/ malloc_fails
            /\ inode_close(p, l.node, l, "dir_close")
            /\ UNCHANGED dir
      /\ UNCHANGED <<disk_map, disk_inode, memVars, file_lock, lost, crashes,
                     panicked>>

Mark(p) ==
  LET n == loc[p].node
  IN  /\ pc[p] = "mark"
      /\ inode' = [inode EXCEPT ![n].removed = TRUE]
      /\ inode_close(p, n, loc[p], "dir_close")
      /\ UNCHANGED <<diskVars, free_map, open_inodes, file, file_lock, lost,
                     crashes, panicked>>

\* dir_close(); filesys_open() keeps the inode it has opened.
DirClose(p) ==
  LET l == loc[p]
  IN  /\ pc[p] = "dir_close"
      /\ IF l.op = "open"
           THEN inode_close(p, l.root, [l EXCEPT !.node = l.got], "file_open")
           ELSE inode_close(p, l.root, l, "user")
      /\ UNCHANGED <<diskVars, memVars, file_lock, lost, crashes, panicked>>

\* Bug variant: the inode stays open when there is no memory for the file.
FileOpen_Leak(p) ==
  LET l == [loc[p] EXCEPT !.ret = "user"]
  IN  /\ pc[p] = "file_open"
      /\ \/ \E f \in File :
              /\ l.node # NULL /\ file[f] = NULL
              /\ file' = [file EXCEPT ![f] = [owner |-> p, node |-> l.node]]
         \/ /\ l.node = NULL \/ malloc_fails
            /\ UNCHANGED file
      /\ return(p, l)
      /\ UNCHANGED <<diskVars, free_map, open_inodes, inode, lost, crashes,
                     panicked>>

\* file_open() and process_add_file().
FileOpen(p) ==
  LET l == [loc[p] EXCEPT !.ret = "user"]
  IN  /\ pc[p] = "file_open"
      /\ \/ \E f \in File :
              /\ l.node # NULL /\ file[f] = NULL
              /\ file' = [file EXCEPT ![f] = [owner |-> p, node |-> l.node]]
              /\ return(p, l)
         \/ /\ l.node = NULL \/ malloc_fails
            /\ inode_close(p, l.node, l, "user")
            /\ UNCHANGED <<file, file_lock>>
      /\ UNCHANGED <<diskVars, free_map, open_inodes, inode, lost, crashes,
                     panicked>>

close(p, f) ==
  /\ pc[p] = "user"
  /\ file[f] # NULL /\ file[f].owner = p
  /\ file' = [file EXCEPT ![f] = NULL]
  /\ inode_close(p, file[f].node, [idle EXCEPT !.op = "close"], "user")
  /\ UNCHANGED <<diskVars, free_map, open_inodes, inode, file_lock, lost,
                 crashes, panicked>>

-----------------------------------------------------------------------------
(* The machine stops and is started again on the same disk.                *)

Linked == {dir[s].inode_sector : s \in {r \in Slot : dir[r] # NULL}}

\* filesys_init() without formatting reads the free map back.
Crash ==
  /\ crashes < MaxCrashes
  /\ crashes' = crashes + 1
  /\ free_map' = disk_map
  /\ open_inodes' = {}
  /\ inode' = [n \in Node |-> NULL]
  /\ file' = [f \in File |-> NULL]
  /\ file_lock' = NULL
  /\ pc' = [p \in Process |-> "user"]
  /\ loc' = [p \in Process |-> idle]
  /\ lost' = disk_map \ (Reserved \cup UNION {Extent(s) : s \in Linked})
  /\ UNCHANGED <<diskVars, panicked>>

Call(p) ==
  \/ \E n \in Name : open(p, n) \/ remove(p, n)
  \/ \E n \in Name, k \in Length : create(p, n, k)
  \/ \E f \in File : close(p, f)

Step(p) ==
  \/ OpenScan(p) \/ OpenNew(p) \/ OpenRead(p)
  \/ Close(p) \/ ReleaseInode(p) \/ ReleaseData(p)
  \/ Create(p) \/ FlipInode(p) \/ InodeCreate(p) \/ FlipData(p)
  \/ WriteInode(p) \/ DirAdd(p) \/ WriteSlot(p) \/ CreateFail(p)
  \/ Lookup(p) \/ Erase(p) \/ Mark(p) \/ DirClose(p) \/ FileOpen(p)

Next ==
  /\ ~panicked
  /\ \/ \E p \in Process : Call(p) \/ Step(p)
     \/ Crash
  /\ UNCHANGED malloc_fails

Spec == Init /\ [][Next]_vars

-----------------------------------------------------------------------------
(* Properties.                                                             *)

\* Whatever moment the machine stops at, the disk is sound: names in the
\* directory are unique, every entry leads to an inode on disk, files share
\* no sector, and the free map on disk marks every sector of every file.
\* (Without memory a short read can hide a name from dir_add(), and names
\* repeat.)
DiskSound ==
  /\ \A r, s \in Slot : r # s /\ dir[r] # NULL /\ dir[s] # NULL =>
       /\ ~malloc_fails => dir[r].name # dir[s].name
       /\ Extent(dir[r].inode_sector) \cap Extent(dir[s].inode_sector) = {}
  /\ \A s \in Linked : /\ disk_inode[s] # NULL
                       /\ Extent(s) \subseteq disk_map \ Reserved

\* The sectors in use by an open struct inode.
NodeExtent(n) ==
  IF inode[n] = NULL THEN {}
  ELSE {inode[n].sector} \cup
       IF inode[n].data = NULL THEN {}
       ELSE Run(inode[n].data.start, inode[n].data.length)

\* A file that is open keeps its sectors, also after its name is removed:
\* they stay marked, and no other file, open or in the directory, has them.
OpenKeepsSectors ==
  \A f \in File : file[f] # NULL =>
    LET n == file[f].node
    IN  /\ inode[n] # NULL
        /\ NodeExtent(n) \subseteq free_map
        /\ \A s \in Linked \ {inode[n].sector} :
             NodeExtent(n) \cap Extent(s) = {}
        /\ \A m \in Node \ {n} : NodeExtent(n) \cap NodeExtent(m) = {}

\* Sectors a process has taken for a file that is not in the directory yet,
\* and sectors of a removed file it has yet to give back.
InHand(p) ==
  LET l == loc[p]
  IN  CASE pc[p] \in {"inode_create", "flip_data", "create_fail"} ->
             {l.inode_sector}
        [] pc[p] \in {"write_inode", "dir_add", "write_slot"} ->
             {l.inode_sector} \cup Run(l.start, l.length)
        [] pc[p] = "release_inode" -> NodeExtent(l.got)
        [] pc[p] = "release_data" -> NodeExtent(l.got) \ {inode[l.got].sector}
        [] OTHER -> {}

\* A marked sector is reserved, belongs to a file, is in hand, or is lost, and
\* these sectors are marked, also when allocations fail.  What is lost, in this
\* code, is the data of a create() whose entry cannot be added, as it releases
\* the inode's sector only; the file whose entry a dir_add() without memory
\* writes over; and at a crash what the directory does not reach.
SectorsAccounted ==
  free_map = Reserved \cup lost
               \cup UNION {Extent(s) : s \in Linked}
               \cup UNION {NodeExtent(n) : n \in open_inodes}
               \cup UNION {InHand(p) : p \in Process}

\* Between calls an inode is open exactly as often as there are files on it,
\* also after calls that failed half way: none stays open for ever.
OpenCounts ==
  (\A p \in Process : pc[p] = "user") =>
    \A n \in Node : inode[n] # NULL =>
      inode[n].open_cnt = Cardinality({f \in File : file[f] # NULL
                                                    /\ file[f].node = n})

\* free_map_release() is only called on sectors that are marked.
NoPanic == ~panicked

\* Opening a sector twice returns the same struct inode.
OneInodePerSector ==
  \A m, n \in open_inodes : inode[m].sector = inode[n].sector => m = n

\* Through every failed allocation, no open file loses its sectors or is
\* left open, no sector is released twice, and none goes astray in another
\* way than the three that SectorsAccounted names.
OpenFilesSound ==
  TypeOK /\ OpenKeepsSectors /\ OpenCounts /\ SectorsAccounted /\ NoPanic
=============================================================================
