------------------------------- MODULE Block --------------------------------
(***************************************************************************)
(* How the kernel finds its disks when it boots: ide_init() looks at each  *)
(* unit of each channel (devices/ide.c), registers the disks and their     *)
(* partitions as block devices (devices/partition.c, devices/block.c), and *)
(* locate_block_devices() gives them their roles (threads/init.c).  All of *)
(* it runs in the main thread.                                             *)
(***************************************************************************)
EXTENDS Integers, Sequences, SequencesExt, FiniteSets

CONSTANTS
  Machine,      \* what may be attached: units hda to hdd, numbered from 0
  WORD,         \* block_sector_t counts modulo WORD
  MaxCapacity,  \* 1 GB in sectors
  MaxDepth,     \* how many calls of read_partition_table() the stack holds
  BdevName,     \* the values of the options -filesys and -scratch
  NoName

VARIABLES
  unit,        \* the units
  boot, dev,     \* what is done, and the unit whose turn it is
  is_ata,      \* the units that are taken for disks
  all_blocks,  \* struct block of each device, in the order of registration
  part_nr,
  calls,       \* the calls of read_partition_table(), the innermost last
  role,        \* block_by_role[]
  bdev_name    \* filesys_bdev_name and scratch_bdev_name

blockVars == <<unit, boot, dev, is_ata, all_blocks, part_nr, calls, role, bdev_name>>

\* The roles that locate_block_devices() fills, in its order.
Role == <<"filesys", "scratch">>

\* A reference to a struct block is its place in all_blocks.
NoBlock == 0

BlockInit ==
  /\ unit \in Machine
  /\ boot = "check" /\ dev = 0 /\ is_ata = {}
  /\ all_blocks = <<>> /\ part_nr = 0 /\ calls = <<>>
  /\ role = <<>>
  /\ bdev_name \in [1..Len(Role) -> BdevName \cup {NoName}]

\* check_device_type(): what the error and status registers and the
\* signature say, and whether there may be a slave.
ata(d) ==
  /\ unit[d].error = 1 \/ (unit[d].error = 129 /\ d % 2 = 0)
  /\ unit[d].ready
  /\ unit[d].signature = "ata"
slave(d) == unit[d].error # 129 \/ unit[d].ready

check_device_type ==
  /\ boot = "check"
  /\ is_ata' = is_ata \cup {d \in {dev, dev + 1} : ata(d) /\ (d = dev \/ slave(dev))}
  /\ boot' = "identify"
  /\ UNCHANGED <<unit, dev, all_blocks, part_nr, calls, role, bdev_name>>

\* The loops of ide_init() go on.
next_unit ==
  /\ dev' = dev + 1
  /\ boot' = IF dev = 3 THEN "locate" ELSE IF dev = 1 THEN "check" ELSE "identify"

block_register(name, type, size, start) ==
  all_blocks' = Append(all_blocks, [name |-> name, type |-> type, size |-> size,
                                    disk |-> dev, start |-> start])

\* The start of read_partition_table (block, sector, primary, &part_nr): it
\* returns at once if the sector is past the end or the table has no
\* signature.  The table is the one of sector 0, whatever the sector.
enter(sector, primary) ==
  IF sector < unit[dev].capacity /\ unit[dev].signed
  THEN <<[sector |-> sector, primary |-> primary, i |-> 1]>> ELSE <<>>

\* identify_ata_device(), with partition_scan() of the disk.
identify_disk ==
  LET u == unit[dev]
      good == dev \in is_ata /\ u.answers /\ u.capacity < MaxCapacity
  IN  /\ boot = "identify"
      /\ \/ /\ good
            /\ block_register(<<dev, 0>>, "raw", u.capacity, 0)
            /\ calls' = enter(0, 0)
            /\ part_nr' = 0
            /\ IF calls' = <<>> THEN next_unit ELSE boot' = "scan" /\ UNCHANGED dev
            /\ UNCHANGED is_ata
         \/ /\ ~good
            /\ is_ata' = is_ata \ {dev}
            /\ next_unit
            /\ UNCHANGED <<all_blocks, calls, part_nr>>
      /\ UNCHANGED <<unit, role, bdev_name>>

\* found_partition()
found_partition(e, start) ==
  LET end == (start + e.size) % WORD
  IN  IF start >= unit[dev].capacity \/ end < start \/ end > unit[dev].capacity
      THEN UNCHANGED all_blocks
      ELSE block_register(<<dev, part_nr'>>, e.type, e.size, start)

\* Bug variant: partitions that are not registered have no number.
table_entry_NoNumber ==
  LET f == Last(calls)
      e == unit[dev].table[f.i]
  IN  /\ boot = "scan" /\ f.i <= Len(unit[dev].table)
      /\ e.size # 0 /\ e.type \notin {"empty", "extended"}
      /\ part_nr' = IF e.offset < unit[dev].capacity THEN part_nr + 1 ELSE part_nr
      /\ found_partition(e, (e.offset + f.sector) % WORD)
      /\ calls' = [calls EXCEPT ![Len(calls)].i = @ + 1]
      /\ UNCHANGED <<unit, boot, dev, is_ata, role, bdev_name>>

\* An entry of the table: a partition ...
table_entry ==
  LET f == Last(calls)
      e == unit[dev].table[f.i]
  IN  /\ boot = "scan" /\ f.i <= Len(unit[dev].table)
      /\ e.size # 0 /\ e.type \notin {"empty", "extended"}
      /\ part_nr' = part_nr + 1
      /\ found_partition(e, (e.offset + f.sector) % WORD)
      /\ calls' = [calls EXCEPT ![Len(calls)].i = @ + 1]
      /\ UNCHANGED <<unit, boot, dev, is_ata, role, bdev_name>>

\* ... or an empty entry ...
empty_entry ==
  LET f == Last(calls)
      e == unit[dev].table[f.i]
  IN  /\ boot = "scan" /\ f.i <= Len(unit[dev].table)
      /\ e.size = 0 \/ e.type = "empty"
      /\ calls' = [calls EXCEPT ![Len(calls)].i = @ + 1]
      /\ UNCHANGED <<unit, boot, dev, is_ata, all_blocks, part_nr, role, bdev_name>>

\* ... or an extended partition, whose table is read in turn.
extended_entry ==
  LET f == Last(calls)
      e == unit[dev].table[f.i]
      inner == IF f.sector = 0 THEN enter(e.offset, e.offset)
               ELSE enter((e.offset + f.primary) % WORD, f.primary)
  IN  /\ boot = "scan" /\ f.i <= Len(unit[dev].table)
      /\ e.size # 0 /\ e.type = "extended"
      /\ Len(calls) < MaxDepth
      /\ calls' = [calls EXCEPT ![Len(calls)].i = @ + 1] \o inner
      /\ UNCHANGED <<unit, boot, dev, is_ata, all_blocks, part_nr, role, bdev_name>>

\* read_partition_table() returns, the last time to ide_init().
table_end ==
  /\ boot = "scan" /\ Last(calls).i > Len(unit[dev].table)
  /\ calls' = Front(calls)
  /\ IF Len(calls) = 1 THEN next_unit ELSE UNCHANGED <<boot, dev>>
  /\ UNCHANGED <<unit, is_ata, all_blocks, part_nr, role, bdev_name>>

\* block_get_by_name(), and the first of a type in probe order.
block_get_by_name(name) == SelectInSeq(all_blocks, LAMBDA b : b.name = name)
block_of_type(type) == SelectInSeq(all_blocks, LAMBDA b : b.type = type)

\* locate_block_device() of the next role; it panics if there is no device
\* of the name given.
locate_block_device ==
  LET r == Len(role) + 1
      named == block_get_by_name(bdev_name[r])
  IN  /\ boot = "locate" /\ r <= Len(Role)
      /\ \/ /\ bdev_name[r] # NoName /\ named = NoBlock
            /\ boot' = "panic" /\ UNCHANGED role
         \/ /\ bdev_name[r] # NoName /\ named # NoBlock
            /\ role' = Append(role, named) /\ UNCHANGED boot
         \/ /\ bdev_name[r] = NoName
            /\ role' = Append(role, block_of_type(Role[r])) /\ UNCHANGED boot
      /\ UNCHANGED <<unit, dev, is_ata, all_blocks, part_nr, calls, bdev_name>>

\* partition_read() and partition_write()
sector_of(b, sector) == (b.start + sector) % WORD

\* check_sector(), which panics otherwise
check_sector(size, sector) == sector < size

\* block_read() and block_write(): the sector of the disk that is accessed
\* for a sector of a partition, which is checked against both, or none if
\* the machine stops.
block_access(b, sector) ==
  IF /\ check_sector(b.size, sector)
     /\ check_sector(unit[b.disk].capacity, sector_of(b, sector))
  THEN {sector_of(b, sector)} ELSE {}

BlockNext ==
  \/ check_device_type \/ identify_disk
  \/ table_entry \/ empty_entry \/ extended_entry \/ table_end
  \/ locate_block_device

-----------------------------------------------------------------------------

Raw(b) == b.type = "raw"
Scanned(d) == d < dev \/ boot = "locate"

\* The entries that describe a partition, those that lie on the disk, and
\* tables as a partitioning program writes them: without logical partitions
\* and without overlaps.
Used(d) == {i \in DOMAIN unit[d].table :
              unit[d].table[i].size # 0 /\ unit[d].table[i].type # "empty"}
Extent(e) == e.offset..e.offset + e.size - 1
OnDisk(d) == {i \in Used(d) :
                Extent(unit[d].table[i]) \subseteq 0..unit[d].capacity - 1}
Primary(d) == \A i \in Used(d) : unit[d].table[i].type # "extended"
Disjoint(d) ==
  \A i, j \in Used(d) :
    i # j => Extent(unit[d].table[i]) \cap Extent(unit[d].table[j]) = {}

\* Whatever a partition table says, and although sector numbers wrap around,
\* an access that is inside a partition is inside the disk, and the
\* partitions of a sane table share no sector.
PartitionsApart ==
  \A i, j \in DOMAIN all_blocks :
    LET x == all_blocks[i]
        y == all_blocks[j]
    IN  /\ \A s \in 0..x.size - 1 : block_access(x, s) # {}
        /\ i # j /\ x.disk = y.disk /\ ~Raw(x) /\ ~Raw(y)
             /\ Primary(x.disk) /\ Disjoint(x.disk) =>
             \A s \in 0..x.size - 1, u \in 0..y.size - 1 :
               block_access(x, s) # block_access(y, u)

\* The disks that are registered are those that answer as ATA disks and are
\* smaller than 1 GB, in the order of their names; a slave is missed only
\* behind a master that is not ready and reports that the slave failed.
DisksFound ==
  LET found == SelectSeq(all_blocks, Raw)
  IN  /\ \A i, j \in DOMAIN found : i < j => found[i].disk < found[j].disk
      /\ boot = "locate" =>
           {found[i].disk : i \in DOMAIN found} =
           {d \in DOMAIN unit :
              /\ unit[d].signature = "ata" /\ unit[d].ready /\ unit[d].answers
              /\ unit[d].error \in IF d % 2 = 0 THEN {1, 129} ELSE {1}
              /\ unit[d].capacity < MaxCapacity
              /\ d % 2 = 1 => unit[d - 1].error # 129 \/ unit[d - 1].ready}

\* Of a table without logical partitions, every partition that fits on the
\* disk is registered once, under its number among all partitions of the
\* table, fitting or not.
PartitionsListed ==
  \A d \in DOMAIN unit :
    Scanned(d) /\ Primary(d) /\ unit[d].signed
      /\ (\E i \in DOMAIN all_blocks : Raw(all_blocks[i]) /\ all_blocks[i].disk = d) =>
      LET parts == SelectSeq(all_blocks, LAMBDA b : b.disk = d /\ ~Raw(b))
      IN  /\ Len(parts) = Cardinality(OnDisk(d))
          /\ \A i \in OnDisk(d) :
               \E k \in DOMAIN parts :
                 /\ parts[k].name = <<d, Cardinality({j \in Used(d) : j <= i})>>
                 /\ parts[k].start = unit[d].table[i].offset
                 /\ parts[k].size = unit[d].table[i].size
                 /\ parts[k].type = unit[d].table[i].type

\* A role is played by the device that the command line names or, if it
\* names none, by the first device of the role's type.
RolesFound ==
  \A r \in DOMAIN role :
    LET plays(b) == IF bdev_name[r] # NoName THEN b.name = bdev_name[r]
                    ELSE b.type = Role[r]
    IN  IF role[r] = NoBlock
        THEN bdev_name[r] = NoName /\ \A i \in DOMAIN all_blocks : ~plays(all_blocks[i])
        ELSE /\ plays(all_blocks[role[r]])
             /\ \A i \in 1..role[r] - 1 : ~plays(all_blocks[i])

\* The scan at boot finds the disks and the partitions that are there, gives
\* the roles to the right ones, and what it registers stays on its disk.
BootFindsDevices == DisksFound /\ PartitionsListed /\ RolesFound /\ PartitionsApart
=============================================================================
