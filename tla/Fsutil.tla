------------------------------- MODULE Fsutil -------------------------------
(***************************************************************************)
(* Copying files between the file system and an archive on the scratch     *)
(* disk (filesys/fsutil.c), sector by sector.  A sector holds a header or  *)
(* bytes.  The actions of the kernel's command line run one by one; a      *)
(* machine that is started again finds its scratch disk as it was left,    *)
(* and here a new file system.                                             *)
(***************************************************************************)
EXTENDS Integers, Sequences

CONSTANTS
  Files,        \* the names of files, and their contents
  SectorBytes,  \* BLOCK_SECTOR_SIZE
  ScratchLen,   \* the size of the scratch disk
  MaxBoots      \* bound on the starts of the machine

VARIABLES
  scratch,      \* the sectors of the scratch disk
  stored,       \* the files of the file system and their contents
  append_sector, extract_sector,  \* the static variables `sector'
  util,         \* where the running action is
  name_of,      \* the file that it copies
  left,         \* the bytes that are left of it
  stop,         \* why the kernel has panicked
  boots,
  archive,      \* the files that an archive at the front of the disk holds, whether it
                \* has its end mark, and whether append_sector belongs to it
  sound         \* the extraction began at such an archive, in an empty file system

fsutilVars == <<scratch, stored, append_sector, extract_sector, util, name_of, left, stop,
                boots, archive, sound>>

NoFile == "none"
header_for(f, n) == [kind |-> "header", name |-> f, size |-> n]
bytes_sector(b) == [kind |-> "bytes", bytes |-> b]
zeros == [i \in 1..SectorBytes |-> 0]
end_of_archive(s) == s = bytes_sector(zeros)
rest_of_disk == bytes_sector([i \in 1..SectorBytes |-> 9])

FsutilInit ==
  /\ scratch = [s \in 0..ScratchLen - 1 |-> rest_of_disk]
  /\ stored = Files
  /\ append_sector = 0 /\ extract_sector = 0
  /\ util = "idle" /\ name_of = NoFile /\ left = 0
  /\ stop = "no" /\ boots = 1
  /\ archive = [marked |-> FALSE, ours |-> FALSE, files |-> <<>>]
  /\ sound = FALSE

stop_with(why) ==
  /\ stop' = why
  /\ UNCHANGED <<scratch, stored, append_sector, extract_sector, util, name_of, left,
                 boots, archive>>
panic_with(why) == stop_with(why) /\ UNCHANGED sound
running(u) == stop = "no" /\ util = u

\* malloc() or a call of the file system fails for want of memory or, when it
\* creates, of room: each of the actions then panics.
no_resources == panic_with("resources")

\* block_write() panics beyond the end of the disk.
off_disk(sector) == sector >= ScratchLen

\* fsutil_append(): the header ...
append_begin(f) ==
  /\ running("idle") /\ f \in DOMAIN stored
  /\ \/ no_resources
     \/ off_disk(append_sector) /\ panic_with("space")
     \/ /\ ~off_disk(append_sector)
        /\ scratch' = [scratch EXCEPT ![append_sector] = header_for(f, Len(stored[f]))]
        /\ append_sector' = append_sector + 1
        /\ util' = "append" /\ name_of' = f /\ left' = Len(stored[f])
        /\ archive' = IF append_sector = 0
                        THEN [marked |-> FALSE, ours |-> TRUE, files |-> <<>>] ELSE archive
        /\ UNCHANGED <<stored, extract_sector, stop, boots, sound>>

\* The size of the next piece.
chunk == IF left > SectorBytes THEN SectorBytes ELSE left
file_at(f, n) == Len(stored[f]) - n

\* ... a sector of the file, padded with zeros ...
append_sector_of_file ==
  /\ running("append") /\ left > 0
  /\ \/ off_disk(append_sector) /\ panic_with("space")
     \/ ~off_disk(append_sector) /\ no_resources
     \/ /\ ~off_disk(append_sector)
        /\ scratch' = [scratch EXCEPT ![append_sector] =
              bytes_sector([i \in 1..SectorBytes |->
                IF i <= chunk THEN stored[name_of][file_at(name_of, left) + i] ELSE 0])]
        /\ append_sector' = append_sector + 1
        /\ left' = left - chunk
        /\ UNCHANGED <<stored, extract_sector, util, name_of, stop, boots, archive, sound>>

\* Bug variant: the position goes past the mark.
append_position_Past(s) == s + 1

append_position(s) == s

\* ... and the end mark.  It should be two sectors of zeros, but the second
\* block_write() goes to the same sector and starts a byte further on, so that
\* the mark is one sector whose last byte is the one that follows the buffer
\* in memory.  Any other byte than 0 spoils it.
append_end(stray) ==
  /\ running("append") /\ left = 0
  /\ IF off_disk(append_sector) THEN panic_with("space")
     ELSE /\ scratch' = [scratch EXCEPT ![append_sector] =
                           bytes_sector([zeros EXCEPT ![SectorBytes] = stray])]
          /\ append_sector' = append_position(append_sector)
          /\ archive' = IF ~archive.ours THEN archive
                       ELSE [marked |-> stray = 0, ours |-> TRUE,
                             files |-> Append(archive.files, name_of)]
          /\ util' = "idle" /\ name_of' = NoFile
          /\ UNCHANGED <<stored, extract_sector, left, stop, boots, sound>>

from_front == extract_sector = 0 /\ stored = <<>> /\ archive.marked

\* fsutil_extract(): the buffers (before the first header), a header, and the
\* new file.  Other sectors than headers and zeros are bad, and a name that is
\* in use cannot be created.
extract_header ==
  LET s == scratch[extract_sector]
  IN  /\ stop = "no" /\ util \in {"idle", "extract"}
      /\ sound' = IF util = "idle" THEN from_front ELSE sound
      /\ \/ util = "idle" /\ stop_with("resources")
         \/ IF off_disk(extract_sector) THEN stop_with("read")
            ELSE IF end_of_archive(s)
              THEN /\ extract_sector' = extract_sector + 1 /\ util' = "erase"
                   /\ UNCHANGED <<scratch, stored, append_sector, name_of, left, stop, boots, archive>>
            ELSE IF s.kind = "bytes" THEN stop_with("header")
            ELSE IF s.name \in DOMAIN stored THEN stop_with("create")
            ELSE \/ stop_with("resources")
                 \/ /\ extract_sector' = extract_sector + 1
                    /\ stored' = [f \in DOMAIN stored \cup {s.name} |->
                                    IF f = s.name THEN <<>> ELSE stored[f]]
                    /\ util' = "copy" /\ name_of' = s.name /\ left' = s.size
                    /\ UNCHANGED <<scratch, append_sector, stop, boots, archive>>

\* A sector of the file.
extract_sector_of_file ==
  /\ running("copy") /\ left > 0
  /\ \/ off_disk(extract_sector) /\ panic_with("read")
     \/ ~off_disk(extract_sector) /\ no_resources
     \/ /\ ~off_disk(extract_sector)
        /\ stored' = [stored EXCEPT ![name_of] =
                         @ \o SubSeq(scratch[extract_sector].bytes, 1, chunk)]
        /\ extract_sector' = extract_sector + 1
        /\ left' = left - chunk
        /\ UNCHANGED <<scratch, append_sector, util, name_of, stop, boots, archive, sound>>

extract_file_end ==
  /\ running("copy") /\ left = 0
  /\ util' = "extract" /\ name_of' = NoFile
  /\ UNCHANGED <<scratch, stored, append_sector, extract_sector, left, stop, boots, archive, sound>>

erased == [s \in DOMAIN scratch |-> IF s \in {0, 1} THEN bytes_sector(zeros) ELSE scratch[s]]

\* The archive is erased, so that it is extracted once.
extract_erase ==
  /\ running("erase")
  /\ scratch' = erased
  /\ archive' = [marked |-> TRUE, ours |-> FALSE, files |-> <<>>]
  /\ util' = "extracted"
  /\ UNCHANGED <<stored, append_sector, extract_sector, name_of, left, stop, boots, sound>>

extract_return ==
  /\ running("extracted")
  /\ util' = "idle"
  /\ UNCHANGED <<scratch, stored, append_sector, extract_sector, name_of, left, stop, boots, archive, sound>>

\* fsutil_rm()
fsutil_rm(f) ==
  /\ running("idle")
  /\ \/ no_resources
     \/ f \notin DOMAIN stored /\ panic_with("remove")
     \/ /\ f \in DOMAIN stored
        /\ stored' = [g \in DOMAIN stored \ {f} |-> stored[g]]
        /\ UNCHANGED <<scratch, append_sector, extract_sector, util, name_of, left, stop,
                       boots, archive, sound>>

\* The machine is started again, and the file system made anew.
reboot ==
  /\ running("idle") /\ boots < MaxBoots
  /\ boots' = boots + 1
  /\ stored' = <<>>
  /\ append_sector' = 0 /\ extract_sector' = 0
  /\ UNCHANGED <<scratch, util, name_of, left, stop, archive, sound>>

FsutilNext ==
  \/ \E f \in DOMAIN Files : append_begin(f) \/ fsutil_rm(f)
  \/ append_sector_of_file \/ \E b \in {0, 1} : append_end(b)
  \/ extract_header \/ extract_sector_of_file \/ extract_file_end
  \/ extract_erase \/ extract_return \/ reboot

distinct == \A i, j \in 1..Len(archive.files) : i # j => archive.files[i] # archive.files[j]

\* Extracting an archive whose end mark is whole into an empty file system
\* brings back exactly the files that fsutil_append() was given, each with its
\* contents, however they fill their last sectors, and then nothing more, also
\* when the machine is started again.  Of the panics, only the ones for want
\* of memory or room can come, unless a file was appended twice.  Nothing is
\* claimed of an archive with a stray byte in its end mark (append_end()):
\* fsutil_extract() panics at it.
ArchiveComesBack ==
  sound =>
    /\ util = "erase" =>
         stored = [f \in {archive.files[i] : i \in 1..Len(archive.files)} |-> Files[f]]
    /\ distinct => stop \notin {"header", "create", "read"}
=============================================================================
