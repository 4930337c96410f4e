------------------------------- MODULE Loader -------------------------------
(***************************************************************************)
(* Loading an executable into a new address space (load(),                 *)
(* validate_segment(), load_segment() and the page of setup_stack() in     *)
(* userprog/process.c).  The byte at offset o of the file is o + 1, which  *)
(* is never 0.  Addresses wrap around at SPACE.                            *)
(***************************************************************************)
EXTENDS Integers, Sequences, FiniteSets

CONSTANTS
  PageSize,     \* PGSIZE
  UserEnd,      \* PHYS_BASE
  SPACE,        \* the number of addresses
  Executable,   \* records: length, the headers, how many can be read
  Frames        \* the pages that the user pool has left

\* A program header: its numbers are as wide as an address.
ProgramHeader ==
  [type : {"load", "other", "dynamic"}, writable : BOOLEAN,
   offset : 0..SPACE - 1, vaddr : 0..SPACE - 1, filesz : 0..SPACE - 1, memsz : 0..SPACE - 1]

ASSUME LoaderAssumption ==
  /\ PageSize \in Nat \ {0} /\ UserEnd \in Nat /\ SPACE \in Nat
  /\ UserEnd % PageSize = 0 /\ 2 * PageSize <= UserEnd /\ UserEnd < SPACE
  /\ \A e \in Executable : /\ Len(e.headers) \in Nat
                           /\ \A j \in 1..Len(e.headers) : e.headers[j] \in ProgramHeader

VARIABLES
  exe,          \* the file
  header,       \* the number of program headers that are done
  seg,          \* load_segment()'s variables, and the file position
  mapped,       \* the pages that are mapped: their bytes, and writable
  loading       \* where load() is

loaderVars == <<exe, header, seg, mapped, loading>>

no_seg == [upage |-> 0, read |-> 0, zero |-> 0, pos |-> 0, writable |-> FALSE]

LoaderInit ==
  /\ exe \in Executable
  /\ header = 0 /\ seg = no_seg /\ mapped = <<>>
  /\ loading = "headers"

pg_round_down(x) == x - (x % PageSize)
pg_ofs(x) == x % PageSize
ROUND_UP(x) == ((x + PageSize - 1) \div PageSize) * PageSize
is_user_vaddr(x) == x < UserEnd
phdr == exe.headers[header + 1]

\* Bug variant: a segment may wrap around the end of memory.
validate_segment_Wrap(h) ==
  /\ pg_ofs(h.offset) = pg_ofs(h.vaddr)
  /\ h.offset <= exe.length
  /\ h.memsz >= h.filesz /\ h.memsz # 0
  /\ is_user_vaddr(h.vaddr) /\ is_user_vaddr((h.vaddr + h.memsz) % SPACE)
  /\ h.vaddr >= PageSize

validate_segment(h) ==
  /\ pg_ofs(h.offset) = pg_ofs(h.vaddr)
  /\ h.offset <= exe.length
  /\ h.memsz >= h.filesz /\ h.memsz # 0
  /\ is_user_vaddr(h.vaddr) /\ is_user_vaddr((h.vaddr + h.memsz) % SPACE)
  /\ (h.vaddr + h.memsz) % SPACE >= h.vaddr
  /\ h.vaddr >= PageSize

fail == loading' = "failed" /\ UNCHANGED <<exe, header, seg, mapped>>

\* A header cannot be read, is of a kind that is not supported, or is not valid.
refuse_header ==
  /\ loading = "headers" /\ header < Len(exe.headers)
  /\ \/ header >= exe.readable
     \/ phdr.type = "dynamic"
     \/ phdr.type = "load" /\ ~validate_segment(phdr)
  /\ fail

ignore_header ==
  /\ loading = "headers" /\ header < Len(exe.headers) /\ header < exe.readable
  /\ phdr.type = "other"
  /\ header' = header + 1
  /\ UNCHANGED <<exe, seg, mapped, loading>>

\* Bug variant: the bytes before the segment in its page are forgotten.
read_bytes_Offset(h) == h.filesz

read_bytes(h) == IF h.filesz > 0 THEN pg_ofs(h.vaddr) + h.filesz ELSE 0

\* A PT_LOAD header: load_segment() is called, and seeks.
begin_segment ==
  /\ loading = "headers" /\ header < Len(exe.headers) /\ header < exe.readable
  /\ phdr.type = "load" /\ validate_segment(phdr)
  /\ seg' = [upage |-> pg_round_down(phdr.vaddr), read |-> read_bytes(phdr),
             zero |-> ROUND_UP(pg_ofs(phdr.vaddr) + phdr.memsz) - read_bytes(phdr),
             pos |-> pg_round_down(phdr.offset), writable |-> phdr.writable]
  /\ header' = header + 1
  /\ loading' = "segment"
  /\ UNCHANGED <<exe, mapped>>

page_read_bytes == IF seg.read < PageSize THEN seg.read ELSE PageSize
page_zero_bytes == PageSize - page_read_bytes

\* file_read() is short.
short_read == seg.pos + page_read_bytes > exe.length /\ page_read_bytes > 0

no_frame == Cardinality(DOMAIN mapped) >= Frames

\* install_page(): a page that is mapped is not mapped again.
can_install(upage) == upage \notin DOMAIN mapped
install_page(upage, bytes, writable) ==
  mapped' = [u \in DOMAIN mapped \cup {upage} |->
               IF u = upage THEN [bytes |-> bytes, writable |-> writable] ELSE mapped[u]]

page_bytes ==
  [i \in 1..PageSize |-> IF i <= page_read_bytes THEN seg.pos + i ELSE 0]

\* One round of the loop of load_segment().
load_page ==
  /\ loading = "segment" /\ (seg.read > 0 \/ seg.zero > 0)
  /\ ~no_frame /\ ~short_read /\ can_install(seg.upage)
  /\ install_page(seg.upage, page_bytes, seg.writable)
  /\ seg' = [seg EXCEPT !.read = @ - page_read_bytes, !.zero = @ - page_zero_bytes,
                        !.upage = @ + PageSize, !.pos = @ + page_read_bytes]
  /\ UNCHANGED <<exe, header, loading>>

\* It fails, and the frame, if there is one, is given back.
load_page_fails ==
  /\ loading = "segment" /\ (seg.read > 0 \/ seg.zero > 0)
  /\ no_frame \/ short_read \/ ~can_install(seg.upage)
  /\ fail

end_segment ==
  /\ loading = "segment" /\ seg.read = 0 /\ seg.zero = 0
  /\ loading' = "headers" /\ seg' = no_seg
  /\ UNCHANGED <<exe, header, mapped>>

\* The page of setup_stack().
setup_stack ==
  /\ loading = "headers" /\ header = Len(exe.headers)
  /\ ~no_frame /\ can_install(UserEnd - PageSize)
  /\ install_page(UserEnd - PageSize, [i \in 1..PageSize |-> 0], TRUE)
  /\ loading' = "success"
  /\ UNCHANGED <<exe, header, seg>>

setup_stack_fails ==
  /\ loading = "headers" /\ header = Len(exe.headers)
  /\ no_frame \/ ~can_install(UserEnd - PageSize)
  /\ fail

LoaderNext ==
  \/ refuse_header \/ ignore_header \/ begin_segment
  \/ load_page \/ load_page_fails \/ end_segment
  \/ setup_stack \/ setup_stack_fails

LoaderSpec == LoaderInit /\ [][LoaderNext]_loaderVars

\* When load() succeeds, every byte of every segment is in memory: the bytes
\* of the file, then zeros up to the segment's size, in pages that may be
\* written exactly if the header says so; no segment has spoilt another.
SegmentsExact ==
  loading = "success" =>
    \A j \in 1..Len(exe.headers) :
      LET h == exe.headers[j]
      IN  h.type = "load" =>
            \A x \in h.vaddr..h.vaddr + h.memsz - 1 :
              LET page == mapped[pg_round_down(x)]
                  k == x - h.vaddr
              IN  /\ page.bytes[pg_ofs(x) + 1] = IF k < h.filesz THEN h.offset + k + 1 ELSE 0
                  /\ page.writable = h.writable

\* Whatever the headers say, load() maps no page of the kernel, and not the
\* first page, at any time.
UserPagesOnly == DOMAIN mapped \subseteq PageSize..UserEnd - 1
=============================================================================
