----------------------------- MODULE MCLibrary ------------------------------
(***************************************************************************)
(* The data structures and functions of lib/, and the other parts of the   *)
(* kernel in which one thread runs at a time, side by side: `part' says    *)
(* which of them a behaviour is about, and only that one moves.            *)
(***************************************************************************)
EXTENDS List, Hash, Bitmap, String, Stdlib, Arithmetic, Stdio,
        Loader, Argv, Ustar, Fsutil

CONSTANTS e1, e2, e3, e4  \* the elements of the lists

VARIABLE part

MCValue == (e1 :> 1) @@ (e2 :> 1) @@ (e3 :> 2) @@ (e4 :> 2)
MCSymmetry == Permutations({e1, e2}) \cup Permutations({e3, e4})

\* Pairs of items have equal keys; the hashes of three keys collide in two
\* buckets, and two of them in any number of buckets.
MCKey == [x \in Item |-> x \div 2]
MCHashOf == [x \in Item |-> <<1, 3, 5, 2, 5>>[x \div 2 + 1]]

MCBits == [CHAR |-> 4, SHORT |-> 8, INT |-> 12, LONG |-> 12, LONGLONG |-> 16,
           INTMAX |-> 16, PTRDIFFT |-> 12, SIZET |-> 12]
MCConversion ==
  [flags : SUBSET {"-", "+", " ", "#", "0", "'"}, width : {-6, 0, 6},
   precision : {-2, 0, 9}, type : {"CHAR", "LONGLONG"},
   spec : {"d", "o", "x"}]
  \cup [flags : SUBSET {"-", "0"}, width : {-4, 4}, precision : {-1, 0, 2},
        type : DOMAIN MCBits, spec : {"s", "c", "p", "u", "f"}]
MCArg ==
  LET n == {0, 4095, 32768}
  IN  [d |-> n, o |-> n, x |-> n, u |-> n, p |-> n, f |-> {0}, c |-> {"a"},
       s |-> {[null |-> TRUE, text |-> <<>>], [null |-> FALSE, text |-> <<>>],
              [null |-> FALSE, text |-> <<"a", "b", "c">>]}]

MCHeader == [type : {"load"}, offset : {0, 1, 5, 9}, vaddr : {1, 4, 5, 9, 15},
             filesz : {0, 3, 6}, memsz : {0, 1, 4, 7, 27}, writable : {FALSE}]
MCGood == {p \in MCHeader : p.vaddr \in {4, 5, 9} /\ p.memsz \in {1, 4}}
          \cup [type : {"load"}, offset : {1}, vaddr : {9}, filesz : {0, 2}, memsz : {2, 3},
                writable : {TRUE}]
          \cup [type : {"other", "dynamic"}, offset : {0}, vaddr : {0}, filesz : {0},
                memsz : {0}, writable : {FALSE}]
MCExecutable ==
  [length : {8}, headers : {<<p>> : p \in MCHeader}, readable : {1}]
  \cup [length : {8}, headers : {<<q, p>> : q, p \in MCGood}, readable : {1, 2}]
MCFiles == [nil |-> <<>>, one |-> <<1, 2>>, odd |-> <<3, 4, 5>>]

vars == <<part, listVars, hashVars, bitmapVars, stringVars, stdlibVars,
          dividend, printed, loaderVars, argvVars, ustarVars, fsutilVars>>

StringRest == chars = <<>> /\ save_ptr = NoPtr
StdlibRest == array = <<>> /\ sorted_from = <<>> /\ numeral = <<>>
BitmapRest ==
  /\ bm = bitmap_create(0)
  /\ on = {} /\ saved = bm.bits /\ Select = "FIRST_FIT"
  /\ lastestAlloc = 0 /\ check_size = 0
LoaderRest ==
  /\ exe = [length |-> 0, headers |-> <<>>, readable |-> 0]
  /\ header = 0 /\ seg = no_seg /\ mapped = <<>> /\ loading = "headers"
ArgvRest == cmdline = <<>> /\ stack = no_stack
UstarRest ==
  /\ entry = [name |-> <<LETTER>>, type |-> REGULAR, size |-> 0]
  /\ block = <<>> /\ intact = FALSE

Init ==
  /\ part \in {"list", "hash", "bitmap", "string", "stdlib", "arithmetic", "stdio",
              "loader", "argv", "ustar", "fsutil"}
  /\ ListInit /\ HashInit /\ ArithmeticInit /\ StdioInit /\ FsutilInit
  /\ IF part = "loader" THEN LoaderInit ELSE LoaderRest
  /\ IF part = "argv" THEN ArgvInit ELSE ArgvRest
  /\ IF part = "ustar" THEN UstarInit ELSE UstarRest
  /\ IF part = "bitmap" THEN BitmapInit ELSE BitmapRest
  /\ IF part = "string" THEN StringInit ELSE StringRest
  /\ IF part = "stdlib" THEN StdlibInit ELSE StdlibRest

Others(p) ==
  /\ part = p /\ UNCHANGED part
  /\ p # "list" => UNCHANGED listVars
  /\ p # "hash" => UNCHANGED hashVars
  /\ p # "bitmap" => UNCHANGED bitmapVars
  /\ p # "string" => UNCHANGED stringVars
  /\ p # "stdlib" => UNCHANGED stdlibVars
  /\ p # "arithmetic" => UNCHANGED dividend
  /\ p # "stdio" => UNCHANGED printed
  /\ p # "loader" => UNCHANGED loaderVars
  /\ p # "argv" => UNCHANGED argvVars
  /\ p # "ustar" => UNCHANGED ustarVars
  /\ p # "fsutil" => UNCHANGED fsutilVars

Next ==
  \/ Others("list") /\ ListNext
  \/ Others("hash") /\ HashNext
  \/ Others("bitmap") /\ BitmapNext
  \/ Others("string") /\ StringNext
  \/ Others("stdlib") /\ StdlibNext
  \/ Others("arithmetic") /\ ArithmeticNext
  \/ Others("stdio") /\ StdioNext
  \/ Others("loader") /\ LoaderNext
  \/ Others("argv") /\ ArgvNext
  \/ Others("ustar") /\ UstarNext
  \/ Others("fsutil") /\ FsutilNext

Spec == Init /\ [][Next]_vars

-----------------------------------------------------------------------------
(* What takes two modules to say.                                          *)

\* process.c: when main() starts, its segments are in memory and its arguments
\* on the stack.
ProgramLoaded == SegmentsExact /\ ArgvExact

\* ustar.c and fsutil.c: headers mean what they were made of, and an archive
\* gives back the files that were put into it.
ArchivesCorrect == HeadersMeanOne /\ NamesTamed /\ ArchiveComesBack
=============================================================================
