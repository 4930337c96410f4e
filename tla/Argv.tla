-------------------------------- MODULE Argv --------------------------------
(***************************************************************************)
(* The arguments of a new process: process_execute() cuts the command line *)
(* at its spaces, and setup_stack() (userprog/process.c) copies it to the  *)
(* top of the stack and pushes argv and argc.  A stack is its bytes, its   *)
(* 4-byte words and the stack pointer.                                     *)
(***************************************************************************)
EXTENDS Integers, Sequences, SequencesExt, FiniteSets

CONSTANTS
  Letter,      \* the characters of arguments, numbers
  MaxLine,     \* bound on the length of a command line
  Top          \* PHYS_BASE

VARIABLES
  cmdline,     \* the line as it was given
  stack        \* what setup_stack() has made of it

argvVars == <<cmdline, stack>>

Nul == 0
BLANK == 32
no_stack == [esp |-> Top, bytes |-> <<>>, words |-> <<>>]

\* load() opens the file named by the first argument, so that no line that
\* starts with a space comes here.
ArgvInit ==
  /\ cmdline \in {l \in SeqOf(Letter \cup {BLANK}, MaxLine) : l # <<>> /\ l[1] # BLANK}
  /\ stack = no_stack

\* process_execute(): params->cmdline, with its terminator.
params == [i \in 1..Len(cmdline) + 1 |->
             IF i > Len(cmdline) \/ cmdline[i] = BLANK THEN Nul ELSE cmdline[i]]

\* A 4-byte word is pushed.
push(s, w) ==
  [s EXCEPT !.esp = @ - 4,
            !.words = [x \in DOMAIN @ \cup {s.esp - 4} |-> IF x = s.esp - 4 THEN w ELSE @[x]]]

\* The argv data, the bytes called `word align', and argv[argc].
copied ==
  LET n == Len(params)
      base == Top - n
      low == base - (n % 4)
  IN  push([esp |-> low, words |-> <<>>,
            bytes |-> [x \in low..Top - 1 |-> IF x >= base THEN params[x - base + 1] ELSE Nul]],
           Nul)

\* The loop from the last byte of the line down to the first: after a byte
\* that is not Nul, a Nul means that an argument starts just above it.
RECURSIVE pointers(_, _, _)
pointers(s, i, t) ==
  IF i = Len(params) THEN s
  ELSE LET addr == Top - 1 - i
           c == s.bytes[addr]
           found == IF t # Nul /\ c = Nul THEN push(s, addr + 1) ELSE s
       IN  pointers(IF i = Len(params) - 1 THEN push(found, addr) ELSE found, i + 1, c)

argv == pointers(copied, 0, Nul)
argc == (copied.esp - argv.esp) \div 4

\* argv, argc and a return address are pushed last.
setup_stack_args ==
  /\ stack = no_stack
  /\ stack' = push(push(push(argv, argv.esp), argc), 0)
  /\ UNCHANGED cmdline

ArgvNext == setup_stack_args

\* The arguments of a command line: its longest runs without a space.
arg_starts == {i \in 1..Len(cmdline) : cmdline[i] # BLANK /\ (i = 1 \/ cmdline[i - 1] = BLANK)}
arg_at(i) ==
  LET ends == {j \in i..Len(cmdline) : cmdline[j] = BLANK} \cup {Len(cmdline) + 1}
  IN  SubSeq(cmdline, i, (CHOOSE j \in ends : \A k \in ends : j <= k) - 1)
args == LET starts == SetToSortSeq(arg_starts, <)
        IN  [k \in 1..Len(starts) |-> arg_at(starts[k])]

\* main() finds its arguments, in order and whole, however many spaces there
\* were between and after them: argc, argv, a pointer to the start of each and
\* the null pointer at the end; and no word lies over the strings or another
\* word.
ArgvExact ==
  stack # no_stack =>
    LET n == Len(args)
        v == stack.esp + 12
        word(x) == stack.words[x]
    IN  /\ DOMAIN stack.words = {stack.esp + 4 * k : k \in 0..n + 3}
        /\ word(stack.esp + 4) = n /\ word(stack.esp + 8) = v
        /\ word(v + 4 * n) = Nul
        /\ \A k \in 1..n : LET p == word(v + 4 * (k - 1))
                           IN  /\ p + Len(args[k]) \in DOMAIN stack.bytes
                               /\ stack.bytes[p + Len(args[k])] = Nul
                               /\ \A j \in 1..Len(args[k]) : stack.bytes[p + j - 1] = args[k][j]
        /\ \A x \in DOMAIN stack.bytes : x >= v + 4 * (n + 1)
=============================================================================
