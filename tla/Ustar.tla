------------------------------- MODULE Ustar --------------------------------
(***************************************************************************)
(* The headers of ustar archives (lib/ustar.c), with shorter fields: the   *)
(* name, the size, the checksum, the type, the magic, the version and the  *)
(* prefix.  The other fields are constants that only add to the checksum.  *)
(***************************************************************************)
EXTENDS Integers, Sequences, SequencesExt, Folds

CONSTANTS
  NameLen,      \* sizeof h->name
  OctLen,       \* sizeof h->size and sizeof h->chksum
  MaxName,      \* bound on the length of a file name
  Sizes,        \* the sizes of files
  ULong, IntMax, \* ULONG_MAX, and INT_MAX
  Byte          \* the bytes that a damaged header may hold

VARIABLES
  entry,        \* a file name, a type and a size
  block,        \* the header made for them; <<>> when the name is too long
  intact        \* it is as it was made

ustarVars == <<entry, block, intact>>

SLASH == 47
DOT == 46
DIGIT == 48
SPC == 32
LETTER == 97
MAGIC == 7
REGULAR == 48
DIRECTORY == 53

UstarInit ==
  /\ entry \in [name : SeqOf({SLASH, DOT, LETTER}, MaxName),
              type : {REGULAR, DIRECTORY}, size : Sizes]
  /\ block = <<>> /\ intact = FALSE

starts_with(name, p) == IsPrefix(p, name)

antisocial(name) ==
  starts_with(name, <<SLASH>>) \/ starts_with(name, <<DOT, SLASH>>)
    \/ starts_with(name, <<DOT, DOT, SLASH>>)

\* The loop drops everything up to the first slash.
RECURSIVE stripped(_)
stripped(name) ==
  IF ~antisocial(name) THEN name
  ELSE LET slash == CHOOSE i \in 1..Len(name) :
                      name[i] = SLASH /\ \A j \in 1..i - 1 : name[j] # SLASH
       IN  stripped(SubSeq(name, slash + 1, Len(name)))
strip_antisocial_prefixes(name) ==
  LET rest == stripped(name)
  IN  IF rest = <<>> \/ rest = <<DOT, DOT>> THEN <<DOT>> ELSE rest

\* Where the fields are in a header.
size_at == NameLen
chksum_at == NameLen + OctLen
type_at == NameLen + 2 * OctLen + 1
HeaderLen == type_at + 4
field(h, at) == SubSeq(h, at + 1, at + OctLen)

\* snprintf ("%0*o"), with the terminator.
octal(n) == [i \in 1..OctLen |-> IF i = OctLen THEN 0
                                 ELSE DIGIT + ((n \div 8 ^ (OctLen - 1 - i)) % 8)]
padded(name) == [i \in 1..NameLen |-> IF i <= Len(name) THEN name[i] ELSE 0]

\* As if the checksum were all spaces.
calculate_chksum(h) ==
  FoldLeft(+, 0, [i \in 1..Len(h) |->
                    IF i \in chksum_at + 1..chksum_at + OctLen THEN SPC ELSE h[i]])

header_of(name, type, size, chksum) ==
  padded(name) \o octal(size) \o octal(chksum) \o <<type, MAGIC, DIGIT, DIGIT, 0>>

\* ustar_make_header(): <<>> for false.
ustar_make_header(file_name, type, size) ==
  LET name == strip_antisocial_prefixes(file_name)
  IN  IF Len(name) > NameLen - 1 THEN <<>>
      ELSE header_of(name, type, size, calculate_chksum(header_of(name, type, size, 0)))

\* parse_octal_field(): -1 for false.
RECURSIVE octal_value(_, _, _)
octal_value(s, ofs, value) ==
  IF ofs = Len(s) THEN -1
  ELSE LET c == s[ofs + 1]
       IN  IF c \in DIGIT..DIGIT + 7
             THEN IF value > ULong \div 8 THEN -1
                  ELSE octal_value(s, ofs + 1, value * 8 + c - DIGIT)
           ELSE IF c \in {SPC, 0} THEN IF ofs > 0 THEN value ELSE -1
           ELSE -1
parse_octal_field(s) == octal_value(s, 0, 0)

bad_chksum(h) ==
  \/ parse_octal_field(field(h, chksum_at)) = -1
  \/ parse_octal_field(field(h, chksum_at)) # calculate_chksum(h)

is_all_zeros(h) == \A i \in 1..Len(h) : h[i] = 0
c_string(s) == LET ends == {i \in 1..Len(s) : s[i] = 0}
               IN  SubSeq(s, 1, (CHOOSE i \in ends : \A j \in ends : i <= j) - 1)
bad == [ok |-> FALSE, name |-> <<>>, type |-> -1, size |-> 0]

\* ustar_parse_header()
ustar_parse_header(h) ==
  IF is_all_zeros(h) THEN [ok |-> TRUE, name |-> <<>>, type |-> -1, size |-> 0]
  ELSE IF \/ h[type_at + 1] # MAGIC
          \/ h[type_at + 2] # DIGIT \/ h[type_at + 3] # DIGIT
          \/ bad_chksum(h)
          \/ h[NameLen] # 0 \/ h[type_at + 4] # 0
          \/ h[type_at] \notin {REGULAR, DIRECTORY}
    THEN bad
  ELSE LET size == IF h[type_at] = REGULAR THEN parse_octal_field(field(h, size_at)) ELSE 0
       IN  IF size = -1 \/ size > IntMax THEN bad
           ELSE [ok |-> TRUE,
                 name |-> strip_antisocial_prefixes(c_string(SubSeq(h, 1, NameLen))),
                 type |-> h[type_at], size |-> size]

make ==
  /\ block = <<>>
  /\ intact' = TRUE
  /\ block' = ustar_make_header(entry.name, entry.type, entry.size)
  /\ UNCHANGED entry

\* A byte of the header is damaged on the way.
damage(i, b) ==
  /\ intact /\ block # <<>>
  /\ intact' = FALSE
  /\ block' = [block EXCEPT ![i] = b]
  /\ UNCHANGED entry

UstarNext == make \/ \E i \in 1..HeaderLen, b \in Byte : damage(i, b)

\* What ustar_parse_header() says of a header that ustar_make_header() made is
\* what it was made of, and a header in which one byte has changed is refused
\* or means the same.
HeadersMeanOne ==
  block # <<>> =>
    LET p == ustar_parse_header(block)
    IN  /\ intact => p.ok
        /\ p.ok => p = [ok |-> TRUE, name |-> strip_antisocial_prefixes(entry.name),
                        type |-> entry.type,
                        size |-> IF entry.type = REGULAR THEN entry.size ELSE 0]

\* strip_antisocial_prefixes(): a name that goes into an archive or comes out
\* of one does not begin at the root, here or above, is not empty, and is the
\* end of the name it was made from.  (A `..' further on in it stays.)
NamesTamed ==
  LET n == strip_antisocial_prefixes(entry.name)
  IN  /\ n # <<>> /\ n # <<DOT, DOT>> /\ n[1] # SLASH
      /\ ~starts_with(n, <<DOT, SLASH>>) /\ ~starts_with(n, <<DOT, DOT, SLASH>>)
      /\ n = <<DOT>> \/ IsSuffix(n, entry.name)
=============================================================================
