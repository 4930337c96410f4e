------------------------------- MODULE Stdio --------------------------------
(***************************************************************************)
(* Formatted output (lib/stdio.c): the parser of conversions, the          *)
(* conversions, and vsnprintf(), which keeps what fits in its buffer.  A   *)
(* string is a sequence of characters.                                     *)
(***************************************************************************)
EXTENDS Integers, SequencesExt, FiniteSetsExt, Stdlib

CONSTANTS
  Bits,       \* the number of bits of each type of argument
  BufSize,    \* sizeof buf in format_integer(): 64 in the code
  PerLine,    \* the bytes of a line of hex_dump(): 16 in the code
  Conversion, \* the conversions that are tried
  Arg,        \* the arguments for each conversion character: the bits that
              \* are passed, a character, or a string or null pointer
  Room        \* the sizes of the buffers

VARIABLE printed  \* the last call of snprintf() and what came of it

\* The character that a format is at; its end reads as a terminator.
At(f) == IF f = <<>> THEN "NUL" ELSE Head(f)
output_dup(ch, cnt) == [i \in 1..cnt |-> ch]

-----------------------------------------------------------------------------
(* parse_conversion().                                                     *)

RECURSIVE ParseFlags(_, _)
ParseFlags(f, flags) ==
  IF At(f) \in {"-", "+", " ", "#", "0", "'"}
    THEN ParseFlags(Tail(f), flags \cup {Head(f)})
    ELSE [f |-> f, flags |-> flags]

RECURSIVE ParseDigits(_, _)
ParseDigits(f, n) ==
  IF isdigit(At(f)) THEN ParseDigits(Tail(f), n * 10 + DigitOf[Head(f)])
  ELSE [f |-> f, n |-> n]

\* A number, or `*' and the next argument.
ParseNumber(f, args) ==
  IF At(f) = "*" THEN [f |-> Tail(f), n |-> Head(args), args |-> Tail(args)]
  ELSE LET p == ParseDigits(f, 0) IN [f |-> p.f, n |-> p.n, args |-> args]

ParseType(f) ==
  LET twice == Len(f) > 1 /\ f[2] = f[1]
      one(type) == [f |-> Tail(f), type |-> type]
      two(type) == [f |-> Tail(Tail(f)), type |-> type]
  IN  CASE At(f) = "h" -> IF twice THEN two("CHAR") ELSE one("SHORT")
        [] At(f) = "l" -> IF twice THEN two("LONGLONG") ELSE one("LONG")
        [] At(f) = "j" -> one("INTMAX")
        [] At(f) = "t" -> one("PTRDIFFT")
        [] At(f) = "z" -> one("SIZET")
        [] OTHER -> [f |-> f, type |-> "INT"]

parse_conversion(format, args) ==
  LET pf == ParseFlags(format, {})
      w == ParseNumber(pf.f, args)
      dot == At(w.f) = "."
      p == IF dot THEN ParseNumber(Tail(w.f), w.args)
           ELSE [f |-> w.f, n |-> -1, args |-> w.args]
      t == ParseType(p.f)
      off == (IF "-" \in pf.flags \/ p.n >= 0 THEN {"0"} ELSE {})
             \cup (IF "+" \in pf.flags THEN {" "} ELSE {})
  IN  [flags |-> (pf.flags \ off) \cup (IF w.n < 0 THEN {"-"} ELSE {}),
       width |-> IF w.n < 0 THEN -w.n ELSE w.n, precision |-> Max({p.n, -1}),
       type |-> t.type, f |-> t.f, args |-> p.args]

-----------------------------------------------------------------------------
(* The conversions.                                                        *)

\* struct integer_base: base_d, base_o, base_x; base_X differs in its letters.
integer_base(spec) ==
  CASE spec = "o" -> [base |-> 8, x |-> <<>>, group |-> 3]
    [] spec \in {"x", "p"} -> [base |-> 16, x |-> <<"0", "x">>, group |-> 4]
    [] OTHER -> [base |-> 10, x |-> <<>>, group |-> 3]

\* The digits as they are collected in buf, the last one first.
RECURSIVE Collect(_, _, _, _)
Collect(value, b, grouped, digit_cnt) ==
  IF value = 0 THEN <<>>
  ELSE (IF grouped /\ digit_cnt > 0 /\ digit_cnt % b.group = 0 THEN <<",">> ELSE <<>>)
       \o <<DigitChar[(value % b.base) + 1]>>
       \o Collect(value \div b.base, b, grouped, digit_cnt + 1)

\* The contents of buf: digits, zeros up to the precision while there is
\* room for one more, and the leading zero of an octal number.
Buf(value, b, c) ==
  LET digits == Collect(value, b, "'" \in c.flags, 0)
      precision == Min({IF c.precision < 0 THEN 1 ELSE c.precision, BufSize - 1})
      filled == digits \o output_dup("0", Max({precision - Len(digits), 0}))
      octal == /\ "#" \in c.flags /\ b.base = 8
               /\ filled = <<>> \/ Last(filled) # "0"
  IN  IF octal THEN Append(filled, "0") ELSE filled

format_integer(value, is_signed, negative, b, c) ==
  LET sign == IF ~is_signed THEN <<>>
              ELSE IF negative THEN <<"-">>
              ELSE IF "+" \in c.flags THEN <<"+">>
              ELSE IF " " \in c.flags THEN <<" ">> ELSE <<>>
      x == IF "#" \in c.flags /\ value # 0 THEN b.x ELSE <<>>
      buf == Buf(value, b, c)
      pad_cnt == Max({c.width - Len(buf) - Len(x) - Len(sign), 0})
      pad(when, ch) == IF when THEN output_dup(ch, pad_cnt) ELSE <<>>
  IN  pad(c.flags \cap {"-", "0"} = {}, " ") \o sign \o x
      \o pad("0" \in c.flags, "0") \o Reverse(buf) \o pad("-" \in c.flags, " ")

format_string(string, length, c) ==
  LET pad == output_dup(" ", Max({c.width - length, 0}))
      text == SubSeq(string, 1, length)
  IN  IF "-" \in c.flags THEN text \o pad ELSE pad \o text

Modulus(type) == 2 ^ Bits[type]
\* The argument as a number of the type: unsigned, and in two's complement.
Unsigned(type, arg) == arg % Modulus(type)
Signed(type, arg) ==
  LET u == Unsigned(type, arg)
  IN  IF u >= Modulus(type) \div 2 THEN u - Modulus(type) ELSE u

\* A string argument; the null pointer prints as a string too.
TextOf(arg) == IF arg.null THEN <<"(", "n", "u", "l", "l", ")">> ELSE arg.text

\* The switch of __vprintf() on the conversion character.
Convert(spec, c, arg) ==
  CASE spec \in {"d", "i"} ->
         LET value == Signed(c.type, arg)
         IN  format_integer(IF value < 0 THEN -value ELSE value, TRUE,
                            value < 0, integer_base(spec), c)
    [] spec \in {"o", "u", "x"} ->
         format_integer(Unsigned(c.type, arg), FALSE, FALSE,
                        integer_base(spec), c)
    [] spec = "c" -> format_string(<<arg>>, 1, c)
    [] spec = "s" ->
         format_string(TextOf(arg),
                       IF c.precision < 0 THEN Len(TextOf(arg))
                       ELSE Min({c.precision, Len(TextOf(arg))}), c)
    [] spec = "p" ->
         format_integer(Unsigned("SIZET", arg), FALSE, FALSE,
                        integer_base(spec), [c EXCEPT !.flags = {"#"}])

Converts(spec) == spec \in {"d", "i", "o", "u", "x", "c", "s", "p"}
Refusal(spec) == <<"<<no %", spec, ">>">>

RECURSIVE vprintf(_, _)
vprintf(format, args) ==
  IF format = <<>> THEN <<>>
  ELSE IF Head(format) # "%" THEN <<Head(format)>> \o vprintf(Tail(format), args)
  ELSE IF At(Tail(format)) = "%" THEN <<"%">> \o vprintf(Tail(Tail(format)), args)
  ELSE LET c == parse_conversion(Tail(format), args)
           spec == At(c.f)
       IN  IF Converts(spec)
             THEN Convert(spec, c, Head(c.args)) \o vprintf(Tail(c.f), Tail(c.args))
             ELSE Refusal(spec) \o vprintf(Tail(c.f), c.args)

\* Bug variant: one character too many.
vsnprintf_helper_More(aux, ch) ==
  [aux EXCEPT !.length = @ + 1,
              !.buffer = IF aux.length <= aux.max_length THEN Append(@, ch) ELSE @]

\* One character of output; buffer is what has been stored.
vsnprintf_helper(aux, ch) ==
  [aux EXCEPT !.length = @ + 1,
              !.buffer = IF aux.length < aux.max_length THEN Append(@, ch) ELSE @]

vsnprintf(buf_size, format, args) ==
  LET aux == FoldLeft(vsnprintf_helper,
                      [buffer |-> <<>>, length |-> 0,
                       max_length |-> IF buf_size > 0 THEN buf_size - 1 ELSE 0],
                      vprintf(format, args))
  IN  [buffer |-> IF buf_size > 0 THEN Append(aux.buffer, "NUL") ELSE aux.buffer,
       length |-> aux.length]

-----------------------------------------------------------------------------
(* hex_dump().                                                             *)

\* The lines: the offset that is printed, the column of the first byte, and
\* the bytes.
RECURSIVE hex_dump(_, _)
hex_dump(ofs, buf) ==
  LET start == ofs % PerLine
      end == IF PerLine - start > Len(buf) THEN start + Len(buf) ELSE PerLine
      n == end - start
  IN  IF buf = <<>> THEN <<>>
      ELSE <<[ofs |-> ofs - start, column |-> start, bytes |-> SubSeq(buf, 1, n)]>>
           \o hex_dump(ofs + n, SubSeq(buf, n + 1, Len(buf)))

-----------------------------------------------------------------------------

None == [size |-> -1]
Dump == [size |-> -2]
Printed == printed.size >= 0
StdioInit == printed = None

\* A conversion as a format spells it; negative numbers come as arguments.
Spell(c) ==
  LET star(n) == IF n < 0 THEN <<"*">> ELSE <<DigitChar[n + 1]>>
  IN  <<"%">> \o SetToSeq(c.flags) \o (IF c.width = 0 THEN <<>> ELSE star(c.width))
      \o (IF c.precision = -1 THEN <<>> ELSE <<".">> \o star(c.precision))
      \o (CASE c.type = "CHAR" -> <<"h", "h">> [] c.type = "SHORT" -> <<"h">>
            [] c.type = "LONG" -> <<"l">> [] c.type = "LONGLONG" -> <<"l", "l">>
            [] c.type = "INTMAX" -> <<"j">> [] c.type = "SIZET" -> <<"z">>
            [] c.type = "PTRDIFFT" -> <<"t">> [] OTHER -> <<>>)
      \o <<c.spec>>
Stars(c) == (IF c.width < 0 THEN <<c.width>> ELSE <<>>)
            \o (IF c.precision < -1 THEN <<c.precision>> ELSE <<>>)

\* snprintf (buffer, size, "=%...%%", arg)
snprintf(c, arg, size) ==
  LET args == Stars(c) \o <<arg>>
      r == vsnprintf(size, <<"=">> \o Spell(c) \o <<"%", "%">>, args)
  IN  printed' = [size |-> size, c |-> c, arg |-> arg, buffer |-> r.buffer,
                  length |-> r.length,
                  parsed |-> parse_conversion(Tail(Spell(c)), args)]

StdioNext ==
  \/ printed = None /\ \E c \in Conversion, size \in Room :
       \E arg \in Arg[c.spec] : snprintf(c, arg, size)
  \/ printed = None /\ printed' = Dump
  \/ printed # None /\ printed' = None

-----------------------------------------------------------------------------
(* Properties.                                                             *)

\* vsnprintf() writes at most size characters, ends them with a terminator
\* unless size is 0, and returns the length that a large buffer would show:
\* what is stored is a prefix of what is stored there.
BufferBounded ==
  LET cut(whole) ==
        /\ printed.length = Len(whole.buffer) - 1
        /\ printed.buffer =
             IF printed.size = 0 THEN <<>>
             ELSE Append(SubSeq(whole.buffer, 1, Min({printed.size - 1, whole.length})),
                         "NUL")
  IN  Printed => cut(vsnprintf(1000, <<"=">> \o Spell(printed.c) \o <<"%", "%">>,
                               Stars(printed.c) \o <<printed.arg>>))

\* parse_conversion() reads back what a format spells: the flags that are
\* not overruled, the width, the precision and the type, up to the conversion
\* character, with the arguments of the stars taken.
ParsesBack ==
  Printed =>
    LET c == printed.c
        p == printed.parsed
        left == "-" \in c.flags \/ c.width < 0
    IN  /\ p.f = <<c.spec>> /\ p.args = <<printed.arg>> /\ p.type = c.type
        /\ p.width = Max({c.width, -c.width})
        /\ p.precision = Max({c.precision, -1})
        /\ "-" \in p.flags <=> left
        /\ "0" \in p.flags <=> "0" \in c.flags /\ "-" \notin c.flags /\ c.precision < 0
        /\ " " \in p.flags <=> " " \in c.flags /\ "+" \notin c.flags
        /\ p.flags \cap {"+", "#", "'"} = c.flags \cap {"+", "#", "'"}

\* The number that digits stand for in a base; commas do not count.
RECURSIVE Denotes(_, _)
Denotes(s, base) ==
  IF s = <<>> THEN 0
  ELSE IF Last(s) = "," THEN Denotes(Front(s), base)
  ELSE base * Denotes(Front(s), base) + DigitOf[Last(s)]

\* The number that a field shows, with its sign and without its padding.
Shown(text, base) ==
  LET signed == text # <<>> /\ Head(text) \in {"-", "+"}
      n == Denotes(SelectSeq(IF signed THEN Tail(text) ELSE text,
                             LAMBDA ch : ch # "x"), base)
  IN  IF signed /\ Head(text) = "-" THEN -n ELSE n

\* An integer conversion shows its number: the digits and the sign stand for
\* the value of the argument in the argument's type, and the field is as wide
\* as asked, or as long as it must be.  (With the 0 flag and a negative width
\* from `*', the code pads twice.)
NumbersExact ==
  LET c == printed.parsed
      spec == printed.c.spec
      exact(value, out, bare) ==
        /\ Shown(SelectSeq(out, LAMBDA ch : ch # " "), integer_base(spec).base) = value
        /\ ~{"-", "0"} \subseteq c.flags => Len(out) = Max({c.width, Len(bare)})
        /\ Len(Buf(Max({value, -value}), integer_base(spec), c)) <= BufSize
  IN  Printed /\ spec \in {"d", "o", "u", "x"} =>
        exact(IF spec = "d" THEN Signed(c.type, printed.arg)
              ELSE Unsigned(c.type, printed.arg),
              Convert(spec, c, printed.arg),
              Convert(spec, [c EXCEPT !.width = 0], printed.arg))

\* A string conversion shows the string, cut to the precision, at the side
\* of the field that the - flag says; a character counts as such a string.
TextExact ==
  LET c == printed.parsed
      spec == printed.c.spec
      exact(text, out) ==
        /\ Len(out) = Max({c.width, Len(text)})
        /\ IF "-" \in c.flags THEN IsPrefix(text, out) ELSE IsSuffix(text, out)
        /\ Cardinality({i \in DOMAIN out : out[i] # " "}) = Len(text)
  IN  Printed /\ spec \in {"s", "c"} =>
        exact(IF spec = "c" THEN <<printed.arg>>
              ELSE IF c.precision < 0 THEN TextOf(printed.arg)
              ELSE SubSeq(TextOf(printed.arg), 1,
                          Min({c.precision, Len(TextOf(printed.arg))})),
              Convert(spec, c, printed.arg))

\* hex_dump() shows every byte once, at its place: line offset plus column
\* give the byte's offset, and no line is longer than PerLine columns.
DumpComplete ==
  printed = Dump => \A ofs \in 0..PerLine : \A size \in 0..2 * PerLine + 1 :
    LET lines == hex_dump(ofs, [i \in 1..size |-> i])
    IN  /\ \A l \in DOMAIN lines :
             /\ lines[l].ofs % PerLine = 0
             /\ lines[l].column + Len(lines[l].bytes) <= PerLine
        /\ \A i \in 1..size : \E l \in DOMAIN lines : \E k \in DOMAIN lines[l].bytes :
             /\ lines[l].bytes[k] = i
             /\ lines[l].ofs + lines[l].column + k - 1 = ofs + i - 1

\* stdio.c: what a format spells is read, and what it stands for is printed,
\* in as many characters as there is room for.
PrintingCorrect ==
  BufferBounded /\ ParsesBack /\ NumbersExact /\ TextExact /\ DumpComplete
=============================================================================
