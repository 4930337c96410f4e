-------------------------------- MODULE Vga ---------------------------------
(***************************************************************************)
(* The text display (devices/vga.c).  vga_putc() runs with interrupts off, *)
(* but for the beep: while it sleeps there, an interrupt handler may print *)
(* too.  A row is a sequence of characters; the attribute is always the    *)
(* same.                                                                   *)
(***************************************************************************)
EXTENDS Integers, Sequences

CONSTANTS
  COL_CNT, ROW_CNT,
  TAB,        \* the width of a tab: 8 in the code
  Glyph,      \* the characters that are not control characters
  OldRows,    \* what may be on the screen at the start
  MaxRows     \* bound on the rows that are printed

VARIABLES
  fb,         \* the frame buffer: ROW_CNT rows
  cx, cy,
  cursor,     \* the two bytes of the hardware cursor
  inited,
  beeping,    \* a vga_putc() is in speaker_beep()
  paper,      \* every row since the last '\f', as on a roll of paper
  line        \* the row of the paper that is being written

vgaVars == <<fb, cx, cy, cursor, inited, beeping, paper, line>>

blank == " "
empty_row == [x \in 1..COL_CNT |-> blank]
empty_fb == [y \in 1..ROW_CNT |-> empty_row]

bytes_of(x, y) == <<(x + COL_CNT * y) \div 256, (x + COL_CNT * y) % 256>>

VgaInit ==
  /\ fb \in [1..ROW_CNT -> OldRows]
  /\ cursor \in {bytes_of(x, y) : x \in 0..COL_CNT - 1, y \in 0..ROW_CNT - 1}
  /\ cx = 0 /\ cy = 0 /\ inited = FALSE /\ beeping = FALSE
  /\ paper = fb /\ line = 0

\* init() and find_cursor(): the cursor stays where the loader left it.
find_cursor == 256 * cursor[1] + cursor[2]
start_x == IF inited THEN cx ELSE find_cursor % COL_CNT
start_y == IF inited THEN cy ELSE find_cursor \div COL_CNT
start_line == IF inited THEN line ELSE start_y + 1

\* Bug variant: the last row is not cleared after it has moved up.
newline_Keep(f, x, y) ==
  IF y + 1 < ROW_CNT THEN <<f, 0, y + 1>>
  ELSE <<[r \in 1..ROW_CNT |-> IF r < ROW_CNT THEN f[r + 1] ELSE f[r]], 0, ROW_CNT - 1>>

\* newline(): the frame buffer and the cursor afterwards.
newline(f, x, y) ==
  IF y + 1 < ROW_CNT THEN <<f, 0, y + 1>>
  ELSE <<[r \in 1..ROW_CNT |-> IF r < ROW_CNT THEN f[r + 1] ELSE empty_row], 0, ROW_CNT - 1>>

round_up(x) == ((x + TAB - 1) \div TAB) * TAB

\* The switch of vga_putc() without '\a'.
display(c, f, x, y) ==
  CASE c = "lf" -> newline(f, x, y)
    [] c = "ff" -> <<empty_fb, 0, 0>>
    [] c = "bs" -> <<f, IF x > 0 THEN x - 1 ELSE x, y>>
    [] c = "cr" -> <<f, 0, y>>
    [] c = "tab" -> LET t == round_up(x + 1)
                   IN  IF t >= COL_CNT THEN newline(f, t, y) ELSE <<f, t, y>>
    [] c \in Glyph ->
         LET g == [f EXCEPT ![y + 1][x + 1] = c]
         IN  IF x + 1 >= COL_CNT THEN newline(g, x + 1, y) ELSE <<g, x + 1, y>>

\* The same on the roll of paper, which only ever grows: a row ends when it is
\* full, and at the row's end a tab does nothing but end it.
ends_row(c, x) ==
  \/ c = "lf"
  \/ c \in Glyph /\ x + 1 = COL_CNT
  \/ c = "tab" /\ ~\E t \in x + 1..COL_CNT - 1 : t % TAB = 0
written(c, x, l) == IF c \in Glyph THEN [paper EXCEPT ![l][x + 1] = c] ELSE paper
on_paper(c) ==
  LET l == start_line
      rows == written(c, start_x, l)
  IN  IF c = "ff" THEN paper' = empty_fb /\ line' = 1
      ELSE IF ends_row(c, start_x)
        THEN /\ line' = l + 1
             /\ paper' = IF l = Len(rows) THEN Append(rows, empty_row) ELSE rows
        ELSE paper' = rows /\ line' = l

move_cursor(x, y) == cursor' = bytes_of(x, y)

\* vga_putc (c)
vga_putc(c) ==
  LET d == display(c, fb, start_x, start_y)
  IN  /\ start_line < MaxRows
      /\ fb' = d[1] /\ cx' = d[2] /\ cy' = d[3]
      /\ move_cursor(d[2], d[3])
      /\ inited' = TRUE
      /\ on_paper(c)
      /\ UNCHANGED beeping

\* vga_putc ('\a'): interrupts are on during speaker_beep() ...
beep_begins ==
  /\ ~beeping
  /\ beeping' = TRUE /\ inited' = TRUE
  /\ cx' = start_x /\ cy' = start_y /\ line' = start_line
  /\ UNCHANGED <<fb, cursor, paper>>

\* ... and the cursor is moved to where it then is.
beep_ends ==
  /\ beeping
  /\ beeping' = FALSE
  /\ move_cursor(cx, cy)
  /\ UNCHANGED <<fb, cx, cy, inited, paper, line>>

VgaNext ==
  \/ \E c \in Glyph \cup {"lf", "ff", "bs", "cr", "tab"} : vga_putc(c)
  \/ beep_begins \/ beep_ends

\* The screen shows the last rows of all that was printed, the cursor is in
\* the row that is being written, and it never leaves the screen, so that no
\* character is written past the frame buffer.
ScreenShowsTail ==
  inited =>
    LET top == Len(paper) - ROW_CNT
    IN  /\ \A y \in 1..ROW_CNT : fb[y] = paper[top + y]
        /\ line = top + cy + 1
        /\ cx \in 0..COL_CNT - 1 /\ cy \in 0..ROW_CNT - 1

\* Between two calls the hardware cursor is where the next character goes.
CursorShown == inited => cursor = bytes_of(cx, cy)

\* vga.c: between two calls the screen and its cursor show what was printed.
ScreenCorrect == ScreenShowsTail /\ CursorShown
=============================================================================
