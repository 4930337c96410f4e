------------------------------- MODULE Stdlib -------------------------------
(***************************************************************************)
(* The algorithms of lib/stdlib.c: atoi(), the heap sort behind qsort()    *)
(* and the binary search behind bsearch(); and the classes of characters   *)
(* of lib/ctype.h that the library uses.  An array is a sequence, an       *)
(* element its key, a character a string of length 1.                      *)
(***************************************************************************)
EXTENDS Integers, SequencesExt, FiniteSetsExt

CONSTANTS
  Num,         \* the keys of array elements
  MaxCnt,      \* bound on the length of arrays
  TextChar,    \* the characters of numbers
  MaxText,     \* bound on the length of numbers
  INT_MAX      \* an int is in -INT_MAX - 1..INT_MAX

VARIABLES
  array,       \* the array
  sorted_from, \* the array that sort() was given last, <<>> if none
  numeral      \* the string that atoi() reads

stdlibVars == <<array, sorted_from, numeral>>

\* The digits, and their values.
DigitChar == <<"0", "1", "2", "3", "4", "5", "6", "7", "8", "9",
               "a", "b", "c", "d", "e", "f">>
DigitOf == [c \in Range(DigitChar) |->
              CHOOSE d \in 0..15 : DigitChar[d + 1] = c]

isdigit(c) == c \in Range(SubSeq(DigitChar, 1, 10))
isspace(c) == c = " "

\* Undefined behaviour: an int that does not fit.
Undefined == INT_MAX + 1
int(x) == IF x \in -INT_MAX - 1..INT_MAX THEN x ELSE Undefined

RECURSIVE SkipSpaces(_)
SkipSpaces(s) == IF s # <<>> /\ isspace(Head(s)) THEN SkipSpaces(Tail(s)) ELSE s

\* Bug variant: the value is collected as a positive number.
RECURSIVE Digits_Positive(_, _)
Digits_Positive(s, value) ==
  IF value = Undefined THEN value
  ELSE IF s = <<>> \/ ~isdigit(Head(s)) THEN -value
  ELSE Digits_Positive(Tail(s), int(value * 10 + DigitOf[Head(s)]))

\* The digits at the start of s, taken as a negative number.
RECURSIVE Digits(_, _)
Digits(s, value) ==
  IF s = <<>> \/ value = Undefined THEN value
  ELSE IF ~isdigit(Head(s)) THEN value
  ELSE Digits(Tail(s), int(value * 10 - DigitOf[Head(s)]))

atoi(s) ==
  LET t == SkipSpaces(s)
      sign == t # <<>> /\ Head(t) \in {"+", "-"}
      negative == sign /\ Head(t) = "-"
      value == Digits(IF sign THEN Tail(t) ELSE t, 0)
  IN  IF value = Undefined \/ negative THEN value ELSE int(-value)

-----------------------------------------------------------------------------

do_swap(a, i, j) == [a EXCEPT ![i] = a[j], ![j] = a[i]]
do_compare(a, i, j) == a[i] - a[j]

RECURSIVE heapify(_, _, _)
heapify(a, i, cnt) ==
  LET left == 2 * i
      right == 2 * i + 1
      m == IF left <= cnt /\ do_compare(a, left, i) > 0 THEN left ELSE i
      max == IF right <= cnt /\ do_compare(a, right, m) > 0 THEN right ELSE m
  IN  IF max = i THEN a ELSE heapify(do_swap(a, i, max), max, cnt)

\* sort(), which qsort() calls: build a heap, then take its maximum away.
sort(a) ==
  LET heap == FoldLeft(LAMBDA b, i : heapify(b, i, Len(a)), a,
                       SetToSortSeq(1..Len(a) \div 2, >))
  IN  FoldLeft(LAMBDA b, i : heapify(do_swap(b, 1, i), 1, i - 1), heap,
               SetToSortSeq(2..Len(a), >))

\* The elements from first up to last, exclusive, remain.
RECURSIVE Search(_, _, _, _)
Search(a, key, first, last) ==
  LET middle == first + (last - first) \div 2
  IN  IF first >= last THEN 0
      ELSE IF key < a[middle] THEN Search(a, key, first, middle)
      ELSE IF key > a[middle] THEN Search(a, key, middle + 1, last)
      ELSE middle

\* binary_search(), which bsearch() calls: the index of a match, or 0.
binary_search(a, key) == Search(a, key, 1, Len(a) + 1)

-----------------------------------------------------------------------------

StdlibInit ==
  \/ array \in BoundedSeq(Num, MaxCnt) /\ sorted_from = <<>> /\ numeral = <<>>
  \/ array = <<>> /\ sorted_from = <<>> /\ numeral \in BoundedSeq(TextChar, MaxText)

\* qsort()
StdlibNext ==
  /\ sorted_from = <<>>
  /\ array' = sort(array)
  /\ sorted_from' = array
  /\ UNCHANGED numeral

\* sort() leaves the elements it was given, each as often as before, in
\* ascending order.
SortSorts ==
  sorted_from # <<>> =>
    /\ \A n \in Num : Cardinality({i \in DOMAIN array : array[i] = n}) =
                      Cardinality({i \in DOMAIN sorted_from : sorted_from[i] = n})
    /\ \A i \in 2..Len(array) : array[i - 1] <= array[i]

\* binary_search() finds a key of a sorted array exactly if it is there.
SearchFinds ==
  (\A i \in 2..Len(array) : array[i - 1] <= array[i]) =>
    \A key \in Num :
      LET at == binary_search(array, key)
      IN  IF key \in Range(array) THEN at \in DOMAIN array /\ array[at] = key
          ELSE at = 0

\* The number that a string of spaces, a sign and digits stands for.
RECURSIVE Denoted(_)
Denoted(s) ==
  IF s = <<>> THEN 0 ELSE 10 * Denoted(Front(s)) + DigitOf[Last(s)]

\* atoi() returns every number that an int can hold, the least one too,
\* without an overflow on the way, and stops at the first other character.
AtoiExact ==
  LET digits == SelectSeq(numeral, isdigit)
      before == Len(numeral) - Len(digits)
      plain == /\ before \in 0..2
               /\ SubSeq(numeral, before + 1, Len(numeral)) = digits
               /\ SubSeq(numeral, 1, before) \in
                    {<<>>, <<"-">>, <<"+">>, <<" ">>, <<" ", "-">>, <<" ", " ">>}
      n == IF "-" \in Range(numeral) THEN -Denoted(digits) ELSE Denoted(digits)
  IN  /\ plain /\ int(n) = n /\ n # Undefined => atoi(numeral) = n
      /\ \A i \in DOMAIN numeral :
           i > 1 /\ isdigit(numeral[i - 1]) /\ ~isdigit(numeral[i]) =>
             atoi(numeral) = atoi(SubSeq(numeral, 1, i - 1))

\* stdlib.c: the heap sort, the binary search and atoi().
StdlibCorrect == SortSorts /\ SearchFinds /\ AtoiExact
=============================================================================
