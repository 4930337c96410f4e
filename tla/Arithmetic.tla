----------------------------- MODULE Arithmetic -----------------------------
(***************************************************************************)
(* The division of double words that GCC calls (lib/arithmetic.c), for     *)
(* words of W bits; W is 32 in the code.                                   *)
(***************************************************************************)
EXTENDS Integers

CONSTANT W  \* a power of 2

VARIABLE dividend  \* the double word that is divided; -1 before the first call

B == 2 ^ W
DoubleWord == 0..B * B - 1
Wrap(x) == x % (B * B)
Trap == -1  \* the divide error of the processor

\* The instruction: a double word by a word, with a quotient of one word.
divl(n, d) == IF d = 0 \/ n \div d >= B THEN Trap ELSE n \div d

\* The leading zeros of x, by halving: k is the number of bits tried next.
RECURSIVE Zeros(_, _)
Zeros(x, k) ==
  IF k = 0 THEN 0
  ELSE IF x < 2 ^ (W - k) THEN k + Zeros(x * 2 ^ k, k \div 2)
  ELSE Zeros(x, k \div 2)
nlz(x) == Zeros(x, W \div 2)

\* Bug variant: the estimate is not corrected.
udiv64_Estimate(n, d) ==
  IF d < B
    THEN LET q == divl(B * ((n \div B) % d) + (n % B), d)
         IN  IF q = Trap THEN Trap ELSE q + B * ((n \div B) \div d)
    ELSE IF n < d THEN 0
    ELSE LET s == nlz(d \div B)
             e == divl(n \div 2, Wrap(d * 2 ^ s) \div B)
         IN  IF e = Trap THEN Trap ELSE e \div 2 ^ (W - 1 - s)

udiv64(n, d) ==
  IF d < B
    THEN LET q == divl(B * ((n \div B) % d) + (n % B), d)
         IN  IF q = Trap THEN Trap ELSE q + B * ((n \div B) \div d)
    ELSE IF n < d THEN 0
    ELSE LET s == nlz(d \div B)
             e == divl(n \div 2, Wrap(d * 2 ^ s) \div B)
             q == e \div 2 ^ (W - 1 - s)
         IN  IF e = Trap THEN Trap
             ELSE IF Wrap(n - (q - 1) * d) < d THEN Wrap(q - 1) ELSE q

\* The remainder is returned as one word.
umod64(n, d) == Wrap(n - d * udiv64(n, d)) % B

\* Signed numbers in two's complement.
SignedDouble(x) == IF x >= (B * B) \div 2 THEN x - B * B ELSE x
SignedWord(x) == IF x >= B \div 2 THEN x - B ELSE x

\* The processor's negation wraps around.
sdiv64(n, d) ==
  LET abs(x) == Wrap(IF x >= 0 THEN x ELSE -x)
      q == udiv64(abs(n), abs(d))
  IN  IF (n < 0) = (d < 0) THEN SignedDouble(q) ELSE SignedDouble(Wrap(-q))

smod64(n, d) == SignedWord((n - d * sdiv64(n, d)) % B)

-----------------------------------------------------------------------------

ArithmeticInit == dividend = -1
ArithmeticNext == dividend' \in DoubleWord

\* Unsigned division is exact for every dividend and divisor, and never
\* traps; so is the remainder while it fits in the word that umod64() returns.
\* (A remainder of more than a word, which takes such a divisor, is cut off.)
UnsignedExact ==
  dividend >= 0 => \A d \in DoubleWord \ {0} :
    /\ udiv64(dividend, d) = dividend \div d
    /\ dividend % d < B => umod64(dividend, d) = dividend % d

\* Signed division rounds towards zero, except for the one quotient that
\* does not fit; the remainder belongs to that quotient and is right while
\* it fits in the word that smod64() returns.
SignedExact ==
  dividend >= 0 =>
  LET n == SignedDouble(dividend)
      abs(x) == IF x < 0 THEN -x ELSE x
  IN  \A d \in {SignedDouble(x) : x \in DoubleWord \ {0}} :
        LET q == abs(n) \div abs(d)
            quotient == IF (n < 0) = (d < 0) THEN q ELSE -q
            remainder == n - d * quotient
        IN  /\ q < (B * B) \div 2 \/ d # -1 => sdiv64(n, d) = quotient
            /\ abs(remainder) < B \div 2 => smod64(n, d) = remainder

\* arithmetic.c: division of double words by shifts and subtractions.
DivisionCorrect == UnsignedExact /\ SignedExact
=============================================================================
