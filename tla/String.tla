------------------------------- MODULE String -------------------------------
(***************************************************************************)
(* The string and memory functions of lib/string.c, on a memory m of       *)
(* characters.  An address is a number, a string is known by the address   *)
(* of its first character, and 0 ends it.                                  *)
(***************************************************************************)
EXTENDS Integers, SequencesExt, FiniteSetsExt

CONSTANTS
  MemSize,   \* the number of characters of memory
  Char       \* the characters other than '\0'

VARIABLES
  chars,     \* the memory
  save_ptr   \* where strtok_r() goes on; 0 if it has not been called

stringVars == <<chars, save_ptr>>

NUL == 0
NoPtr == 0
Address == DOMAIN chars
\* Whether the memory holds a string at s, or size bytes.
IsString(m, s) == \E p \in s..Len(m) : m[p] = NUL
Fits(p, size) == p + size - 1 <= Len(chars)

strlen(m, s) == Min({p \in s..Len(m) : m[p] = NUL}) - s

strnlen(m, s, maxlen) == Min({strlen(m, s), maxlen})

RECURSIVE memcpy(_, _, _, _)
memcpy(m, dst, src, size) ==
  IF size = 0 THEN m
  ELSE memcpy([m EXCEPT ![dst] = m[src]], dst + 1, src + 1, size - 1)

\* The loop that runs downwards.
RECURSIVE CopyDown(_, _, _, _)
CopyDown(m, dst, src, size) ==
  IF size = 0 THEN m
  ELSE CopyDown([m EXCEPT ![dst + size - 1] = m[src + size - 1]],
                dst, src, size - 1)

\* Bug variant: always upwards.
memmove_Up(m, dst, src, size) == memcpy(m, dst, src, size)

memmove(m, dst, src, size) ==
  IF dst < src THEN memcpy(m, dst, src, size) ELSE CopyDown(m, dst, src, size)

RECURSIVE memset(_, _, _, _)
memset(m, dst, value, size) ==
  IF size = 0 THEN m ELSE memset([m EXCEPT ![dst] = value], dst + 1, value, size - 1)

RECURSIVE memcmp(_, _, _, _)
memcmp(m, a, b, size) ==
  IF size = 0 THEN 0
  ELSE IF m[a] # m[b] THEN IF m[a] > m[b] THEN 1 ELSE -1
  ELSE memcmp(m, a + 1, b + 1, size - 1)

RECURSIVE strcmp(_, _, _)
strcmp(m, a, b) ==
  IF m[a] # NUL /\ m[a] = m[b] THEN strcmp(m, a + 1, b + 1)
  ELSE IF m[a] < m[b] THEN -1 ELSE IF m[a] > m[b] THEN 1 ELSE 0

RECURSIVE memchr(_, _, _, _)
memchr(m, block, ch, size) ==
  IF size = 0 THEN NoPtr
  ELSE IF m[block] = ch THEN block ELSE memchr(m, block + 1, ch, size - 1)

RECURSIVE strchr(_, _, _)
strchr(m, s, c) ==
  IF m[s] = c THEN s ELSE IF m[s] = NUL THEN NoPtr ELSE strchr(m, s + 1, c)

\* The length counted from `length' on.
RECURSIVE CSpan(_, _, _, _)
CSpan(m, s, stop, length) ==
  IF m[s + length] = NUL \/ strchr(m, stop, m[s + length]) # NoPtr THEN length
  ELSE CSpan(m, s, stop, length + 1)
strcspn(m, s, stop) == CSpan(m, s, stop, 0)

RECURSIVE Span(_, _, _, _)
Span(m, s, skip, length) ==
  IF m[s + length] = NUL \/ strchr(m, skip, m[s + length]) = NoPtr THEN length
  ELSE Span(m, s, skip, length + 1)
strspn(m, s, skip) == Span(m, s, skip, 0)

RECURSIVE strpbrk(_, _, _)
strpbrk(m, s, stop) ==
  IF m[s] = NUL THEN NoPtr
  ELSE IF strchr(m, stop, m[s]) # NoPtr THEN s ELSE strpbrk(m, s + 1, stop)

\* p is the last occurrence so far.
RECURSIVE LastFrom(_, _, _, _)
LastFrom(m, s, c, p) ==
  IF m[s] = NUL THEN p ELSE LastFrom(m, s + 1, c, IF m[s] = c THEN s ELSE p)
strrchr(m, s, c) == LastFrom(m, s, c, NoPtr)

strstr(m, haystack, needle) ==
  LET hl == strlen(m, haystack)
      nl == strlen(m, needle)
      found == {i \in 0..hl - nl : memcmp(m, haystack + i, needle, nl) = 0}
  IN  IF found = {} THEN NoPtr ELSE haystack + Min(found)

strlcpy(m, dst, src, size) ==
  LET src_len == strlen(m, src)
      dst_len == Min({size - 1, src_len})
  IN  [ret |-> src_len,
       m |-> IF size = 0 THEN m
             ELSE [memcpy(m, dst, src, dst_len) EXCEPT ![dst + dst_len] = NUL]]

strlcat(m, dst, src, size) ==
  LET src_len == strlen(m, src)
      dst_len == strlen(m, dst)
      copy_cnt == Min({size - dst_len - 1, src_len})
  IN  [ret |-> src_len + dst_len,
       m |-> IF size = 0 \/ dst_len >= size THEN m
             ELSE [memcpy(m, dst + dst_len, src, copy_cnt)
                     EXCEPT ![dst + dst_len + copy_cnt] = NUL]]

\* s is the string, or where the last call stopped; the delimiters are a
\* string too.
strtok_r(m, s, delimiters) ==
  LET token == s + strspn(m, s, delimiters)
      end == token + strcspn(m, token, delimiters)
  IN  IF m[token] = NUL THEN [ret |-> NoPtr, m |-> m, save |-> token]
      ELSE IF m[end] # NUL
      THEN [ret |-> token, m |-> [m EXCEPT ![end] = NUL], save |-> end + 1]
      ELSE [ret |-> token, m |-> m, save |-> end]

-----------------------------------------------------------------------------
(* The machine: calls that change the memory.                              *)

StringInit == chars \in [1..MemSize -> Char \cup {NUL}] /\ save_ptr = NoPtr

StringCopy(dst, src, size) ==
  /\ Fits(dst, size) /\ Fits(src, size)
  /\ chars' = memmove(chars, dst, src, size)
  /\ UNCHANGED save_ptr

StringFill(dst, c, size) ==
  /\ Fits(dst, size)
  /\ chars' = memset(chars, dst, c, size)
  /\ UNCHANGED save_ptr

Terminated(s, t) == IsString(chars, s) /\ IsString(chars, t)
\* src's characters, with the terminator, lie apart from the destination.
Apart(dst, src, size) ==
  dst..dst + size - 1 \cap src..src + strlen(chars, src) = {}

StringConcat(dst, src, size) ==
  /\ Fits(dst, size) /\ Terminated(dst, src) /\ Apart(dst, src, size)
  /\ \/ chars' = strlcpy(chars, dst, src, size).m
     \/ chars' = strlcat(chars, dst, src, size).m
  /\ UNCHANGED save_ptr

\* The first call names s, a later one goes on at save_ptr.
StringTok(s, delimiters) ==
  /\ Terminated(s, delimiters)
  /\ s + strlen(chars, s) < delimiters \/ delimiters + strlen(chars, delimiters) < s
  /\ LET tok == strtok_r(chars, s, delimiters)
     IN  chars' = tok.m /\ save_ptr' = tok.save

\* The memory does not change otherwise while strtok_r() walks a string.
StringNext ==
  \E p, q \in Address :
    \/ save_ptr = NoPtr /\ \E size \in 0..Len(chars) :
         \/ StringCopy(p, q, size)
         \/ StringConcat(p, q, size)
         \/ \E c \in Char \cup {NUL} : StringFill(p, c, size)
    \/ StringTok(p, q)
    \/ save_ptr # NoPtr /\ StringTok(save_ptr, q)

-----------------------------------------------------------------------------
(* Properties.                                                             *)

\* The memory with the size characters from dst replaced by those of s.
Put(dst, s) ==
  [p \in Address |-> IF p - dst + 1 \in DOMAIN s THEN s[p - dst + 1] ELSE chars[p]]
Block(p, size) == SubSeq(chars, p, p + size - 1)
Text(m, s) == SubSeq(m, s, s + strlen(m, s) - 1)
Take(s, n) == SubSeq(s, 1, Min({n, Len(s)}))

\* memmove() copies what was there before the call, however the blocks
\* overlap, memcpy() does when they do not, and memset() fills; none of them
\* touches another byte.
CopiesExact ==
  \A dst, src \in Address : \A size \in 0..Len(chars) :
    Fits(dst, size) /\ Fits(src, size) =>
      /\ memmove(chars, dst, src, size) = Put(dst, Block(src, size))
      /\ (dst..dst + size - 1) \cap (src..src + size - 1) = {} =>
           memcpy(chars, dst, src, size) = Put(dst, Block(src, size))
      /\ memset(chars, dst, NUL, size) = Put(dst, [i \in 1..size |-> NUL])

\* strlcpy() and strlcat() leave a terminated string of at most size - 1
\* characters, cut only if it had to be, return the length it would have had,
\* and write nothing past dst + size - 1.
ConcatBounded ==
  \A dst, src \in Address : \A size \in 1..Len(chars) :
    Fits(dst, size) /\ Terminated(dst, src) /\ Apart(dst, src, size) =>
      LET s == Text(chars, src)
          d == Text(chars, dst)
          cpy == strlcpy(chars, dst, src, size)
          cat == strlcat(chars, dst, src, size)
          both == d \o s
      IN  /\ cpy = [ret |-> Len(s), m |-> Put(dst, Take(s, size - 1) \o <<NUL>>)]
          /\ cat = [ret |-> Len(both),
                    m |-> IF Len(d) >= size THEN chars
                          ELSE Put(dst, Take(both, size - 1) \o <<NUL>>)]

\* The first index of a sequence whose element is in set S, as an address.
FirstIn(at, s, S) ==
  LET found == {i \in DOMAIN s : s[i] \in S}
  IN  IF found = {} THEN NoPtr ELSE at + Min(found) - 1

\* The searching and comparing functions return what string.c says of each:
\* first and last occurrences, spans, substrings and the lexical order.
SearchesAgree ==
  \A p, q \in Address :
    Terminated(p, q) =>
      LET a == Text(chars, p)
          b == Text(chars, q)
          span == {n \in 0..Len(a) : \A i \in 1..n : a[i] \in Range(b)}
          cspan == {n \in 0..Len(a) : \A i \in 1..n : a[i] \notin Range(b)}
          subs == {i \in 1..Len(a) + 1 : IsPrefix(b, SubSeq(a, i, Len(a)))}
          differ == {i \in 1..Min({Len(a), Len(b)}) + 1 :
                       Append(a, NUL)[i] # Append(b, NUL)[i]}
      IN  /\ strspn(chars, p, q) = Max(span)
          /\ strcspn(chars, p, q) = Max(cspan)
          /\ strpbrk(chars, p, q) = FirstIn(p, a, Range(b))
          /\ strstr(chars, p, q) = IF subs = {} THEN NoPtr ELSE p + Min(subs) - 1
          /\ IF differ = {} THEN strcmp(chars, p, q) = 0
             ELSE LET i == Min(differ)
                  IN  strcmp(chars, p, q) =
                        IF Append(a, NUL)[i] < Append(b, NUL)[i] THEN -1 ELSE 1
          /\ \A c \in Char \cup {NUL} :
               /\ strchr(chars, p, c) = FirstIn(p, Append(a, NUL), {c})
               /\ \A n \in 0..Len(a) : memchr(chars, p, c, n) = FirstIn(p, Take(a, n), {c})
               /\ LET last == {i \in DOMAIN a : a[i] = c}
                  IN  strrchr(chars, p, c) =
                        IF last = {} THEN NoPtr ELSE p + Max(last) - 1

\* The tokens that repeated calls return.
RECURSIVE Tokens(_, _, _)
Tokens(m, s, delimiters) ==
  LET tok == strtok_r(m, s, delimiters)
  IN  IF tok.ret = NoPtr THEN <<>>
      ELSE <<Text(tok.m, tok.ret)>> \o Tokens(tok.m, tok.save, delimiters)

\* strtok_r() returns the maximal pieces without delimiters, in order, none
\* empty, and no other character of the string is lost.
TokensSplit ==
  \A p, q \in Address :
    Terminated(p, q) /\ p + strlen(chars, p) < q =>
      LET a == Text(chars, p)
          d == Range(Text(chars, q))
          starts == {i \in DOMAIN a : a[i] \notin d /\ (i = 1 \/ a[i - 1] \in d)}
          piece(i) == SubSeq(a, i, Min({j \in i..Len(a) + 1 :
                                          Append(a, NUL)[j] \in d \cup {NUL}}) - 1)
          order == SetToSortSeq(starts, <)
      IN  Tokens(chars, p, q) = [k \in DOMAIN order |-> piece(order[k])]

\* string.c: for every memory and all arguments, also blocks that overlap.
StringsCorrect == CopiesExact /\ ConcatBounded /\ SearchesAgree /\ TokensSplit
=============================================================================
