----------------------------- MODULE Utf8Strings -----------------------------
(***************************************************************************)
(* Strings of bytes and of UTF-8 characters (xml_string.c), and the buffer *)
(* that collects one (xml_buf.c).                                          *)
(*                                                                         *)
(* A string is the sequence of its bytes before the terminating 0; what is *)
(* read behind its end is 0.  A pointer into a string is a position; 0 is  *)
(* NULL.                                                                   *)
(***************************************************************************)
EXTENDS Integers, Sequences, FiniteSets, SequencesExt, FiniteSetsExt

CONSTANTS
  BASE_BUFFER_SIZE,  \* the size of a new buffer
  RESIZE_SLACK       \* what a buffer is made larger than asked for

NoPointer == 0

ByteAt(s, i) == IF i \in DOMAIN s THEN s[i] ELSE 0

From(s, i) == SubSeq(s, i, Len(s))

IsBlank(b) == b \in {9, 10, 13, 32}

-----------------------------------------------------------------------------
(* Bytes.                                                                  *)

\* The difference of the first bytes that differ, of the first n at most.
Strncmp(s, t, n) ==
  LET differ == {k \in 1 .. n : ByteAt(s, k) # ByteAt(t, k)}
  IN IF differ = {} THEN 0 ELSE ByteAt(s, Min(differ)) - ByteAt(t, Min(differ))

StrEqual(s, t) == Strncmp(s, t, Len(s) + 1) = 0

\* The first place of t in s, the start if t is empty.
Strstr(s, t) ==
  LET at == {i \in DOMAIN s : s[i] = t[1] /\ Strncmp(From(s, i), t, Len(t)) = 0}
  IN IF t = <<>> THEN 1 ELSE IF at = {} THEN NoPointer ELSE Min(at)

Strndup(s, i, n) == SubSeq(s, i, i + n - 1)

Strcat(s, t) == s \o t

-----------------------------------------------------------------------------
(* Characters.  A first byte has as many leading ones as the character has *)
(* bytes; the bytes after it have one.                                     *)

LeadingOnes(b) == Cardinality({k \in 1 .. 8 : b >= 256 - 2 ^ (8 - k)})

IsTail(b) == LeadingOnes(b) = 1

\* Behind the character at i, NoPointer at the end and where it is malformed.
AfterChar(s, i) ==
  LET ones == LeadingOnes(ByteAt(s, i))
  IN IF ByteAt(s, i) = 0 \/ ones = 1 THEN NoPointer
     ELSE IF ones = 0 THEN i + 1
     ELSE IF \A k \in 1 .. ones - 1 : IsTail(ByteAt(s, i + k)) THEN i + ones
     ELSE NoPointer

\* Behind the first pos characters, NoPointer if there are fewer.
UTF8Strpos(s, pos) ==
  LET after[n \in 0 .. pos] ==
        IF n = 0 THEN 1
        ELSE IF after[n - 1] = NoPointer THEN NoPointer
        ELSE AfterChar(s, after[n - 1])
  IN after[pos]

\* The number of characters, -1 if bytes behind a first byte are missing or a first
\* byte has more than four leading ones.
UTF8Strlen(s) ==
  LET bytes(b) == IF b < 128 THEN 1 ELSE Max({LeadingOnes(b), 2})
      sound(i) == bytes(s[i]) <= 4 /\ \A k \in 1 .. bytes(s[i]) - 1 : IsTail(ByteAt(s, i + k))
      count[i \in 1 .. Len(s) + 1] ==
        IF i > Len(s) THEN 0
        ELSE IF ~sound(i) THEN -1
        ELSE LET rest == count[i + bytes(s[i])] IN IF rest < 0 THEN -1 ELSE rest + 1
  IN count[1]

\* How many bytes the n characters at i have, up to the end of the string.
UTF8Strsize(s, i, n) ==
  LET end[k \in 0 .. Len(s)] ==
        IF k = 0 THEN i
        ELSE LET at == end[k - 1] IN
             IF at > Len(s) THEN at
             ELSE Min({at + Max({LeadingOnes(s[at]), 1}), Len(s) + 1})
  IN end[Min({n, Len(s)})] - i

UTF8Strndup(s, i, n) == Strndup(s, i, UTF8Strsize(s, i, n))

\* The index of the first character that is the one at i of t, counted from 0, or -1.
UTF8Strloc(s, t, i) ==
  LET size == UTF8Strsize(t, i, 1)
      at(n) == UTF8Strpos(s, n)
      found == {n \in 0 .. Len(s) - 1 :
                  at(n) # NoPointer /\ ByteAt(s, at(n)) # 0
                    /\ Strncmp(From(s, at(n)), From(t, i), size) = 0}
  IN IF found = {} THEN -1 ELSE Min(found)

\* Up to n characters behind the first start ones; none for NULL, if there are fewer.
UTF8Strsub(s, start, n) ==
  LET at == UTF8Strpos(s, start)
  IN IF at = NoPointer THEN {} ELSE {UTF8Strndup(s, at, n)}

-----------------------------------------------------------------------------
(* Buffers, of the allocation scheme EXACT, the default.                   *)

BufCreate == [content |-> <<>>, size |-> BASE_BUFFER_SIZE, over |-> FALSE]

BufResize(buf, size) ==
  IF size < buf.size THEN buf ELSE [buf EXCEPT !.size = size + RESIZE_SLACK]

\* Room for n bytes and the 0 behind them; ghost: whether they were written past it.
BufAdd(buf, s, i, n) ==
  LET use == Len(buf.content)
      grown == IF n >= buf.size - use THEN BufResize(buf, use + n + 1) ELSE buf
  IN IF n = 0 THEN buf
     ELSE [grown EXCEPT !.content = @ \o Strndup(s, i, n),
                        !.over = @ \/ use + n >= grown.size]

\* The content, if the buffer was not written past its end.
BufContent(buf) == IF buf.over THEN {} ELSE {buf.content}
=============================================================================
