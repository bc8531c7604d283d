-------------------------------- MODULE Utf8 --------------------------------
(* UTF-8 as screen reads, writes and stores it (encoding.c): the decoder    *)
(* FromUtf8, byte by byte on its 32-bit state, the encoder ToUtf8, and the  *)
(* table of combined characters that utf8_handle_comb keeps, where a        *)
(* character with an accent is an entry of its own and old entries are used *)
(* again when the table is full.                                            *)
EXTENDS Integers, FiniteSets, FiniteSetsExt, SequencesExt, Bitwise

CONSTANTS
  Bytes,    \* bytes that may come
  Narrow,   \* base characters, one column wide
  Broad,    \* base characters, two columns wide
  Accents,  \* combining characters
  Ids,      \* entries of the table for narrow characters (0x000 to 0x6ff)
  BroadIds  \* and for wide ones (0x700 to 0x7ff)

VARIABLES
  state,  \* the decoder's state, a word; Idle between characters
  seq,    \* history: the bytes of the character at hand
  out,    \* what FromUtf8 returned last
  comb,   \* the entries in use: base and accent of each
  ring    \* the entries of a width, the one used last in front

decoder == <<state, seq, out>>
table == <<comb, ring>>

\* A 32-bit word is a pair of halves.
Idle == <<0, 0>>
More == -1    \* need more bytes
Again == -2   \* corrupt sequence, redo the last byte
REPL == 65533 \* UCS_REPL

Word(n) == <<n \div 65536, n % 65536>>
Number(w) == w[1] * 65536 + w[2]
\* (w << 6) | b
Shifted(w, b) == <<((w[1] * 64) + (w[2] \div 1024)) % 65536, ((w[2] * 64) % 65536) + b>>
Masked(w, m, v) == w[1] & m[1] = v[1] /\ w[2] & m[2] = v[2]

\* mutant: the test for four bytes is off by a bit.
NoOverlong_four(w) ==
  CASE Masked(w, <<\h8208, \h23e0>>, <<\h8000, 0>>) -> <<\hfdff, \hffff>>
    [] Masked(w, <<\h0208, \h21f8>>, <<\h0200, 0>>) -> <<\hfff7, \hffff>>
    [] Masked(w, <<\h0008, \h20f8>>, <<\h0008, 0>>) -> <<\hffff, \hd000>>
    [] Masked(w, <<0, \h207c>>, <<0, \h2000>>) -> <<\hffff, \hff70>>
    [] OTHER -> w
\* A sequence found overlong goes on to its announced length as something that
\* becomes illegal at its last byte.
NoOverlong(w) ==
  CASE Masked(w, <<\h8208, \h23e0>>, <<\h8000, 0>>) -> <<\hfdff, \hffff>>
    [] Masked(w, <<\h0208, \h21f0>>, <<\h0200, 0>>) -> <<\hfff7, \hffff>>
    [] Masked(w, <<\h0008, \h20f8>>, <<\h0008, 0>>) -> <<\hffff, \hd000>>
    [] Masked(w, <<0, \h207c>>, <<0, \h2000>>) -> <<\hffff, \hff70>>
    [] OTHER -> w
Continued(w, c) ==
  IF (w[1] \div 16384) % 2 = 0 THEN NoOverlong(Shifted(w, c % 64)) ELSE Shifted(w, c % 64)
Begun(c) ==
  CASE c >= 254 -> Word(REPL)
    [] c \in 252..253 -> <<\hbfff, \hfffc + (c % 2)>>
    [] c \in 248..251 -> <<\hbfff, \hff00 + (c % 4)>>
    [] c \in 240..247 -> <<\hbfff, \hc000 + (c % 8)>>
    [] c \in 224..239 -> <<\hbff0, c % 16>>
    [] c \in 194..223 -> <<\hfc00, c % 32>>
    [] c \in 192..193 -> <<\hfdff, \hffff>>
    [] c \in 128..191 -> Word(REPL)
    [] c < 128 -> Word(c)

Negative(w) == w[1] >= 32768
Legal(w) ==
  IF w[1] & \hff80 # 0 THEN REPL
  ELSE IF Number(w) \in (\hd800..\hdfff) \cup {\hfffe, \hffff} THEN REPL ELSE Number(w)
Continuation(c) == c \in 128..191
FromUtf8(c) ==
  IF state # Idle /\ ~Continuation(c) THEN state' = Idle /\ out' = Again /\ seq' = seq
  ELSE LET w == IF state = Idle THEN Begun(c) ELSE Continued(state, c) IN
       /\ state' = IF Negative(w) THEN w ELSE Idle
       /\ out' = IF Negative(w) THEN More ELSE Legal(w)
       /\ seq' = IF out = More THEN Append(seq, c) ELSE <<c>>

\* The bytes of a code point (the bits of the test for more bytes are left in
\* and turned over by the next step).
ToUtf8(n) ==
  LET four == n >= \h10000
      c4 == IF four THEN (n % \h40000) ^^ \h60000 ELSE n
      three == c4 >= \h800
      c3 == IF three THEN (c4 % \h1000) + \h1000 ELSE c4
      two == c3 >= \h80
      c2 == IF two THEN (c3 % 64) + 128 ELSE c3 IN
  (IF four THEN <<((n \div \h40000) % 128) ^^ \hf0>> ELSE <<>>)
  \o (IF three THEN <<((c4 \div \h1000) % 128) ^^ \he0>> ELSE <<>>)
  \o (IF two THEN <<((c3 \div 64) % 128) ^^ \hc0>> ELSE <<>>) \o <<c2>>

-----------------------------------------------------------------------------
(* Combined characters.  A character is a base or the entry that stands for  *)
(* one with accents.                                                         *)
Entries == Ids \cup BroadIds
RingOf(i) == IF i \in BroadIds THEN "broad" ELSE "narrow"
Width(c) == IF c \in Broad \cup BroadIds THEN "broad" ELSE "narrow"
RoomOf(width) == IF width = "broad" THEN BroadIds ELSE Ids

\* An entry used goes in front, and then the one it is built on, and so on.
InFront(r, i) == [r EXCEPT ![RingOf(i)] = <<i>> \o SelectSeq(@, LAMBDA j : j # i)]
\* mutant: the entries it is built on stay where they are.
comb_tofront_own(r, t, i) == InFront(r, i)
RECURSIVE comb_tofront(_, _, _)
comb_tofront(r, t, i) ==
  LET base == t[i][1] IN
  IF base \in Entries THEN comb_tofront(InFront(r, i), t, base) ELSE InFront(r, i)

Used(width) == {i \in RoomOf(width) : i \in DOMAIN comb}
Enter(t, i, pair) == [j \in DOMAIN t \cup {i} |-> IF j = i THEN pair ELSE t[j]]
\* When the table is full the entry used longest ago is taken, unless it is
\* the very character the accent belongs on.
Refreshed(c1) == IF c1 \in Entries THEN comb_tofront(ring, comb, c1) ELSE ring
Oldest(c1) == Last(Refreshed(c1)[Width(c1)])
utf8_handle_comb(c, c1) ==
  LET width == Width(c1)
      same == {i \in Used(width) : comb[i] = <<c1, c>>}
      free == RoomOf(width) \ DOMAIN comb
      Take(i) == comb' = Enter(comb, i, <<c1, c>>) /\ ring' = comb_tofront(ring, comb', i) IN
  CASE same # {} -> Take(Min(same))
    [] same = {} /\ free # {} -> Take(Min(free))
    [] same = {} /\ free = {} ->
        IF Oldest(c1) = c1 THEN comb' = comb /\ ring' = Refreshed(c1)
        ELSE \E i \in {Oldest(c1)} :
               comb' = Enter(comb, i, <<c1, c>>) /\ ring' = comb_tofront(Refreshed(c1), comb', i)

-----------------------------------------------------------------------------
Init == state = Idle /\ seq = <<>> /\ out = 0 /\ comb = [i \in {} |-> <<>>] /\ ring = [w \in {"narrow", "broad"} |-> <<>>]

Decode == (\E c \in Bytes : FromUtf8(c)) /\ UNCHANGED table
Combine == (\E c \in Accents, c1 \in Narrow \cup Broad \cup DOMAIN comb : utf8_handle_comb(c, c1)) /\ UNCHANGED decoder

Next == Decode \/ Combine

Spec == Init /\ [][Next]_<<decoder, table>>

-----------------------------------------------------------------------------
\* How many bytes the first one announces, and the least value they may have.
Announced(c) == CASE c \in 192..223 -> 2 [] c \in 224..239 -> 3 [] c \in 240..247 -> 4 [] c \in 248..251 -> 5
                  [] c \in 252..253 -> 6 [] OTHER -> 1
LeastOf(n) == CASE n = 1 -> 0 [] n = 2 -> \h80 [] n = 3 -> \h800 [] n = 4 -> \h10000 [] n = 5 -> \h200000 [] n = 6 -> \h4000000
LeadBits(c) == CASE Announced(c) = 2 -> c % 32 [] Announced(c) = 3 -> c % 16 [] Announced(c) = 4 -> c % 8
                 [] Announced(c) = 5 -> c % 4 [] Announced(c) = 6 -> c % 2 [] OTHER -> c
ValueOf(s) == FoldLeft(LAMBDA v, b : v * 64 + (b % 64), LeadBits(s[1]), Tail(s))
Illegal(s) ==
  \/ Announced(s[1]) = 1 /\ s[1] >= 128
  \/ ValueOf(s) < LeastOf(Len(s)) \/ ValueOf(s) >= \h200000
  \/ ValueOf(s) \in (\hd800..\hdfff) \cup {\hfffe, \hffff}
\* Values of 22 and 23 bits, which the code lets through (encoding.c:648).
Excess(s) == Len(s) = Announced(s[1]) /\ ValueOf(s) \in \h200000..\h7fffff

\* The decoder waits exactly as long as the first byte announces, takes the
\* character for what the bytes say, and replaces the illegal ones: bytes out
\* of place, overlong forms, surrogates, and values past Unicode's 21 bits (the
\* comment at encoding.c:649).  The exception is Excess: what comes of values of
\* 22 and 23 bits is not claimed, since the mask 0xff800000 of the code lets them
\* through, against that comment.  What it takes is written as it was read
\* (ToUtf8).
Transcodes ==
  seq # <<>> =>
    CASE out = More -> Len(seq) < Announced(seq[1])
      [] out = Again -> Len(seq) < Announced(seq[1]) /\ state = Idle
      [] out >= 0 -> /\ Len(seq) = Announced(seq[1])
                     /\ ~Excess(seq) => out = IF Illegal(seq) THEN REPL ELSE ValueOf(seq)
                     /\ ~Illegal(seq) => ToUtf8(out) = seq

\* What an entry stands for: a base and its accents.
RECURSIVE Expand(_, _, _)
Expand(t, c, depth) ==
  IF c \notin DOMAIN t \/ depth = 0 THEN <<c>> ELSE Append(Expand(t, t[c][1], depth - 1), t[c][2])
Depth == Cardinality(Entries) + 1

\* An entry is always built on entries in front of it, so that none is used
\* again while others are built on it: what an entry stands for changes only
\* when the entry itself is taken (comb_tofront).
Meaning ==
  [][\A i \in DOMAIN comb : comb'[i] = comb[i] => Expand(comb', i, Depth) = Expand(comb, i, Depth)]_table

=============================================================================
