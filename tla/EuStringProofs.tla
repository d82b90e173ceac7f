--------------------------- MODULE EuStringProofs ---------------------------
(***************************************************************************)
(* Proofs about EuString: for all documents and all ways to cut their      *)
(* text, a string is what its text stands for when it is parsed in one     *)
(* piece, and no buffer is overrun.                                        *)
(***************************************************************************)
EXTENDS EuString, WellFoundedInduction, TLAPS

\* What a text stands for when it is parsed in one piece.
Decoded(text) ==
    LET u == Unescape(Plain, Body(text))
    IN  IF Ends(text) # {} /\ u.ok /\ u.at = 0 THEN u.out ELSE Malformed

-----------------------------------------------------------------------------
(***************************************************************************)
(* Induction, in a form that needs no operator for a parameter: a set of   *)
(* numbers has a least one.                                                *)
(***************************************************************************)
Smaller == {x \in Nat \X Nat : x[1] < x[2]}

LEMMA SmallerWellFounded == IsWellFoundedOn(Smaller, Nat)
<1>1. OpToRel(<, Nat) = Smaller BY DEF OpToRel, Smaller
<1> QED BY <1>1, NatLessThanWellFounded

\* A set of numbers that is not empty has a least element.
LEMMA LeastNumber ==
    ASSUME NEW T \in SUBSET Nat, T # {}
    PROVE  \E x \in T : \A y \in T : x <= y
<1>1. PICK x \in T : \A y \in T : ~ (<<y, x>> \in Smaller)
  BY WFMin, SmallerWellFounded
<1>2. ASSUME NEW y \in T PROVE x <= y
  <2>1. x \in Nat /\ y \in Nat OBVIOUS
  <2>2. y < x => <<y, x>> \in Smaller BY <2>1 DEF Smaller
  <2> QED BY <1>1, <2>1, <2>2
<1> QED BY <1>2

\* Induction up to a bound: T holds 0, and with each number below m the next.
LEMMA Induction ==
    ASSUME NEW m \in Nat, NEW T \in SUBSET (0 .. m), 0 \in T,
           \A n \in T : n < m => n + 1 \in T
    PROVE  T = 0 .. m
<1> SUFFICES ASSUME (0 .. m) \ T # {} PROVE FALSE OBVIOUS
<1>1. (0 .. m) \ T \in SUBSET Nat OBVIOUS
<1>2. PICK x \in (0 .. m) \ T : \A y \in (0 .. m) \ T : x <= y
  BY <1>1, LeastNumber
<1>3. x # 0 /\ x - 1 \in 0 .. m /\ x - 1 < m OBVIOUS
<1>4. x - 1 \in T BY <1>2, <1>3
<1>5. (x - 1) + 1 = x OBVIOUS
<1> QED BY <1>3, <1>4, <1>5

-----------------------------------------------------------------------------
(***************************************************************************)
(* Unescaping, character by character.                                     *)
(***************************************************************************)
\* The recursive function is what its equation says.
LEMMA UnescapingsDefined ==
    ASSUME NEW u, NEW text \in Seq(Bytes)
    PROVE  Unescapings(u, text) =
             [n \in 0 .. Len(text) |->
                IF n = 0 THEN u
                ELSE UnescapeChar(Unescapings(u, text)[n - 1], text[n])]
<1> DEFINE Up(m, f) ==
      f = [n \in 0 .. m |-> IF n = 0 THEN u ELSE UnescapeChar(f[n - 1], text[n])]
           T == {m \in 0 .. Len(text) : \E f : Up(m, f)}
<1>1. 0 \in T
  <2>1. Up(0, [n \in 0 .. 0 |-> u]) OBVIOUS
  <2>2. 0 \in 0 .. Len(text) OBVIOUS
  <2> HIDE DEF Up
  <2> QED BY <2>1, <2>2
<1>2. ASSUME NEW m \in T, m < Len(text) PROVE m + 1 \in T
  <2>1. PICK f : Up(m, f) OBVIOUS
  <2> DEFINE g == [n \in 0 .. m + 1 |->
                     IF n = m + 1 THEN UnescapeChar(f[m], text[m + 1]) ELSE f[n]]
             h == [n \in 0 .. m + 1 |->
                     IF n = 0 THEN u ELSE UnescapeChar(g[n - 1], text[n])]
  <2>2. ASSUME NEW n \in 0 .. m + 1 PROVE g[n] = h[n]
    <3>1. CASE n = m + 1
      <4>1. g[n] = UnescapeChar(f[m], text[m + 1]) BY <3>1
      <4>2. g[m] = f[m] /\ n - 1 = m /\ n # 0 BY <3>1
      <4> QED BY <3>1, <4>1, <4>2
    <3>2. CASE n = 0 BY <2>1, <3>2
    <3>3. CASE n # 0 /\ n # m + 1
      <4>1. g[n] = f[n] /\ g[n - 1] = f[n - 1] BY <3>3
      <4>2. f[n] = UnescapeChar(f[n - 1], text[n]) BY <2>1, <3>3
      <4> QED BY <3>3, <4>1, <4>2
    <3> QED BY <3>1, <3>2, <3>3
  <2>3. g = h BY <2>2
  <2> HIDE DEF g
  <2>4. Up(m + 1, g) BY <2>3
  <2>5. m + 1 \in 0 .. Len(text) BY <1>2
  <2> HIDE DEF Up
  <2> QED BY <2>4, <2>5
<1>3. T = 0 .. Len(text)
  <2>1. T \in SUBSET (0 .. Len(text)) /\ Len(text) \in Nat OBVIOUS
  <2> HIDE DEF T
  <2> QED BY <1>1, <1>2, <2>1, Induction
<1>4. \E f : Up(Len(text), f) BY <1>3
<1>5. Unescapings(u, text) = CHOOSE f : Up(Len(text), f) BY DEF Unescapings
<1> HIDE DEF Up
<1>6. Up(Len(text), Unescapings(u, text)) BY <1>4, <1>5
<1> QED BY <1>6 DEF Up

-----------------------------------------------------------------------------
(***************************************************************************)
(* The table.                                                              *)
(***************************************************************************)
LEMMA Exclusive ==
    /\ HexXor = 90 /\ EscapeXor = 215
    /\ Xor(48, 90) = 106 /\ Xor(106, 90) = 48
    /\ Xor(55, 90) = 109 /\ Xor(109, 90) = 55
    /\ Xor(87, 90) = 13 /\ Xor(13, 90) = 87
    /\ Xor(90, 90) = 0 /\ Xor(0, 90) = 90
    /\ Xor(91, 90) = 1 /\ Xor(1, 90) = 91
    /\ Xor(0, 215) = 215 /\ Xor(100, 215) = 179 /\ Xor(101, 215) = 178
    /\ Xor(107, 215) = 188
BY DEF Xor, Bit, HexXor, EscapeXor, CodeB, SetTop

\* What the table has for each character.
LEMMA Entries ==
    ASSUME NEW c \in Bytes
    PROVE  \/ c \in 48 .. 57 /\ unescape_table[c] = 106
           \/ c \in 65 .. 70 /\ unescape_table[c] = 109
           \/ c \in {97, 99} /\ unescape_table[c] = 13
           \/ c \in {98, 102} /\ unescape_table[c] = 141
           \/ unescape_table[c] \in {0, 1}
           \/ c \in {34, 47, 92} /\ unescape_table[c] = 215
           \/ c \in {110, 114} /\ unescape_table[c] \in {178, 179}
           \/ c = 116 /\ unescape_table[c] = 188
<1>1. CASE c \in DOMAIN TableHex
  <2>1. c \in (48 .. 57) \cup (65 .. 70) \cup {97, 99, 100, 101}
    BY <1>1 DEF TableHex
  <2>2. unescape_table[c] = Xor(c - TableHex[c], 90)
    <3>1. c \notin DOMAIN TableEscape /\ c # CodeB /\ c # CodeF
      BY <2>1 DEF TableEscape, CodeB, CodeF
    <3>2. unescape_table[c] = Xor(c - TableHex[c], HexXor)
      BY <1>1, <3>1, Zenon DEF unescape_table
    <3> QED BY <3>2, Exclusive
  <2>3. CASE c \in 48 .. 57
    <3>1. c - TableHex[c] = 48 BY <2>3 DEF TableHex
    <3> QED BY <2>2, <2>3, <3>1, Exclusive
  <2>4. CASE c \in 65 .. 70
    <3>1. c - TableHex[c] = 55 BY <2>4 DEF TableHex
    <3> QED BY <2>2, <2>4, <3>1, Exclusive
  <2>5. CASE c \in {97, 99}
    <3>1. c - TableHex[c] = 87 BY <2>5 DEF TableHex
    <3> QED BY <2>2, <2>5, <3>1, Exclusive
  <2>6. CASE c \in {100, 101}
    <3>1. c - TableHex[c] \in {90, 91} BY <2>6 DEF TableHex
    <3> QED BY <2>2, <3>1, Exclusive
  <2> QED BY <2>1, <2>3, <2>4, <2>5, <2>6
<1>2. CASE c \in DOMAIN TableEscape /\ c \notin DOMAIN TableHex
  <2>1. c \in {34, 92, 47, 110, 114, 116} BY <1>2 DEF TableEscape
  <2>2. unescape_table[c] = Xor(c - TableEscape[c], 215)
    <3>1. c # CodeB /\ c # CodeF BY <2>1 DEF CodeB, CodeF
    <3>2. unescape_table[c] = Xor(c - TableEscape[c], EscapeXor)
      BY <1>2, <3>1, Zenon DEF unescape_table
    <3> QED BY <3>2, Exclusive
  <2>3. CASE c \in {34, 92, 47}
    <3>1. c - TableEscape[c] = 0 BY <2>3 DEF TableEscape
    <3> QED BY <2>2, <2>3, <3>1, Exclusive
  <2>4. CASE c \in {110, 114}
    <3>1. c - TableEscape[c] \in {100, 101} BY <2>4 DEF TableEscape
    <3> QED BY <2>2, <2>4, <3>1, Exclusive
  <2>5. CASE c = 116
    <3>1. c - TableEscape[c] = 107 BY <2>5 DEF TableEscape
    <3> QED BY <2>2, <2>5, <3>1, Exclusive
  <2> QED BY <2>1, <2>3, <2>4, <2>5
<1>3. CASE c \notin DOMAIN TableHex /\ c \notin DOMAIN TableEscape
  <2>1. c \in {98, 102} => unescape_table[c] = 141
    <3>1. SetTop(Xor(87, 90)) = 141 BY Exclusive DEF SetTop, Bit
    <3>2. ASSUME c = 98 PROVE unescape_table[c] = SetTop(Xor(87, 90))
      BY <1>3, <3>2 DEF unescape_table, CodeB, CodeF
    <3>3. ASSUME c = 102 PROVE unescape_table[c] = SetTop(Xor(87, 90))
      BY <1>3, <3>3 DEF unescape_table, CodeB, CodeF
    <3> QED BY <3>1, <3>2, <3>3
  <2>2. c \notin {98, 102} => unescape_table[c] = 0
    BY <1>3 DEF unescape_table, CodeB, CodeF
  <2> QED BY <2>1, <2>2
<1> QED BY <1>1, <1>2, <1>3

LEMMA Characters ==
    /\ \A c \in Bytes : /\ IsHex[c] => HexValue[c] \in 0 .. 15
                        /\ Unescaped[c] \in Bytes
    /\ IsEscape[Backslash] /\ ~IsHex[Backslash] /\ Backslash \in Bytes
<1>1. ASSUME NEW c \in Bytes, IsHex[c] PROVE HexValue[c] \in 0 .. 15
  <2>1. Bit(unescape_table[c], 8) = 1 BY <1>1 DEF IsHex
  <2>2. HexValue[c] = (c - Xor(unescape_table[c] % 128, 90)) % 256
    BY Exclusive DEF HexValue
  <2>3. \/ c \in 48 .. 57 /\ unescape_table[c] = 106
        \/ c \in 65 .. 70 /\ unescape_table[c] = 109
        \/ c \in {97, 99} /\ unescape_table[c] = 13
        \/ c \in {98, 102} /\ unescape_table[c] = 141
        \/ c = 116 /\ unescape_table[c] = 188
    BY <2>1, Entries DEF Bit
  <2>4. c \in 48 .. 57 /\ unescape_table[c] = 106 => HexValue[c] \in 0 .. 15
    BY <2>2, Exclusive
  <2>5. c \in 65 .. 70 /\ unescape_table[c] = 109 => HexValue[c] \in 0 .. 15
    BY <2>2, Exclusive
  <2>6. c \in {97, 99} /\ unescape_table[c] = 13 => HexValue[c] \in 0 .. 15
    BY <2>2, Exclusive
  <2>7. c \in {98, 102} /\ unescape_table[c] = 141 => HexValue[c] \in 0 .. 15
    BY <2>2, Exclusive
  <2>8. c = 116 /\ unescape_table[c] = 188 => HexValue[c] \in 0 .. 15
    <3>1. Xor(60, 90) = 102 BY DEF Xor, Bit
    <3> QED BY <2>2, <3>1
  <2> QED BY <2>3, <2>4, <2>5, <2>6, <2>7, <2>8
<1>2. ASSUME NEW c \in Bytes PROVE Unescaped[c] \in Bytes
  <2>1. unescape_table[c] \in 0 .. 255 BY Entries
  <2>2. Xor(unescape_table[c], EscapeXor) \in Int
    BY <2>1, Exclusive DEF Xor, Bit
  <2>3. c \in Int BY DEF Bytes
  <2>4. Unescaped[c] = (c - Xor(unescape_table[c], EscapeXor)) % 256
    BY DEF Unescaped
  <2> QED BY <2>2, <2>3, <2>4 DEF Bytes
<1>3. Backslash \in Bytes BY DEF Backslash, Bytes
<1>4. unescape_table[Backslash] \in {0, 1, 215}
  BY <1>3, Entries DEF Backslash
<1>5. unescape_table[Backslash] = 215
  <2>1. Backslash \in DOMAIN TableEscape /\ Backslash \notin DOMAIN TableHex
        /\ Backslash # CodeB /\ Backslash # CodeF
    BY DEF Backslash, TableEscape, TableHex, CodeB, CodeF
  <2>2. unescape_table[Backslash]
          = Xor(Backslash - TableEscape[Backslash], EscapeXor)
    BY <1>3, <2>1, Zenon DEF unescape_table
  <2>3. Backslash - TableEscape[Backslash] = 0 BY DEF Backslash, TableEscape
  <2> QED BY <2>2, <2>3, Exclusive
<1>6. IsEscape[Backslash] /\ ~IsHex[Backslash]
  <2>1. Bit(215, 128) = 1 /\ ~(Bit(215, 8) = 1) BY DEF Bit
  <2> QED BY <1>3, <1>5, <2>1, ZenonT(60) DEF IsEscape, IsHex
<1> QED BY <1>1, <1>2, <1>3, <1>6

-----------------------------------------------------------------------------
(***************************************************************************)
(* Characters, one at a time.                                              *)
(***************************************************************************)
\* What the code can be, by how many of its digits have been read.
Limit == [at \in 0 .. UesUxxx |->
            CASE at = 0 -> 0 [] at = 1 -> 0 [] at = 2 -> 0
              [] at = 3 -> 61440 [] at = 4 -> 65280 [] at = 5 -> 65520]

Unescapers ==
    {u \in [out : Seq(Bytes), at : 0 .. UesUxxx, code : Nat, ok : BOOLEAN] :
        u.code <= Limit[u.at]}

LEMMA Utf8Bytes ==
    ASSUME NEW uc \in Nat, uc <= 65535
    PROVE  Utf8(uc) \in Seq(Bytes) /\ Len(Utf8(uc)) \in 1 .. 3
<1>1. /\ \A a \in Bytes : <<a>> \in Seq(Bytes) /\ Len(<<a>>) = 1
      /\ \A a, b \in Bytes : <<a, b>> \in Seq(Bytes) /\ Len(<<a, b>>) = 2
      /\ \A a, b, c \in Bytes : <<a, b, c>> \in Seq(Bytes) /\ Len(<<a, b, c>>) = 3
  OBVIOUS
<1>2. CASE uc < 128
  <2>1. Utf8(uc) = <<uc>> /\ uc \in Bytes BY <1>2 DEF Utf8, Bytes
  <2> QED BY <1>1, <2>1
<1>3. CASE ~(uc < 128) /\ uc < 2048
  <2>1. Utf8(uc) = <<192 + uc \div 64, 128 + (uc % 64)>> BY <1>3 DEF Utf8
  <2>2. 192 + uc \div 64 \in Bytes /\ 128 + (uc % 64) \in Bytes
    BY <1>3 DEF Bytes
  <2> QED BY <1>1, <2>1, <2>2
<1>4. CASE ~(uc < 128) /\ ~(uc < 2048)
  <2>1. Utf8(uc) = <<224 + uc \div 4096, 128 + ((uc \div 64) % 64),
                     128 + (uc % 64)>>
    BY <1>4 DEF Utf8
  <2>2. /\ 224 + uc \div 4096 \in Bytes /\ 128 + ((uc \div 64) % 64) \in Bytes
        /\ 128 + (uc % 64) \in Bytes
    BY <1>4 DEF Bytes
  <2> QED BY <1>1, <2>1, <2>2
<1> QED BY <1>2, <1>3, <1>4

\* What a character does to u.
LEMMA CharSteps ==
    ASSUME NEW u \in Unescapers, NEW c \in Bytes
    PROVE  LET v == UnescapeChar(u, c) IN
           \/ ~u.ok /\ v = u
           \/ u.ok /\ u.at = 0 /\ c # Backslash /\ v = [u EXCEPT !.out = Append(@, c)]
           \/ u.ok /\ u.at = 0 /\ c = Backslash /\ v = [u EXCEPT !.at = 1]
           \/ u.ok /\ u.at = 1 /\ IsEscape[c]
              /\ v = Unescaping(Append(u.out, Unescaped[c]), 0, 0)
           \/ u.ok /\ u.at = 1 /\ ~IsEscape[c] /\ c = 117 /\ v = Unescaping(u.out, 2, 0)
           \/ u.ok /\ u.at = 1 /\ ~IsEscape[c] /\ c # 117 /\ v = Bad(u)
           \/ u.ok /\ u.at \in 2 .. 5 /\ ~IsHex[c] /\ v = Bad(u)
           \/ u.ok /\ u.at \in 2 .. 4 /\ IsHex[c]
              /\ v = Unescaping(u.out, u.at + 1, u.code + HexValue[c] * Worth[u.at])
           \/ u.ok /\ u.at = 5 /\ IsHex[c]
              /\ v = Unescaping(u.out \o Utf8(u.code + HexValue[c]), 0, 0)
<1>1. u.at \in 0 .. 5 /\ u.ok \in BOOLEAN BY DEF Unescapers, UesUxxx
<1>2. CASE ~u.ok BY <1>2, Zenon DEF UnescapeChar
<1>3. CASE u.ok /\ u.at = 0
  <2>1. u.at # UesBackslash /\ u.at \notin UesU .. UesUxxx - 1 /\ u.at # UesUxxx
    BY <1>3 DEF UesBackslash, UesU, UesUxxx
  <2>2. c # Backslash => UnescapeChar(u, c) = [u EXCEPT !.out = Append(@, c)]
    BY <1>3, <2>1, Zenon DEF UnescapeChar
  <2>3. c = Backslash => UnescapeChar(u, c) = [u EXCEPT !.at = UesBackslash]
    BY <1>3, <2>1, Zenon DEF UnescapeChar
  <2> QED BY <1>3, <2>2, <2>3 DEF UesBackslash
<1>4. CASE u.ok /\ u.at = 1
  <2>1. u.at = UesBackslash /\ u.at \notin UesU .. UesUxxx - 1 /\ u.at # UesUxxx
        /\ u.at # 0
    BY <1>4 DEF UesBackslash, UesU, UesUxxx
  <2>2. UnescapeChar(u, c)
          = CASE IsEscape[c] -> Unescaping(Append(u.out, Unescaped[c]), 0, 0)
              [] ~IsEscape[c] /\ c = 117 -> Unescaping(u.out, UesU, 0)
              [] OTHER -> Bad(u)
    BY <1>4, <2>1, Zenon DEF UnescapeChar
  <2>3. /\ IsEscape[c] =>
             UnescapeChar(u, c) = Unescaping(Append(u.out, Unescaped[c]), 0, 0)
        /\ ~IsEscape[c] /\ c = 117 => UnescapeChar(u, c) = Unescaping(u.out, UesU, 0)
        /\ ~IsEscape[c] /\ c # 117 => UnescapeChar(u, c) = Bad(u)
    BY <2>2, Zenon
  <2> QED BY <1>4, <2>3, Zenon DEF UesU
<1>5. CASE u.ok /\ u.at \in 2 .. 4
  <2>1. u.at # UesBackslash /\ u.at \in UesU .. UesUxxx - 1 /\ u.at # UesUxxx
        /\ u.at # 0
    BY <1>5 DEF UesBackslash, UesU, UesUxxx
  <2>2. UnescapeChar(u, c)
          = IF IsHex[c]
            THEN Unescaping(u.out, u.at + 1, u.code + HexValue[c] * Worth[u.at])
            ELSE Bad(u)
    BY <1>5, <2>1, Zenon DEF UnescapeChar
  <2>3. u.at \in 2 .. 5 BY <1>5
  <2> QED BY <1>5, <2>2, <2>3, Zenon
<1>6. CASE u.ok /\ u.at = 5
  <2>1. u.at # UesBackslash /\ u.at \notin UesU .. UesUxxx - 1 /\ u.at = UesUxxx
        /\ u.at # 0
    BY <1>6 DEF UesBackslash, UesU, UesUxxx
  <2>2. UnescapeChar(u, c)
          = IF IsHex[c] THEN Unescaping(u.out \o Utf8(u.code + HexValue[c]), 0, 0)
                        ELSE Bad(u)
    BY <1>6, <2>1, Zenon DEF UnescapeChar
  <2>3. u.at \in 2 .. 5 BY <1>6
  <2> QED BY <1>6, <2>2, <2>3, Zenon
<1> QED BY <1>1, <1>2, <1>3, <1>4, <1>5, <1>6

LEMMA UnescaperFields ==
    ASSUME NEW u \in Unescapers
    PROVE  /\ u.out \in Seq(Bytes) /\ u.at \in 0 .. 5 /\ u.code \in Nat
           /\ u.ok \in BOOLEAN /\ u.code <= Limit[u.at]
           /\ u = [out |-> u.out, at |-> u.at, code |-> u.code, ok |-> u.ok]
BY DEF Unescapers, UesUxxx

LEMMA UnescaperIs ==
    ASSUME NEW out \in Seq(Bytes), NEW at \in 0 .. 5, NEW code \in Nat,
           NEW ok \in BOOLEAN, code <= Limit[at]
    PROVE  [out |-> out, at |-> at, code |-> code, ok |-> ok] \in Unescapers
BY DEF Unescapers, UesUxxx

LEMMA Limits == Limit[0] = 0 /\ Limit[1] = 0 /\ Limit[2] = 0 /\ Limit[3] = 61440
                /\ Limit[4] = 65280 /\ Limit[5] = 65520
BY DEF Limit, UesUxxx

LEMMA Worths == Worth[2] = 4096 /\ Worth[3] = 256 /\ Worth[4] = 16
BY DEF Worth, UesU, UesUxxx

LEMMA Fresh ==
    ASSUME NEW out \in Seq(Bytes), NEW at \in 0 .. 2
    PROVE  Unescaping(out, at, 0) \in Unescapers
<1>1. 0 <= Limit[at] BY Limits
<1>2. at \in 0 .. 5 /\ 0 \in Nat /\ TRUE \in BOOLEAN OBVIOUS
<1> QED BY <1>1, <1>2, UnescaperIs, Zenon DEF Unescaping

LEMMA Digits ==
    ASSUME NEW k \in Nat, NEW h \in 0 .. 15
    PROVE  /\ k + h * 4096 \in Nat /\ k + h * 4096 <= k + 61440
           /\ k + h * 256 \in Nat /\ k + h * 256 <= k + 3840
           /\ k + h * 16 \in Nat /\ k + h * 16 <= k + 240
OBVIOUS

\* The bytes of a code whose last digit is c.
LEMMA CodeBytes ==
    ASSUME NEW u \in Unescapers, NEW c \in Bytes, u.at = 5, IsHex[c]
    PROVE  /\ Utf8(u.code + HexValue[c]) \in Seq(Bytes)
           /\ Len(Utf8(u.code + HexValue[c])) \in 1 .. 3
<1>1. u.code \in Nat /\ u.code <= 65520 BY UnescaperFields, Limits
<1>2. HexValue[c] \in 0 .. 15 BY Characters
<1>3. u.code + HexValue[c] \in Nat /\ u.code + HexValue[c] <= 65535
  BY <1>1, <1>2
<1> QED BY <1>3, Utf8Bytes

\* A character keeps the type, brings no more bytes than are due, and does not
\* make good what is bad.
LEMMA CharTyped ==
    ASSUME NEW u \in Unescapers, NEW c \in Bytes
    PROVE  LET v == UnescapeChar(u, c) IN
           /\ v \in Unescapers
           /\ Len(v.out) + v.at <= Len(u.out) + u.at + 1
           /\ v.ok => u.ok
<1> DEFINE v == UnescapeChar(u, c)
<1> SUFFICES /\ v \in Unescapers
             /\ Len(v.out) + v.at <= Len(u.out) + u.at + 1
             /\ v.ok => u.ok
  OBVIOUS
<1> HIDE DEF v
<1>0. \/ ~u.ok /\ v = u
      \/ u.ok /\ u.at = 0 /\ v = [u EXCEPT !.out = Append(@, c)]
      \/ u.ok /\ u.at = 0 /\ v = [u EXCEPT !.at = 1]
      \/ u.ok /\ u.at = 1 /\ v = Unescaping(Append(u.out, Unescaped[c]), 0, 0)
      \/ u.ok /\ u.at = 1 /\ v = Unescaping(u.out, 2, 0)
      \/ u.ok /\ v = Bad(u)
      \/ u.ok /\ u.at \in 2 .. 4 /\ IsHex[c]
         /\ v = Unescaping(u.out, u.at + 1, u.code + HexValue[c] * Worth[u.at])
      \/ u.ok /\ u.at = 5 /\ IsHex[c]
         /\ v = Unescaping(u.out \o Utf8(u.code + HexValue[c]), 0, 0)
  BY CharSteps, Zenon DEF v
<1>1. /\ u.out \in Seq(Bytes) /\ u.at \in 0 .. 5 /\ u.code \in Nat
      /\ u.ok \in BOOLEAN /\ u.code <= Limit[u.at]
      /\ u = [out |-> u.out, at |-> u.at, code |-> u.code, ok |-> u.ok]
  BY UnescaperFields
<1>2. Unescaped[c] \in Bytes /\ (IsHex[c] => HexValue[c] \in 0 .. 15)
  BY Characters
<1>3. \A b \in Bytes : Append(u.out, b) \in Seq(Bytes)
                       /\ Len(Append(u.out, b)) = Len(u.out) + 1
  BY <1>1
<1>4. CASE ~u.ok /\ v = u BY <1>1, <1>4
<1>5. CASE u.ok /\ u.at = 0 /\ v = [u EXCEPT !.out = Append(@, c)]
  <2>1. v = [out |-> Append(u.out, c), at |-> u.at, code |-> u.code, ok |-> u.ok]
    BY <1>1, <1>5
  <2>2. Append(u.out, c) \in Seq(Bytes) BY <1>3
  <2>3. v \in Unescapers BY <1>1, <2>1, <2>2, UnescaperIs
  <2> QED BY <1>1, <1>3, <1>5, <2>1, <2>3
<1>6. CASE u.ok /\ u.at = 0 /\ v = [u EXCEPT !.at = 1]
  <2>1. v = [out |-> u.out, at |-> 1, code |-> u.code, ok |-> u.ok]
    BY <1>1, <1>6
  <2>2. u.code = 0 /\ u.ok = TRUE BY <1>1, <1>6, Limits
  <2>3. v = Unescaping(u.out, 1, 0) BY <2>1, <2>2, Zenon DEF Unescaping
  <2>4. v \in Unescapers BY <1>1, <2>3, Fresh
  <2> QED BY <1>1, <1>6, <2>1, <2>4
<1>7. CASE u.ok /\ u.at = 1 /\ v = Unescaping(Append(u.out, Unescaped[c]), 0, 0)
  <2>1. v = [out |-> Append(u.out, Unescaped[c]), at |-> 0, code |-> 0, ok |-> TRUE]
    BY <1>7 DEF Unescaping
  <2>2. Append(u.out, Unescaped[c]) \in Seq(Bytes) BY <1>2, <1>3
  <2>3. 0 \in 0 .. 2 OBVIOUS
  <2>4. v \in Unescapers BY <1>7, <2>2, <2>3, Fresh, Zenon
  <2> QED BY <1>1, <1>2, <1>3, <1>7, <2>1, <2>4
<1>8. CASE u.ok /\ u.at = 1 /\ v = Unescaping(u.out, 2, 0)
  <2>1. v = [out |-> u.out, at |-> 2, code |-> 0, ok |-> TRUE]
    BY <1>8 DEF Unescaping
  <2>2. v \in Unescapers BY <1>1, <1>8, Fresh
  <2> QED BY <1>1, <1>8, <2>1, <2>2
<1>9. CASE u.ok /\ v = Bad(u)
  <2>1. v = [out |-> u.out, at |-> u.at, code |-> u.code, ok |-> FALSE]
    BY <1>1, <1>9 DEF Bad
  <2>2. v \in Unescapers BY <1>1, <2>1, UnescaperIs
  <2> QED BY <1>1, <1>9, <2>1, <2>2
<1>10. CASE u.ok /\ u.at \in 2 .. 4 /\ IsHex[c]
            /\ v = Unescaping(u.out, u.at + 1, u.code + HexValue[c] * Worth[u.at])
  <2> DEFINE code == u.code + HexValue[c] * Worth[u.at]
  <2>1. v = [out |-> u.out, at |-> u.at + 1, code |-> code, ok |-> TRUE]
    BY <1>10 DEF Unescaping
  <2>2. code \in Nat /\ code <= Limit[u.at + 1]
    <3>1. CASE u.at = 2
      <4>1. code = u.code + HexValue[c] * 4096 /\ u.at + 1 = 3
        BY <3>1, Worths
      <4>2. HexValue[c] \in 0 .. 15 /\ u.code \in Nat BY <1>1, <1>2, <1>10
      <4> HIDE DEF code
      <4>3. code \in Nat /\ code <= u.code + 61440 BY <4>1, <4>2, Digits
      <4>4. u.code <= Limit[2] BY <1>1, <3>1
      <4> QED BY <4>1, <4>2, <4>3, <4>4, Limits
    <3>2. CASE u.at = 3
      <4>1. code = u.code + HexValue[c] * 256 /\ u.at + 1 = 4
        BY <3>2, Worths
      <4>2. HexValue[c] \in 0 .. 15 /\ u.code \in Nat BY <1>1, <1>2, <1>10
      <4> HIDE DEF code
      <4>3. code \in Nat /\ code <= u.code + 3840 BY <4>1, <4>2, Digits
      <4>4. u.code <= Limit[3] BY <1>1, <3>2
      <4> QED BY <4>1, <4>2, <4>3, <4>4, Limits
    <3>3. CASE u.at = 4
      <4>1. code = u.code + HexValue[c] * 16 /\ u.at + 1 = 5
        BY <3>3, Worths
      <4>2. HexValue[c] \in 0 .. 15 /\ u.code \in Nat BY <1>1, <1>2, <1>10
      <4> HIDE DEF code
      <4>3. code \in Nat /\ code <= u.code + 240 BY <4>1, <4>2, Digits
      <4>4. u.code <= Limit[4] BY <1>1, <3>3
      <4> QED BY <4>1, <4>2, <4>3, <4>4, Limits
    <3> QED BY <1>10, <3>1, <3>2, <3>3
  <2> HIDE DEF code
  <2>3. u.at + 1 \in 0 .. 5 BY <1>10
  <2>4. v \in Unescapers BY <1>1, <2>1, <2>2, <2>3, UnescaperIs
  <2> QED BY <1>1, <1>10, <2>1, <2>4
<1>11. CASE u.ok /\ u.at = 5 /\ IsHex[c]
            /\ v = Unescaping(u.out \o Utf8(u.code + HexValue[c]), 0, 0)
  <2> DEFINE bs == Utf8(u.code + HexValue[c])
  <2>1. v = [out |-> u.out \o bs, at |-> 0, code |-> 0, ok |-> TRUE]
    BY <1>11 DEF Unescaping
  <2>3. bs \in Seq(Bytes) /\ Len(bs) \in 1 .. 3 BY <1>11, CodeBytes
  <2> HIDE DEF bs
  <2>4. u.out \o bs \in Seq(Bytes) /\ Len(u.out \o bs) = Len(u.out) + Len(bs)
    BY <1>1, <2>3
  <2>5. v \in Unescapers
    <3>1. v = Unescaping(u.out \o bs, 0, 0) BY <2>1, Zenon DEF Unescaping
    <3>2. 0 \in 0 .. 2 OBVIOUS
    <3> QED BY <2>4, <3>1, <3>2, Fresh, Zenon
  <2>6. v.out = u.out \o bs /\ v.at = 0 /\ v.ok = TRUE BY <2>1, Zenon
  <2>7. Len(v.out) = Len(u.out) + Len(bs) BY <2>4, <2>6
  <2>8. Len(u.out) \in Nat /\ u.at = 5 BY <1>1, <1>11
  <2>9. Len(v.out) + v.at <= Len(u.out) + u.at + 1 BY <2>3, <2>6, <2>7, <2>8
  <2> QED BY <1>11, <2>5, <2>9, Zenon
<1>12. v \in Unescapers /\ Len(v.out) + v.at <= Len(u.out) + u.at + 1
       /\ (v.ok => u.ok)
  BY <1>4, <1>5, <1>6, <1>7, <1>8, <1>9, <1>10, <1>11, <1>0
<1> QED BY <1>12

\* u, if x had been written before.
Behind(x, u) == [out |-> x \o u.out, at |-> u.at, code |-> u.code, ok |-> u.ok]

LEMMA BehindFields ==
    ASSUME NEW x, NEW u
    PROVE  /\ Behind(x, u).ok = u.ok /\ Behind(x, u).at = u.at
           /\ Behind(x, u).code = u.code /\ Behind(x, u).out = x \o u.out
BY Zenon DEF Behind

\* What was written before does not matter to what a character does.
LEMMA CharBehind ==
    ASSUME NEW u \in Unescapers, NEW c \in Bytes, NEW x \in Seq(Bytes)
    PROVE  UnescapeChar(Behind(x, u), c) = Behind(x, UnescapeChar(u, c))
<1> DEFINE w == Behind(x, u)
           v == UnescapeChar(u, c)
           z == UnescapeChar(w, c)
<1>1. /\ u.out \in Seq(Bytes) /\ u.at \in 0 .. 5 /\ u.code \in Nat
      /\ u.ok \in BOOLEAN /\ u.code <= Limit[u.at]
      /\ u = [out |-> u.out, at |-> u.at, code |-> u.code, ok |-> u.ok]
  BY UnescaperFields
<1>2. w = [out |-> x \o u.out, at |-> u.at, code |-> u.code, ok |-> u.ok]
  BY DEF Behind
<1>3. w \in Unescapers
  <2>1. x \o u.out \in Seq(Bytes) BY <1>1
  <2>2. [out |-> x \o u.out, at |-> u.at, code |-> u.code, ok |-> u.ok] \in Unescapers
    BY <1>1, <2>1, UnescaperIs
  <2> QED BY <1>2, <2>2
<1>4. Unescaped[c] \in Bytes /\ (IsHex[c] => HexValue[c] \in 0 .. 15)
  BY Characters
<1>5. /\ \A b \in Bytes : x \o Append(u.out, b) = Append(x \o u.out, b)
      /\ \A bs \in Seq(Bytes) : x \o (u.out \o bs) = (x \o u.out) \o bs
  BY <1>1, SMTT(60)
<1> HIDE DEF w
<1>6. \/ ~u.ok /\ v = u /\ z = w
      \/ u.ok /\ v = [u EXCEPT !.out = Append(@, c)]
              /\ z = [w EXCEPT !.out = Append(@, c)]
      \/ u.ok /\ v = [u EXCEPT !.at = 1] /\ z = [w EXCEPT !.at = 1]
      \/ u.ok /\ v = Unescaping(Append(u.out, Unescaped[c]), 0, 0)
              /\ z = Unescaping(Append(w.out, Unescaped[c]), 0, 0)
      \/ u.ok /\ v = Unescaping(u.out, 2, 0) /\ z = Unescaping(w.out, 2, 0)
      \/ u.ok /\ v = Bad(u) /\ z = Bad(w)
      \/ u.ok /\ v = Unescaping(u.out, u.at + 1, u.code + HexValue[c] * Worth[u.at])
         /\ z = Unescaping(w.out, u.at + 1, u.code + HexValue[c] * Worth[u.at])
      \/ u.ok /\ u.at = 5 /\ IsHex[c]
         /\ v = Unescaping(u.out \o Utf8(u.code + HexValue[c]), 0, 0)
         /\ z = Unescaping(w.out \o Utf8(u.code + HexValue[c]), 0, 0)
  <2>1. w.at = u.at /\ w.ok = u.ok /\ w.code = u.code BY <1>2
  <2> HIDE DEF v, z
  <2>2. \/ ~u.ok /\ v = u
        \/ u.ok /\ u.at = 0 /\ c # Backslash /\ v = [u EXCEPT !.out = Append(@, c)]
        \/ u.ok /\ u.at = 0 /\ c = Backslash /\ v = [u EXCEPT !.at = 1]
        \/ u.ok /\ u.at = 1 /\ IsEscape[c]
           /\ v = Unescaping(Append(u.out, Unescaped[c]), 0, 0)
        \/ u.ok /\ u.at = 1 /\ ~IsEscape[c] /\ c = 117 /\ v = Unescaping(u.out, 2, 0)
        \/ u.ok /\ u.at = 1 /\ ~IsEscape[c] /\ c # 117 /\ v = Bad(u)
        \/ u.ok /\ u.at \in 2 .. 5 /\ ~IsHex[c] /\ v = Bad(u)
        \/ u.ok /\ u.at \in 2 .. 4 /\ IsHex[c]
           /\ v = Unescaping(u.out, u.at + 1, u.code + HexValue[c] * Worth[u.at])
        \/ u.ok /\ u.at = 5 /\ IsHex[c]
           /\ v = Unescaping(u.out \o Utf8(u.code + HexValue[c]), 0, 0)
    BY CharSteps, Zenon DEF v
  <2>3. \/ ~w.ok /\ z = w
        \/ w.ok /\ w.at = 0 /\ c # Backslash /\ z = [w EXCEPT !.out = Append(@, c)]
        \/ w.ok /\ w.at = 0 /\ c = Backslash /\ z = [w EXCEPT !.at = 1]
        \/ w.ok /\ w.at = 1 /\ IsEscape[c]
           /\ z = Unescaping(Append(w.out, Unescaped[c]), 0, 0)
        \/ w.ok /\ w.at = 1 /\ ~IsEscape[c] /\ c = 117 /\ z = Unescaping(w.out, 2, 0)
        \/ w.ok /\ w.at = 1 /\ ~IsEscape[c] /\ c # 117 /\ z = Bad(w)
        \/ w.ok /\ w.at \in 2 .. 5 /\ ~IsHex[c] /\ z = Bad(w)
        \/ w.ok /\ w.at \in 2 .. 4 /\ IsHex[c]
           /\ z = Unescaping(w.out, w.at + 1, w.code + HexValue[c] * Worth[w.at])
        \/ w.ok /\ w.at = 5 /\ IsHex[c]
           /\ z = Unescaping(w.out \o Utf8(w.code + HexValue[c]), 0, 0)
    BY <1>3, CharSteps, Zenon DEF z
  <2> QED BY <2>1, <2>2, <2>3
<1> HIDE DEF v, z
<1>7. u.at = 5 /\ IsHex[c] => Utf8(u.code + HexValue[c]) \in Seq(Bytes)
  BY CodeBytes
<1>8. z = Behind(x, v)
  <2>0. w.out = x \o u.out BY <1>2
  <2>1. CASE ~u.ok /\ v = u /\ z = w BY <2>1 DEF w
  <2>2. CASE v = [u EXCEPT !.out = Append(@, c)] /\ z = [w EXCEPT !.out = Append(@, c)]
    <3>1. v = [out |-> Append(u.out, c), at |-> u.at, code |-> u.code, ok |-> u.ok]
      BY <1>1, <2>2
    <3>2. z = [out |-> Append(x \o u.out, c), at |-> u.at, code |-> u.code, ok |-> u.ok]
      BY <1>2, <2>2
    <3>3. x \o Append(u.out, c) = Append(x \o u.out, c) BY <1>5
    <3> QED BY <3>1, <3>2, <3>3 DEF Behind
  <2>3. CASE v = [u EXCEPT !.at = 1] /\ z = [w EXCEPT !.at = 1]
    <3>1. v = [out |-> u.out, at |-> 1, code |-> u.code, ok |-> u.ok] BY <1>1, <2>3
    <3>2. z = [out |-> x \o u.out, at |-> 1, code |-> u.code, ok |-> u.ok]
      BY <1>2, <2>3
    <3> QED BY <3>1, <3>2 DEF Behind
  <2>4. CASE v = Unescaping(Append(u.out, Unescaped[c]), 0, 0)
             /\ z = Unescaping(Append(w.out, Unescaped[c]), 0, 0)
    <3>1. x \o Append(u.out, Unescaped[c]) = Append(w.out, Unescaped[c])
      BY <1>4, <1>5, <2>0
    <3> QED BY <2>4, <3>1 DEF Unescaping, Behind
  <2>5. CASE v = Unescaping(u.out, 2, 0) /\ z = Unescaping(w.out, 2, 0)
    BY <2>0, <2>5 DEF Unescaping, Behind
  <2>6. CASE v = Bad(u) /\ z = Bad(w)
    <3>1. v = [out |-> u.out, at |-> u.at, code |-> u.code, ok |-> FALSE]
      BY <1>1, <2>6 DEF Bad
    <3>2. z = [out |-> x \o u.out, at |-> u.at, code |-> u.code, ok |-> FALSE]
      BY <1>2, <2>6 DEF Bad
    <3> QED BY <3>1, <3>2 DEF Behind
  <2>7. CASE v = Unescaping(u.out, u.at + 1, u.code + HexValue[c] * Worth[u.at])
             /\ z = Unescaping(w.out, u.at + 1, u.code + HexValue[c] * Worth[u.at])
    <3> DEFINE code == u.code + HexValue[c] * Worth[u.at]
    <3>1. v = Unescaping(u.out, u.at + 1, code) /\ z = Unescaping(w.out, u.at + 1, code)
      BY <2>7
    <3> HIDE DEF code
    <3> QED BY <2>0, <3>1 DEF Unescaping, Behind
  <2>8. CASE u.at = 5 /\ IsHex[c]
             /\ v = Unescaping(u.out \o Utf8(u.code + HexValue[c]), 0, 0)
             /\ z = Unescaping(w.out \o Utf8(u.code + HexValue[c]), 0, 0)
    <3> DEFINE bs == Utf8(u.code + HexValue[c])
    <3>1. x \o (u.out \o bs) = w.out \o bs BY <1>5, <1>7, <2>0, <2>8
    <3>2. v = Unescaping(u.out \o bs, 0, 0) /\ z = Unescaping(w.out \o bs, 0, 0)
      BY <2>8
    <3> HIDE DEF bs
    <3> QED BY <3>1, <3>2 DEF Unescaping, Behind
  <2> QED BY <1>6, <2>1, <2>2, <2>3, <2>4, <2>5, <2>6, <2>7, <2>8, Zenon
<1> QED BY <1>8 DEF v, w, z

-----------------------------------------------------------------------------
(***************************************************************************)
(* Texts.                                                                  *)
(***************************************************************************)
LEMMA Steps ==
    ASSUME NEW u, NEW text \in Seq(Bytes)
    PROVE  /\ Unescapings(u, text)[0] = u
           /\ \A n \in 0 .. Len(text) - 1 :
                /\ text[n + 1] \in Bytes
                /\ Unescapings(u, text)[n + 1]
                     = UnescapeChar(Unescapings(u, text)[n], text[n + 1])
<1> DEFINE U == Unescapings(u, text)
<1>1. U = [n \in 0 .. Len(text) |->
             IF n = 0 THEN u ELSE UnescapeChar(U[n - 1], text[n])]
  BY UnescapingsDefined
<1>2. Len(text) \in Nat /\ \A n \in 1 .. Len(text) : text[n] \in Bytes OBVIOUS
<1> HIDE DEF U
<1>3. U[0] = u BY <1>1, <1>2
<1>4. ASSUME NEW n \in 0 .. Len(text) - 1
      PROVE  text[n + 1] \in Bytes /\ U[n + 1] = UnescapeChar(U[n], text[n + 1])
  <2>1. n + 1 \in 0 .. Len(text) /\ n + 1 \in 1 .. Len(text) /\ n + 1 # 0
        /\ (n + 1) - 1 = n
    BY <1>2
  <2>2. U[n + 1] = UnescapeChar(U[(n + 1) - 1], text[n + 1])
    BY <1>1, <2>1
  <2> QED BY <1>2, <2>1, <2>2
<1> QED BY <1>3, <1>4 DEF U

LEMMA Adding ==
    ASSUME NEW a \in Nat, NEW b \in Nat, NEW c \in Nat, NEW d \in Nat,
           NEW e \in Nat, NEW f \in Nat, NEW k \in Nat,
           a + b <= c + d + 1, c + d <= e + f + k
    PROVE  a + b <= e + f + (k + 1)
OBVIOUS

LEMMA Sizes ==
    ASSUME NEW u \in Unescapers
    PROVE  Len(u.out) \in Nat /\ u.at \in Nat /\ u.at \in 0 .. 5
BY UnescaperFields

\* The type is kept along a text, no more bytes are written than are due, and
\* nothing that is bad becomes good.
LEMMA Along ==
    ASSUME NEW u \in Unescapers, NEW text \in Seq(Bytes), NEW n \in 0 .. Len(text)
    PROVE  LET U == Unescapings(u, text) IN
           /\ U[n] \in Unescapers
           /\ Len(U[n].out) + U[n].at <= Len(u.out) + u.at + n
           /\ \A m \in 0 .. n : U[n].ok => U[m].ok
<1> DEFINE U == Unescapings(u, text)
           Good(k) == /\ U[k] \in Unescapers
                      /\ Len(U[k].out) + U[k].at <= Len(u.out) + u.at + k
                      /\ \A m \in 0 .. k : U[k].ok => U[m].ok
           T == {k \in 0 .. Len(text) : Good(k)}
<1>1. U[0] = u /\ \A k \in 0 .. Len(text) - 1 :
                    text[k + 1] \in Bytes /\ U[k + 1] = UnescapeChar(U[k], text[k + 1])
  BY Steps
<1>2. Len(text) \in Nat OBVIOUS
<1> HIDE DEF U
<1>3. 0 \in T
  <2>1. Len(u.out) \in Nat /\ u.at \in Nat BY UnescaperFields
  <2>2. Len(U[0].out) + U[0].at <= Len(u.out) + u.at + 0 BY <1>1, <2>1
  <2>3. \A m \in 0 .. 0 : U[0].ok => U[m].ok
    <3>1. \A m \in 0 .. 0 : m = 0 OBVIOUS
    <3> QED BY <3>1
  <2> QED BY <1>1, <1>2, <2>2, <2>3
<1>4. ASSUME NEW k \in T, k < Len(text) PROVE k + 1 \in T
  <2>1. k \in 0 .. Len(text) - 1 /\ k + 1 \in 0 .. Len(text) BY <1>2, <1>4
  <2>2. Good(k) OBVIOUS
  <2>3. /\ U[k + 1] \in Unescapers
        /\ Len(U[k + 1].out) + U[k + 1].at <= Len(U[k].out) + U[k].at + 1
        /\ U[k + 1].ok => U[k].ok
    BY <1>1, <2>1, <2>2, CharTyped
  <2>4. /\ Len(U[k + 1].out) \in Nat /\ U[k + 1].at \in Nat
        /\ Len(U[k].out) \in Nat /\ U[k].at \in Nat
        /\ Len(u.out) \in Nat /\ u.at \in Nat
    BY <2>2, <2>3, Sizes
  <2>5. Len(U[k + 1].out) + U[k + 1].at <= Len(u.out) + u.at + (k + 1)
    <3>1. Len(U[k].out) + U[k].at <= Len(u.out) + u.at + k BY <2>2
    <3>2. k \in Nat BY <2>1
    <3>3. Len(U[k + 1].out) + U[k + 1].at <= Len(U[k].out) + U[k].at + 1 BY <2>3
    <3> QED BY <2>4, <3>1, <3>2, <3>3, Adding, Zenon
  <2>6. ASSUME NEW m \in 0 .. k + 1, U[k + 1].ok PROVE U[m].ok
    <3>1. m \in 0 .. k \/ m = k + 1 BY <2>1
    <3> QED BY <2>2, <2>3, <2>6, <3>1
  <2> QED BY <2>1, <2>3, <2>5, <2>6
<1>5. T = 0 .. Len(text)
  <2>1. T \in SUBSET (0 .. Len(text)) OBVIOUS
  <2> HIDE DEF T
  <2> QED BY <1>2, <1>3, <1>4, <2>1, Induction
<1>6. Good(n) BY <1>5
<1> QED BY <1>6 DEF U

\* part is what text has behind k.
IsPart(part, text, k) ==
    /\ text \in Seq(Bytes) /\ part \in Seq(Bytes)
    /\ k \in Nat /\ k + Len(part) <= Len(text)
    /\ \A i \in 1 .. Len(part) : part[i] = text[k + i]

\* A part of a text, from k, is unescaped on its own as it is in the text.
LEMMA Segments ==
    ASSUME NEW u \in Unescapers, NEW text, NEW v \in Unescapers, NEW part,
           NEW k \in Nat, IsPart(part, text, k),
           NEW x \in Seq(Bytes), Unescapings(u, text)[k] = Behind(x, v),
           NEW n \in 0 .. Len(part)
    PROVE  Unescapings(u, text)[k + n] = Behind(x, Unescapings(v, part)[n])
<1> DEFINE U == Unescapings(u, text)
           V == Unescapings(v, part)
           T == {m \in 0 .. Len(part) : U[k + m] = Behind(x, V[m])}
<1>0. /\ text \in Seq(Bytes) /\ part \in Seq(Bytes)
      /\ k \in Nat /\ k + Len(part) <= Len(text)
      /\ \A i \in 1 .. Len(part) : part[i] = text[k + i]
  BY DEF IsPart
<1>1. \A m \in 0 .. Len(text) - 1 : U[m + 1] = UnescapeChar(U[m], text[m + 1])
  BY <1>0, Steps
<1>2. V[0] = v /\ \A m \in 0 .. Len(part) - 1 :
                    part[m + 1] \in Bytes /\ V[m + 1] = UnescapeChar(V[m], part[m + 1])
  BY <1>0, Steps
<1>3. \A m \in 0 .. Len(part) : V[m] \in Unescapers BY <1>0, Along
<1>4. Len(part) \in Nat /\ Len(text) \in Nat BY <1>0
<1>5. U[k] = Behind(x, v) OBVIOUS
<1> HIDE DEF U, V
<1>6. 0 \in T
  <2>1. k + 0 = k BY <1>0
  <2> QED BY <1>2, <1>4, <1>5, <2>1
<1>7. ASSUME NEW m \in T, m < Len(part) PROVE m + 1 \in T
  <2>1. /\ m \in 0 .. Len(part) - 1 /\ m + 1 \in 1 .. Len(part)
        /\ m \in 0 .. Len(part) /\ m + 1 \in 0 .. Len(part)
        /\ k + m \in 0 .. Len(text) - 1 /\ (k + m) + 1 = k + (m + 1)
    <3>1. k \in Nat /\ k + Len(part) <= Len(text) BY <1>0
    <3>2. m \in Nat /\ m <= Len(part) BY <1>4
    <3> QED BY <1>4, <1>7, <3>1, <3>2
  <2>2. U[k + m] = Behind(x, V[m]) OBVIOUS
  <2>3. U[k + (m + 1)] = UnescapeChar(Behind(x, V[m]), text[k + (m + 1)])
    BY <1>1, <2>1, <2>2
  <2>4. part[m + 1] = text[k + (m + 1)] /\ part[m + 1] \in Bytes BY <1>0, <1>2, <2>1
  <2>5. UnescapeChar(Behind(x, V[m]), part[m + 1])
          = Behind(x, UnescapeChar(V[m], part[m + 1]))
    BY <1>3, <2>1, <2>4, CharBehind
  <2>6. U[k + (m + 1)] = Behind(x, V[m + 1]) BY <1>2, <2>1, <2>3, <2>4, <2>5
  <2> QED BY <2>1, <2>6
<1>8. T = 0 .. Len(part)
  <2>1. T \in SUBSET (0 .. Len(part)) OBVIOUS
  <2> HIDE DEF T
  <2> QED BY <1>4, <1>6, <1>7, <2>1, Induction
<1> QED BY <1>8 DEF U, V

LEMMA BehindNothing ==
    ASSUME NEW u \in Unescapers
    PROVE  Behind(<<>>, u) = u
<1>1. u = [out |-> u.out, at |-> u.at, code |-> u.code, ok |-> u.ok]
      /\ u.out \in Seq(Bytes)
  BY UnescaperFields
<1>2. <<>> \o u.out = u.out BY <1>1
<1> QED BY <1>1, <1>2 DEF Behind

\* The same when nothing more was written before.
LEMMA SegmentsAlone ==
    ASSUME NEW u \in Unescapers, NEW text, NEW part,
           NEW k \in Nat, IsPart(part, text, k), Unescapings(u, text)[k] \in Unescapers,
           NEW n \in 0 .. Len(part)
    PROVE  Unescapings(u, text)[k + n]
             = Unescapings(Unescapings(u, text)[k], part)[n]
<1> DEFINE v == Unescapings(u, text)[k]
           z == Unescapings(v, part)[n]
<1>1. PICK x \in Seq(Bytes) : x = <<>>
  <2>1. <<>> \in Seq(Bytes) OBVIOUS
  <2> QED BY <2>1, Zenon
<1>2. v \in Unescapers OBVIOUS
<1>3. Unescapings(u, text)[k] = Behind(x, v) BY <1>1, <1>2, BehindNothing
<1> HIDE DEF v
<1>4. Unescapings(u, text)[k + n] = Behind(x, z) BY <1>2, <1>3, Segments
<1>5. part \in Seq(Bytes) BY DEF IsPart
<1>6. z \in Unescapers BY <1>2, <1>5, Along
<1> HIDE DEF z
<1>7. Unescapings(u, text)[k + n] = z BY <1>1, <1>4, <1>6, BehindNothing
<1> QED BY <1>7 DEF v, z

-----------------------------------------------------------------------------
(***************************************************************************)
(* Quotes: what quotes_escaped finds, looking back from a quote, is what   *)
(* unescaping finds on its way to it.                                      *)
(***************************************************************************)
\* There is a run of backslashes before i, from s.
Run(text, s, i) == /\ \A j \in s .. i - 1 : text[j] = Backslash
                   /\ s = 1 \/ text[s - 1] # Backslash

LEMMA EscapedByRun ==
    ASSUME NEW text, NEW i \in Nat \ {0}
    PROVE  QuotesEscaped(text, i)
             <=> \E s \in 1 .. i - 1 : (i - s) % 2 = 1 /\ Run(text, s, i)
<1>1. ASSUME QuotesEscaped(text, i)
      PROVE  \E s \in 1 .. i - 1 : (i - s) % 2 = 1 /\ Run(text, s, i)
  <2>1. PICK n \in 1 .. i - 1 : /\ n % 2 = 1
                                /\ \A j \in i - n .. i - 1 : text[j] = Backslash
                                /\ i - n = 1 \/ text[i - n - 1] # Backslash
    BY <1>1 DEF QuotesEscaped
  <2> DEFINE s == i - n
  <2>2. s \in 1 .. i - 1 /\ i - s = n OBVIOUS
  <2>3. Run(text, s, i) BY <2>1 DEF Run
  <2> HIDE DEF s
  <2> QED BY <2>1, <2>2, <2>3
<1>2. ASSUME NEW s \in 1 .. i - 1, (i - s) % 2 = 1, Run(text, s, i)
      PROVE  QuotesEscaped(text, i)
  <2> DEFINE n == i - s
  <2>1. n \in 1 .. i - 1 /\ i - n = s OBVIOUS
  <2>2. n % 2 = 1 BY <1>2
  <2> HIDE DEF n
  <2>3. /\ \A j \in i - n .. i - 1 : text[j] = Backslash
        /\ i - n = 1 \/ text[i - n - 1] # Backslash
    BY <1>2, <2>1 DEF Run
  <2> QED BY <2>1, <2>2, <2>3 DEF QuotesEscaped
<1> QED BY <1>1, <1>2

\* At most one run ends at a place.
LEMMA OneRun ==
    ASSUME NEW text, NEW i \in Nat, NEW s \in 1 .. i, NEW t \in 1 .. i,
           Run(text, s, i), Run(text, t, i)
    PROVE  s = t
<1>1. ASSUME NEW a \in 1 .. i, NEW b \in 1 .. i, a < b, Run(text, a, i), Run(text, b, i)
      PROVE  FALSE
  <2>1. b - 1 \in a .. i - 1 /\ b # 1 BY <1>1
  <2>2. text[b - 1] = Backslash BY <1>1, <2>1 DEF Run
  <2>3. text[b - 1] # Backslash BY <1>1, <2>1 DEF Run
  <2> QED BY <2>2, <2>3
<1>2. s < t \/ t < s \/ s = t OBVIOUS
<1> QED BY <1>1, <1>2

\* And one does at each, if it is empty at times.
LEMMA SomeRun ==
    ASSUME NEW text, NEW i \in Nat \ {0}
    PROVE  \E s \in 1 .. i : Run(text, s, i)
<1> DEFINE T == {s \in 1 .. i : \A j \in s .. i - 1 : text[j] = Backslash}
<1>1. i \in T OBVIOUS
<1>2. T \in SUBSET Nat OBVIOUS
<1>3. PICK s \in T : \A y \in T : s <= y BY <1>1, <1>2, LeastNumber
<1>4. CASE s = 1 BY <1>3, <1>4 DEF Run
<1>5. CASE s # 1 /\ text[s - 1] # Backslash BY <1>3, <1>5 DEF Run
<1>6. ~(s # 1 /\ text[s - 1] = Backslash)
  <2> SUFFICES ASSUME s # 1, text[s - 1] = Backslash PROVE FALSE OBVIOUS
  <2>1. s - 1 \in 1 .. i OBVIOUS
  <2>2. \A j \in s - 1 .. i - 1 : j = s - 1 \/ j \in s .. i - 1 OBVIOUS
  <2>3. s - 1 \in T BY <2>1, <2>2
  <2>4. s <= s - 1 BY <1>3, <2>3
  <2> QED BY <2>4
<1> QED BY <1>4, <1>5, <1>6

\* A quote is escaped by a backslash that is not escaped itself.
LEMMA EscapedNext ==
    ASSUME NEW text, NEW i \in Nat \ {0}
    PROVE  QuotesEscaped(text, i + 1)
             <=> text[i] = Backslash /\ ~QuotesEscaped(text, i)
<1>1. \A s \in 1 .. i : Run(text, s, i + 1) <=> Run(text, s, i) /\ text[i] = Backslash
  <2> SUFFICES ASSUME NEW s \in 1 .. i
               PROVE  Run(text, s, i + 1) <=> Run(text, s, i) /\ text[i] = Backslash
    OBVIOUS
  <2>1. \A j \in s .. (i + 1) - 1 : j = i \/ j \in s .. i - 1 OBVIOUS
  <2>2. i \in s .. (i + 1) - 1 /\ \A j \in s .. i - 1 : j \in s .. (i + 1) - 1
    OBVIOUS
  <2> QED BY <2>1, <2>2 DEF Run
<1>2. PICK s \in 1 .. i : Run(text, s, i) BY SomeRun
<1>3. i + 1 \in Nat \ {0} /\ (i + 1) - 1 = i /\ 1 .. i - 1 \in SUBSET (1 .. i)
  OBVIOUS
<1>4. QuotesEscaped(text, i + 1)
        <=> \E t \in 1 .. i : ((i + 1) - t) % 2 = 1 /\ Run(text, t, i + 1)
  BY <1>3, EscapedByRun
<1>5. QuotesEscaped(text, i + 1) <=> ((i + 1) - s) % 2 = 1 /\ text[i] = Backslash
  BY <1>1, <1>2, <1>4, OneRun
<1>6. QuotesEscaped(text, i) <=> (i - s) % 2 = 1
  <2>1. QuotesEscaped(text, i)
          <=> \E t \in 1 .. i - 1 : (i - t) % 2 = 1 /\ Run(text, t, i)
    BY EscapedByRun
  <2>2. (i - s) % 2 = 1 => s \in 1 .. i - 1 OBVIOUS
  <2>3. \A t \in 1 .. i - 1 : Run(text, t, i) => t = s BY <1>2, <1>3, OneRun
  <2> QED BY <1>2, <2>1, <2>2, <2>3
<1>7. ((i + 1) - s) % 2 = 1 <=> ~((i - s) % 2 = 1)
  <2> DEFINE d == i - s
  <2>1. d \in Nat /\ (i + 1) - s = d + 1 OBVIOUS
  <2> HIDE DEF d
  <2>2. (d + 1) % 2 = 1 <=> ~(d % 2 = 1) BY <2>1
  <2> QED BY <2>1, <2>2 DEF d
<1> QED BY <1>5, <1>6, <1>7

LEMMA EscapedFirst ==
    ASSUME NEW text PROVE ~QuotesEscaped(text, 1)
BY DEF QuotesEscaped

\* What a character that is not wrong does to the place in an escape sequence.
LEMMA CharAt ==
    ASSUME NEW w \in Unescapers, NEW c \in Bytes, UnescapeChar(w, c).ok
    PROVE  /\ w.ok
           /\ UnescapeChar(w, c).at = 1 <=> w.at = 0 /\ c = Backslash
           /\ w.at \in 2 .. 5 => IsHex[c]
           /\ w.at # 0 /\ UnescapeChar(w, c).at # 0 => UnescapeChar(w, c).out = w.out
<1> DEFINE v == UnescapeChar(w, c)
<1>1. v.ok OBVIOUS
<1> SUFFICES /\ w.ok
             /\ v.at = 1 <=> w.at = 0 /\ c = Backslash
             /\ w.at \in 2 .. 5 => IsHex[c]
             /\ w.at # 0 /\ v.at # 0 => v.out = w.out
  OBVIOUS
<1> HIDE DEF v
<1>3. \/ ~w.ok /\ v = w
      \/ w.ok /\ w.at = 0 /\ c # Backslash /\ v = [w EXCEPT !.out = Append(@, c)]
      \/ w.ok /\ w.at = 0 /\ c = Backslash /\ v = [w EXCEPT !.at = 1]
      \/ w.ok /\ w.at = 1 /\ IsEscape[c]
         /\ v = Unescaping(Append(w.out, Unescaped[c]), 0, 0)
      \/ w.ok /\ w.at = 1 /\ ~IsEscape[c] /\ c = 117 /\ v = Unescaping(w.out, 2, 0)
      \/ w.ok /\ w.at = 1 /\ ~IsEscape[c] /\ c # 117 /\ v = Bad(w)
      \/ w.ok /\ w.at \in 2 .. 5 /\ ~IsHex[c] /\ v = Bad(w)
      \/ w.ok /\ w.at \in 2 .. 4 /\ IsHex[c]
         /\ v = Unescaping(w.out, w.at + 1, w.code + HexValue[c] * Worth[w.at])
      \/ w.ok /\ w.at = 5 /\ IsHex[c]
         /\ v = Unescaping(w.out \o Utf8(w.code + HexValue[c]), 0, 0)
  BY CharSteps, Zenon DEF v
<1>4. w = [out |-> w.out, at |-> w.at, code |-> w.code, ok |-> w.ok]
  BY UnescaperFields
<1>5. CASE ~w.ok /\ v = w BY <1>1, <1>5
<1>6. CASE w.ok /\ w.at = 0 /\ c # Backslash /\ v = [w EXCEPT !.out = Append(@, c)]
  <2>1. v.at = w.at BY <1>4, <1>6
  <2> QED BY <1>6, <2>1
<1>7. CASE w.ok /\ w.at = 0 /\ c = Backslash /\ v = [w EXCEPT !.at = 1]
  <2>1. v.at = 1 BY <1>4, <1>7
  <2> QED BY <1>7, <2>1
<1>8. CASE w.ok /\ w.at = 1 /\ v = Unescaping(Append(w.out, Unescaped[c]), 0, 0)
  <2>1. v.at = 0 BY <1>8 DEF Unescaping
  <2> QED BY <1>8, <2>1
<1>9. CASE w.ok /\ w.at = 1 /\ v = Unescaping(w.out, 2, 0)
  <2>1. v.at = 2 /\ v.out = w.out BY <1>9 DEF Unescaping
  <2> QED BY <1>9, <2>1
<1>10. CASE v = Bad(w)
  <2>1. ~v.ok BY <1>4, <1>10 DEF Bad
  <2> QED BY <1>1, <2>1
<1>11. CASE w.ok /\ w.at \in 2 .. 4 /\ IsHex[c]
            /\ v = Unescaping(w.out, w.at + 1, w.code + HexValue[c] * Worth[w.at])
  <2> DEFINE code == w.code + HexValue[c] * Worth[w.at]
  <2>1. v = Unescaping(w.out, w.at + 1, code) BY <1>11
  <2> HIDE DEF code
  <2>2. v.at = w.at + 1 /\ v.out = w.out BY <2>1 DEF Unescaping
  <2> QED BY <1>11, <2>2
<1>12. CASE w.ok /\ w.at = 5 /\ IsHex[c]
            /\ v = Unescaping(w.out \o Utf8(w.code + HexValue[c]), 0, 0)
  <2>1. v.at = 0 BY <1>12 DEF Unescaping
  <2> QED BY <1>12, <2>1
<1> QED BY <1>3, <1>5, <1>6, <1>7, <1>8, <1>9, <1>10, <1>11, <1>12, Zenon

\* While nothing is wrong, a quote is escaped if unescaping is behind a
\* backslash.
LEMMA Parity ==
    ASSUME NEW u \in Unescapers, u.ok, u.at = 0, NEW text \in Seq(Bytes),
           NEW n \in 0 .. Len(text), Unescapings(u, text)[n].ok
    PROVE  Unescapings(u, text)[n].at = 1 <=> QuotesEscaped(text, n + 1)
<1> DEFINE U == Unescapings(u, text)
           Good(k) == U[k].ok => (U[k].at = 1 <=> QuotesEscaped(text, k + 1))
           T == {k \in 0 .. Len(text) : Good(k)}
<1>1. U[0] = u /\ \A k \in 0 .. Len(text) - 1 :
                    text[k + 1] \in Bytes /\ U[k + 1] = UnescapeChar(U[k], text[k + 1])
  BY Steps
<1>2. /\ Len(text) \in Nat
      /\ \A k \in 0 .. Len(text) : U[k] \in Unescapers
  <2>1. \A k \in 0 .. Len(text) : U[k] \in Unescapers BY Along
  <2> QED BY <2>1
<1> HIDE DEF U
<1>3. 0 \in T
  <2>1. 0 + 1 = 1 /\ 0 \in 0 .. Len(text) BY <1>2
  <2> QED BY <1>1, <2>1, EscapedFirst
<1>4. ASSUME NEW k \in T, k < Len(text) PROVE k + 1 \in T
  <2>1. k \in 0 .. Len(text) - 1 /\ k \in 0 .. Len(text) /\ k + 1 \in 0 .. Len(text)
        /\ k + 1 \in Nat \ {0}
    BY <1>2, <1>4
  <2>2. Good(k) OBVIOUS
  <2>3. /\ U[k] \in Unescapers /\ text[k + 1] \in Bytes
        /\ U[k + 1] = UnescapeChar(U[k], text[k + 1])
    BY <1>1, <1>2, <2>1
  <2>4. U[k + 1].ok => U[k].ok /\ (U[k + 1].at = 1 <=> U[k].at = 0 /\ text[k + 1] = Backslash)
    BY <2>3, CharAt
  <2>5. QuotesEscaped(text, k + 1 + 1)
          <=> text[k + 1] = Backslash /\ ~QuotesEscaped(text, k + 1)
    BY <2>1, EscapedNext
  <2>6. ASSUME U[k + 1].ok
        PROVE  U[k + 1].at = 1 <=> QuotesEscaped(text, k + 1 + 1)
    <3>1. U[k].at \in 2 .. 5 => text[k + 1] # Backslash
      BY <2>3, <2>6, CharAt, Characters
    <3>2. U[k].at \in 0 .. 5 BY <2>3, Sizes
    <3>3. U[k].at = 1 <=> QuotesEscaped(text, k + 1) BY <2>2, <2>4, <2>6
    <3> QED BY <2>4, <2>5, <2>6, <3>1, <3>2, <3>3
  <2>7. Good(k + 1) BY <2>6
  <2> QED BY <2>1, <2>7
<1>5. T = 0 .. Len(text)
  <2>1. T \in SUBSET (0 .. Len(text)) OBVIOUS
  <2> HIDE DEF T
  <2> QED BY <1>2, <1>3, <1>4, <2>1, Induction
<1>6. Good(n) BY <1>5
<1> QED BY <1>6 DEF U

-----------------------------------------------------------------------------
(***************************************************************************)
(* Where a string ends, and what it is then.                               *)
(***************************************************************************)
\* From a place that is not escaped, the quotes that end a part of a text are
\* those that end it in the text.
LEMMA SegmentEnds ==
    ASSUME NEW text, NEW part, NEW k \in Nat, IsPart(part, text, k),
           ~QuotesEscaped(text, k + 1)
    PROVE  \A i \in 1 .. Len(part) : i \in Ends(part) <=> k + i \in Ends(text)
<1> DEFINE Same(m) == QuotesEscaped(part, m + 1) <=> QuotesEscaped(text, k + m + 1)
           T == {m \in 0 .. Len(part) : Same(m)}
<1>0. /\ text \in Seq(Bytes) /\ part \in Seq(Bytes)
      /\ k \in Nat /\ k + Len(part) <= Len(text)
      /\ \A i \in 1 .. Len(part) : part[i] = text[k + i]
  BY DEF IsPart
<1>1. Len(part) \in Nat /\ Len(text) \in Nat
      /\ DOMAIN part = 1 .. Len(part) /\ DOMAIN text = 1 .. Len(text)
  BY <1>0
<1>2. 0 \in T
  <2>1. k + 0 + 1 = k + 1 /\ 0 + 1 = 1 /\ 0 \in 0 .. Len(part) BY <1>0, <1>1
  <2> QED BY <2>1, EscapedFirst
<1>3. ASSUME NEW m \in T, m < Len(part) PROVE m + 1 \in T
  <2>1. /\ m + 1 \in 0 .. Len(part) /\ m + 1 \in 1 .. Len(part)
        /\ m + 1 \in Nat \ {0} /\ k + m + 1 \in Nat \ {0}
        /\ k + (m + 1) = k + m + 1
    BY <1>0, <1>1, <1>3
  <2>2. Same(m) OBVIOUS
  <2>3. QuotesEscaped(part, m + 1 + 1)
          <=> part[m + 1] = Backslash /\ ~QuotesEscaped(part, m + 1)
    BY <2>1, EscapedNext
  <2>4. QuotesEscaped(text, k + m + 1 + 1)
          <=> text[k + m + 1] = Backslash /\ ~QuotesEscaped(text, k + m + 1)
    BY <2>1, EscapedNext
  <2>5. part[m + 1] = text[k + m + 1] BY <1>0, <2>1
  <2>6. Same(m + 1) BY <2>1, <2>2, <2>3, <2>4, <2>5
  <2> QED BY <2>1, <2>6
<1>4. T = 0 .. Len(part)
  <2>1. T \in SUBSET (0 .. Len(part)) OBVIOUS
  <2> HIDE DEF T
  <2> QED BY <1>1, <1>2, <1>3, <2>1, Induction
<1>5. ASSUME NEW i \in 1 .. Len(part)
      PROVE  i \in Ends(part) <=> k + i \in Ends(text)
  <2>1. i - 1 \in 0 .. Len(part) /\ (i - 1) + 1 = i /\ k + (i - 1) + 1 = k + i
        /\ k + i \in 1 .. Len(text)
    BY <1>0, <1>1
  <2>2. Same(i - 1) BY <1>4, <2>1
  <2>3. QuotesEscaped(part, i) <=> QuotesEscaped(text, k + i) BY <2>1, <2>2
  <2>4. part[i] = text[k + i] BY <1>0
  <2> QED BY <1>1, <2>1, <2>3, <2>4 DEF Ends
<1> QED BY <1>5

\* The string ends at e, or nowhere if e is beyond the text.
FirstEnd(text, e) ==
    /\ e \in 1 .. Len(text) + 1
    /\ e \in Ends(text) \cup {Len(text) + 1}
    /\ \A i \in 1 .. Len(text) : i \in Ends(text) => e <= i

LEMMA SomeEnd ==
    ASSUME NEW text \in Seq(Bytes)
    PROVE  \E e : FirstEnd(text, e)
<1> DEFINE T == Ends(text) \cup {Len(text) + 1}
<1>1. T \in SUBSET Nat /\ T # {} BY DEF Ends
<1>2. PICK e \in T : \A y \in T : e <= y BY <1>1, LeastNumber
<1>3. Len(text) \in Nat /\ DOMAIN text = 1 .. Len(text) OBVIOUS
<1>4. e \in 1 .. Len(text) + 1 BY <1>3 DEF Ends
<1> QED BY <1>2, <1>4 DEF FirstEnd

LEMMA BodyIs ==
    ASSUME NEW text \in Seq(Bytes), NEW e, FirstEnd(text, e)
    PROVE  /\ Body(text) = SubSeq(text, 1, e - 1)
           /\ Body(text) \in Seq(Bytes) /\ Len(Body(text)) = e - 1
           /\ \A i \in 1 .. e - 1 : Body(text)[i] = text[i]
           /\ Ends(text) # {} <=> e <= Len(text)
<1> DEFINE T == Ends(text) \cup {Len(text) + 1}
           Is(i) == i \in T /\ \A j \in T : i <= j
<1>1. Len(text) \in Nat /\ DOMAIN text = 1 .. Len(text) OBVIOUS
<1>2. Ends(text) \in SUBSET (1 .. Len(text)) BY <1>1 DEF Ends
<1>3. e \in 1 .. Len(text) + 1 BY DEF FirstEnd
<1>4. Is(e) BY <1>1, <1>2, <1>3 DEF FirstEnd
<1>5. \A i : Is(i) => i = e
  <2> SUFFICES ASSUME NEW i, Is(i) PROVE i = e OBVIOUS
  <2>1. i <= e /\ e <= i BY <1>4
  <2>2. i \in 1 .. Len(text) + 1 BY <1>1, <1>2
  <2> QED BY <1>3, <2>1, <2>2
<1>6. (CHOOSE i \in T : \A j \in T : i <= j) = e
  <2> HIDE DEF T
  <2> QED BY <1>4, <1>5
<1>7. Body(text) = SubSeq(text, 1, e - 1) BY <1>6 DEF Body
<1>8. /\ SubSeq(text, 1, e - 1) \in Seq(Bytes)
      /\ Len(SubSeq(text, 1, e - 1)) = e - 1
      /\ \A i \in 1 .. e - 1 : SubSeq(text, 1, e - 1)[i] = text[i]
  BY <1>1, <1>3
<1>9. Ends(text) # {} <=> e <= Len(text)
  <2>1. CASE e \in Ends(text) BY <1>2, <2>1
  <2>2. CASE e = Len(text) + 1
    <3>1. ~(e <= Len(text)) BY <1>1, <2>2
    <3>2. \A i \in Ends(text) : FALSE BY <1>1, <1>2, <2>2 DEF FirstEnd
    <3> QED BY <3>1, <3>2
  <2> QED BY <2>1, <2>2 DEF FirstEnd
<1> HIDE DEF T
<1> QED BY <1>7, <1>8, <1>9

\* What the body stands for, from v, is where unescaping is before the end.
LEMMA BodyUnescaped ==
    ASSUME NEW v \in Unescapers, NEW text \in Seq(Bytes), NEW e, FirstEnd(text, e)
    PROVE  /\ Unescape(v, Body(text)) = Unescapings(v, text)[e - 1]
           /\ e - 1 \in 0 .. Len(text)
<1> DEFINE body == Body(text)
<1>1. body \in Seq(Bytes) /\ Len(body) = e - 1 /\ \A i \in 1 .. e - 1 : body[i] = text[i]
  BY BodyIs
<1>2. e \in 1 .. Len(text) + 1 /\ Len(text) \in Nat BY DEF FirstEnd
<1>3. e - 1 \in 0 .. Len(text) BY <1>2
<1> HIDE DEF body
<1>4. PICK k \in Nat : k = 0 OBVIOUS
<1>5. IsPart(body, text, k) /\ e - 1 \in 0 .. Len(body) /\ body \in Seq(Bytes)
  BY <1>1, <1>2, <1>4 DEF IsPart
<1>6. Unescapings(v, text)[k] = v BY <1>4, Steps
<1>7. ASSUME NEW n \in 0 .. Len(body)
      PROVE  Unescapings(v, text)[k + n] = Unescapings(v, body)[n]
  BY <1>5, <1>6, SegmentsAlone
<1>8. Unescapings(v, text)[e - 1] = Unescapings(v, body)[e - 1]
  <2>1. k + (e - 1) = e - 1 BY <1>2, <1>4
  <2> QED BY <1>5, <1>7, <2>1
<1> QED BY <1>1, <1>3, <1>8 DEF Unescape, body

LEMMA PlainIs == Plain \in Unescapers /\ Plain.ok /\ Plain.at = 0 /\ Plain.out = <<>>
<1>1. <<>> \in Seq(Bytes) /\ 0 \in 0 .. 2 OBVIOUS
<1>2. Plain \in Unescapers BY <1>1, Fresh DEF Plain
<1> QED BY <1>2 DEF Plain, Unescaping

LEMMA DecodedIs ==
    ASSUME NEW text \in Seq(Bytes), NEW e, FirstEnd(text, e)
    PROVE  LET u == Unescapings(Plain, text)[e - 1] IN
           /\ e <= Len(text) /\ u.ok /\ u.at = 0 => Decoded(text) = u.out
           /\ ~(e <= Len(text) /\ u.ok /\ u.at = 0) => Decoded(text) = Malformed
<1> DEFINE u == Unescape(Plain, Body(text))
<1>1. u = Unescapings(Plain, text)[e - 1] BY PlainIs, BodyUnescaped
<1>2. Ends(text) # {} <=> e <= Len(text) BY BodyIs
<1>3. Decoded(text) = IF Ends(text) # {} /\ u.ok /\ u.at = 0 THEN u.out ELSE Malformed
  BY DEF Decoded
<1> HIDE DEF u
<1> QED BY <1>1, <1>2, <1>3

\* A text is no string if unescaping fails at j, and up to there does not end
\* outside of an escape sequence.
LEMMA Hopeless ==
    ASSUME NEW text \in Seq(Bytes), NEW j \in 0 .. Len(text),
           ~Unescapings(Plain, text)[j].ok,
           \A i \in 1 .. j : i \in Ends(text) => Unescapings(Plain, text)[i - 1].at # 0
    PROVE  Decoded(text) = Malformed
<1> DEFINE U == Unescapings(Plain, text)
<1>1. PICK e : FirstEnd(text, e) BY SomeEnd
<1>2. Len(text) \in Nat /\ e \in 1 .. Len(text) + 1
      /\ e \in Ends(text) \cup {Len(text) + 1}
  BY <1>1 DEF FirstEnd
<1>3. CASE e <= j
  <2>1. e \in 1 .. j /\ e \in Ends(text) BY <1>2, <1>3
  <2>2. U[e - 1].at # 0 BY <2>1
  <2> QED BY <1>1, <2>2, DecodedIs
<1>4. CASE j < e
  <2>1. e - 1 \in 0 .. Len(text) /\ j \in 0 .. e - 1 BY <1>2, <1>4
  <2>2. U[e - 1].ok => U[j].ok BY <2>1, PlainIs, Along
  <2>3. ~U[e - 1].ok BY <2>2
  <2> QED BY <1>1, <2>3, DecodedIs
<1> QED BY <1>2, <1>3, <1>4

-----------------------------------------------------------------------------
(***************************************************************************)
(* A chunk, from where the last one left off.                              *)
(***************************************************************************)
\* Where a text has been parsed to k without an end and nothing is begun there,
\* its next part tells what it is, or that it goes on.
LEMMA GoesOn ==
    ASSUME NEW text, NEW part, NEW k \in Nat, IsPart(part, text, k),
           Unescapings(Plain, text)[k] \in Unescapers,
           Unescapings(Plain, text)[k].ok, Unescapings(Plain, text)[k].at = 0,
           \A i \in 1 .. k : i \notin Ends(text)
    PROVE  LET v == Unescapings(Plain, text)[k]
               u == Unescape(v, Body(part))
           IN  /\ u \in Unescapers /\ Len(Body(part)) \in Nat
               /\ Len(u.out) <= Len(v.out) + Len(Body(part))
               /\ Ends(part) # {} /\ u.ok /\ u.at = 0 => Decoded(text) = u.out
               /\ Ends(part) # {} /\ ~(u.ok /\ u.at = 0) => Decoded(text) = Malformed
               /\ Ends(part) = {} => /\ u = Unescapings(Plain, text)[k + Len(part)]
                                     /\ \A i \in 1 .. k + Len(part) : i \notin Ends(text)
                                     /\ ~u.ok => Decoded(text) = Malformed
<1> DEFINE U == Unescapings(Plain, text)
           v == U[k]
           u == Unescape(v, Body(part))
<1>0. /\ text \in Seq(Bytes) /\ part \in Seq(Bytes)
      /\ k + Len(part) <= Len(text) /\ Len(part) \in Nat /\ Len(text) \in Nat
      /\ DOMAIN text = 1 .. Len(text) /\ DOMAIN part = 1 .. Len(part)
      /\ k \in 0 .. Len(text)
  <2>1. /\ text \in Seq(Bytes) /\ part \in Seq(Bytes)
        /\ k + Len(part) <= Len(text)
    BY DEF IsPart
  <2> QED BY <2>1
<1>1. PICK e : FirstEnd(part, e) BY <1>0, SomeEnd
<1>2. /\ e \in 1 .. Len(part) + 1 /\ e \in Ends(part) \cup {Len(part) + 1}
      /\ \A i \in 1 .. Len(part) : i \in Ends(part) => e <= i
  BY <1>1 DEF FirstEnd
<1>3. Len(Body(part)) = e - 1 /\ (Ends(part) # {} <=> e <= Len(part))
  BY <1>0, <1>1, BodyIs
<1>4. u = Unescapings(v, part)[e - 1] /\ e - 1 \in 0 .. Len(part)
  BY <1>0, <1>1, BodyUnescaped
<1>5. /\ u \in Unescapers
      /\ Len(u.out) + u.at <= Len(v.out) + v.at + (e - 1)
  <2>1. /\ Unescapings(v, part)[e - 1] \in Unescapers
        /\ Len(Unescapings(v, part)[e - 1].out) + Unescapings(v, part)[e - 1].at
             <= Len(v.out) + v.at + (e - 1)
    BY <1>0, <1>4, Along
  <2> QED BY <1>4, <2>1
<1>6. u = U[k + (e - 1)]
  <2>1. ASSUME NEW n \in 0 .. Len(part) PROVE U[k + n] = Unescapings(v, part)[n]
    BY PlainIs, SegmentsAlone
  <2> QED BY <1>4, <2>1
<1>7. ~QuotesEscaped(text, k + 1) BY <1>0, PlainIs, Parity
<1>8. \A i \in 1 .. Len(part) : i \in Ends(part) <=> k + i \in Ends(text)
  BY <1>7, SegmentEnds
<1>9. v.at = 0 /\ \A i \in 1 .. k : i \notin Ends(text) OBVIOUS
<1> HIDE DEF u, v, U
<1>10. Len(u.out) <= Len(v.out) + Len(Body(part))
  <2>1. Len(u.out) \in Nat /\ u.at \in Nat BY <1>5, Sizes
  <2>2. Len(u.out) + u.at <= Len(v.out) + 0 + (e - 1) BY <1>5, <1>9
  <2>3. Len(v.out) \in Nat BY <1>9, Sizes DEF v, U
  <2>4. Len(Body(part)) \in Nat /\ e - 1 = Len(Body(part)) BY <1>3, <1>4
  <2>5. \A a, b, c, d \in Nat : a + b <= c + 0 + d => a <= c + d OBVIOUS
  <2>6. Len(u.out) + u.at <= Len(v.out) + 0 + Len(Body(part)) BY <2>2, <2>4, Zenon
  <2> QED BY <2>1, <2>3, <2>4, <2>5, <2>6, Zenon
<1>11. ASSUME e <= Len(part)
       PROVE  FirstEnd(text, k + e) /\ (k + e) - 1 = k + (e - 1) /\ k + e <= Len(text)
  <2>1. e \in 1 .. Len(part) /\ e \in Ends(part) BY <1>0, <1>2, <1>11
  <2>2. k + e \in Ends(text) BY <1>8, <2>1
  <2>3. k + e \in 1 .. Len(text) /\ (k + e) - 1 = k + (e - 1) BY <1>0, <2>1
  <2>4. ASSUME NEW i \in 1 .. Len(text), i \in Ends(text), i < k + e PROVE FALSE
    <3>1. i \notin 1 .. k BY <1>9, <2>4
    <3>2. i - k \in 1 .. Len(part) /\ k + (i - k) = i /\ i - k < e
      BY <1>0, <2>1, <2>4, <3>1
    <3>3. i - k \in Ends(part) BY <1>8, <2>4, <3>2
    <3>4. e <= i - k BY <1>2, <3>2, <3>3
    <3> QED BY <2>1, <3>2, <3>4
  <2>5. \A i \in 1 .. Len(text) : i \in Ends(text) => k + e <= i
    BY <1>0, <2>1, <2>4
  <2> QED BY <1>0, <2>2, <2>3, <2>5 DEF FirstEnd
<1>12. ASSUME e <= Len(part)
       PROVE  /\ u.ok /\ u.at = 0 => Decoded(text) = u.out
              /\ ~(u.ok /\ u.at = 0) => Decoded(text) = Malformed
  <2>1. FirstEnd(text, k + e) /\ k + e <= Len(text) /\ U[(k + e) - 1] = u
    BY <1>6, <1>11, <1>12
  <2>2. /\ U[(k + e) - 1].ok /\ U[(k + e) - 1].at = 0
             => Decoded(text) = U[(k + e) - 1].out
        /\ ~(U[(k + e) - 1].ok /\ U[(k + e) - 1].at = 0) => Decoded(text) = Malformed
    BY <1>0, <2>1, DecodedIs DEF U
  <2> QED BY <2>1, <2>2
<1>13. ASSUME Ends(part) = {}
       PROVE  /\ u = U[k + Len(part)]
              /\ \A i \in 1 .. k + Len(part) : i \notin Ends(text)
              /\ ~u.ok => Decoded(text) = Malformed
  <2>1. e = Len(part) + 1 BY <1>2, <1>13
  <2>2. u = U[k + Len(part)] BY <1>0, <1>6, <2>1
  <2>3. ASSUME NEW i \in 1 .. k + Len(part) PROVE i \notin Ends(text)
    <3>1. CASE i \in 1 .. k BY <1>9, <3>1
    <3>2. CASE i \notin 1 .. k
      <4>1. i - k \in 1 .. Len(part) /\ k + (i - k) = i BY <1>0, <3>2
      <4> QED BY <1>8, <1>13, <4>1
    <3> QED BY <3>1, <3>2
  <2>4. k + Len(part) \in 0 .. Len(text) BY <1>0
  <2>5. ASSUME ~u.ok PROVE Decoded(text) = Malformed
    <3>1. ~Unescapings(Plain, text)[k + Len(part)].ok BY <2>2, <2>5 DEF U
    <3> QED BY <1>0, <2>3, <2>4, <3>1, Hopeless
  <2> QED BY <2>2, <2>3, <2>5
<1>14. /\ u \in Unescapers /\ Len(Body(part)) \in Nat
       /\ Len(u.out) <= Len(v.out) + Len(Body(part))
       /\ Ends(part) # {} /\ u.ok /\ u.at = 0 => Decoded(text) = u.out
       /\ Ends(part) # {} /\ ~(u.ok /\ u.at = 0) => Decoded(text) = Malformed
       /\ Ends(part) = {} => /\ u = U[k + Len(part)]
                             /\ \A i \in 1 .. k + Len(part) : i \notin Ends(text)
                             /\ ~u.ok => Decoded(text) = Malformed
  <2>1. Len(Body(part)) \in Nat BY <1>3, <1>4
  <2> QED BY <1>3, <1>5, <1>10, <1>12, <1>13, <2>1
<1> QED BY <1>14 DEF u, v, U

\* How far an escape sequence goes, and what it is then.
LEMMA SequenceIs ==
    ASSUME NEW b \in Unescapers, NEW c \in Seq(Bytes)
    PROVE  LET s == InSequence(b, c)
               V == Unescapings(b, c)
           IN  /\ s \in 0 .. Len(c)
               /\ ~V[s].ok \/ V[s].at = 0 \/ s = Len(c)
               /\ \A m \in 0 .. s - 1 : V[m].ok /\ V[m].at # 0
               /\ Unescape(b, SubSeq(c, 1, s)) = V[s]
<1> DEFINE V == Unescapings(b, c)
           Stops(n) == ~V[n].ok \/ V[n].at = 0
           Is(n) == /\ n \in 0 .. Len(c)
                    /\ Stops(n) \/ n = Len(c)
                    /\ \A m \in 0 .. n - 1 : ~Stops(m)
           T == {n \in 0 .. Len(c) : Stops(n) \/ n = Len(c)}
           s == InSequence(b, c)
<1>1. Len(c) \in Nat OBVIOUS
<1>2. \E n : Is(n)
  <2> HIDE DEF Stops
  <2>1. Len(c) \in T /\ T \in SUBSET Nat BY <1>1
  <2>2. PICK n \in T : \A y \in T : n <= y BY <2>1, LeastNumber
  <2>3. ASSUME NEW m \in 0 .. n - 1 PROVE ~Stops(m)
    <3>1. m \in 0 .. Len(c) /\ ~(n <= m) BY <1>1, <2>2
    <3> QED BY <2>2, <3>1
  <2> QED BY <2>2, <2>3
<1>3. s = CHOOSE n \in 0 .. Len(c) : /\ Stops(n) \/ n = Len(c)
                                     /\ \A m \in 0 .. n - 1 : ~Stops(m)
  BY DEF InSequence
<1>4. Is(s)
  <2> HIDE DEF Stops, s
  <2> QED BY <1>2, <1>3
<1>5. PICK k \in Nat : k = 0 OBVIOUS
<1>6. s \in 0 .. Len(c) BY <1>4
<1> HIDE DEF s
<1>7. /\ SubSeq(c, 1, s) \in Seq(Bytes) /\ Len(SubSeq(c, 1, s)) = s
      /\ \A i \in 1 .. s : SubSeq(c, 1, s)[i] = c[i]
  BY <1>1, <1>6
<1>8. Unescape(b, SubSeq(c, 1, s)) = V[s]
  <2> DEFINE part == SubSeq(c, 1, s)
  <2>1. IsPart(part, c, k) /\ s \in 0 .. Len(part) /\ Len(part) = s
    BY <1>1, <1>5, <1>6, <1>7 DEF IsPart
  <2>2. Unescapings(b, c)[k] = b BY <1>5, Steps
  <2> HIDE DEF part
  <2>3. ASSUME NEW n \in 0 .. Len(part)
        PROVE  Unescapings(b, c)[k + n] = Unescapings(b, part)[n]
    BY <2>1, <2>2, SegmentsAlone
  <2>4. k + s = s BY <1>5, <1>6
  <2>5. Unescapings(b, part)[Len(part)] = V[s] BY <2>1, <2>3, <2>4
  <2> QED BY <2>5 DEF Unescape, part
<1>9. /\ s \in 0 .. Len(c)
      /\ ~V[s].ok \/ V[s].at = 0 \/ s = Len(c)
      /\ \A m \in 0 .. s - 1 : V[m].ok /\ V[m].at # 0
  BY <1>4
<1> QED BY <1>8, <1>9 DEF s

LEMMA QuoteNoHex == Quote \in Bytes /\ ~IsHex[Quote]
<1>1. Quote \in Bytes /\ Quote \notin (48 .. 57) \cup (65 .. 70) \cup {97, 98, 99, 102}
      /\ Quote \notin {110, 114} /\ Quote # 116
  BY DEF Quote, Bytes
<1>2. unescape_table[Quote] \in {0, 1, 215} BY <1>1, Entries
<1>3. ~(Bit(unescape_table[Quote], 8) = 1) BY <1>2 DEF Bit
<1> QED BY <1>1, <1>3, Zenon DEF IsHex

\* What has been begun, with what was written before, goes on as the text does:
\* either to the end of the sequence, and no string ends within, or it fails
\* and the text is no string.
LEMMA Finishes ==
    ASSUME NEW text, NEW c, NEW k \in Nat, IsPart(c, text, k),
           NEW b \in Unescapers, b.ok, b.at # 0, b.out = <<>>, NEW x \in Seq(Bytes),
           Unescapings(Plain, text)[k] = Behind(x, b),
           \A i \in 1 .. k : i \notin Ends(text)
    PROVE  LET s == InSequence(b, c)
               d == Unescape(b, SubSeq(c, 1, s))
           IN  /\ s \in 0 .. Len(c) /\ d \in Unescapers
               /\ Unescapings(Plain, text)[k + s] = Behind(x, d)
               /\ d.ok => \A i \in 1 .. k + s : i \notin Ends(text)
               /\ d.ok /\ d.at # 0 => s = Len(c) /\ d.out = <<>>
               /\ ~d.ok => Decoded(text) = Malformed
<1> DEFINE U == Unescapings(Plain, text)
           V == Unescapings(b, c)
           s == InSequence(b, c)
           d == Unescape(b, SubSeq(c, 1, s))
<1>0. /\ text \in Seq(Bytes) /\ c \in Seq(Bytes)
      /\ k + Len(c) <= Len(text) /\ Len(c) \in Nat /\ Len(text) \in Nat
      /\ DOMAIN text = 1 .. Len(text)
  <2>1. text \in Seq(Bytes) /\ c \in Seq(Bytes) /\ k + Len(c) <= Len(text)
    BY DEF IsPart
  <2> QED BY <2>1
<1>1. /\ s \in 0 .. Len(c)
      /\ ~V[s].ok \/ V[s].at = 0 \/ s = Len(c)
      /\ \A m \in 0 .. s - 1 : V[m].ok /\ V[m].at # 0
      /\ d = V[s]
  BY <1>0, SequenceIs
<1>2. \A m \in 0 .. Len(c) : V[m] \in Unescapers BY <1>0, Along
<1>3. \A m \in 0 .. Len(text) : U[m] \in Unescapers BY <1>0, PlainIs, Along
<1>4. V[0] = b /\ \A m \in 0 .. Len(c) - 1 :
                    c[m + 1] \in Bytes /\ V[m + 1] = UnescapeChar(V[m], c[m + 1])
  BY <1>0, Steps
<1>5. ASSUME NEW m \in 0 .. Len(c) PROVE U[k + m] = Behind(x, V[m])
  BY PlainIs, Segments
<1>6. \A m \in 0 .. Len(text) : U[m].ok => (U[m].at = 1 <=> QuotesEscaped(text, m + 1))
  BY <1>0, PlainIs, Parity
<1>7. \A i \in 1 .. k : i \notin Ends(text) OBVIOUS
<1>8. b.out = <<>> /\ b.at # 0 OBVIOUS
<1> HIDE DEF U, V, s, d
<1>9. \A m \in 0 .. Len(c) : U[k + m].ok = V[m].ok /\ U[k + m].at = V[m].at
  <2> SUFFICES ASSUME NEW m \in 0 .. Len(c)
               PROVE  U[k + m].ok = V[m].ok /\ U[k + m].at = V[m].at
    OBVIOUS
  <2>1. U[k + m] = Behind(x, V[m]) BY <1>5
  <2> QED BY <2>1, BehindFields
<1>10. ASSUME NEW m \in 0 .. s - 1, V[m + 1].ok PROVE k + (m + 1) \notin Ends(text)
  <2>1. m \in 0 .. Len(c) - 1 /\ m \in 0 .. Len(c) /\ k + m \in 0 .. Len(text)
        /\ k + (m + 1) = (k + m) + 1 /\ m + 1 \in 1 .. Len(c)
    BY <1>0, <1>1
  <2>2. V[m].ok /\ V[m].at # 0 /\ V[m] \in Unescapers BY <1>1, <1>2, <2>1
  <2>3. V[m].at \in 0 .. 5 BY <2>2, Sizes
  <2>4. c[m + 1] \in Bytes /\ UnescapeChar(V[m], c[m + 1]).ok BY <1>4, <1>10, <2>1
  <2>5. V[m].at \in 2 .. 5 => c[m + 1] # Quote BY <2>2, <2>4, CharAt, QuoteNoHex
  <2>6. V[m].at = 1 => QuotesEscaped(text, k + (m + 1)) BY <1>6, <1>9, <2>1, <2>2
  <2>7. c[m + 1] = text[k + (m + 1)] BY <2>1 DEF IsPart
  <2> QED BY <2>2, <2>3, <2>5, <2>6, <2>7 DEF Ends
<1>11. ASSUME d.ok PROVE \A i \in 1 .. k + s : i \notin Ends(text)
  <2> SUFFICES ASSUME NEW i \in 1 .. k + s PROVE i \notin Ends(text) OBVIOUS
  <2>1. CASE i \in 1 .. k BY <1>7, <2>1
  <2>2. CASE i \notin 1 .. k
    <3> DEFINE m == i - k - 1
    <3>1. m \in 0 .. s - 1 /\ k + (m + 1) = i BY <1>1, <2>2
    <3>2. m + 1 \in 0 .. s - 1 \/ m + 1 = s BY <1>1, <3>1
    <3> HIDE DEF m
    <3>3. V[m + 1].ok BY <1>1, <1>11, <3>2
    <3> QED BY <1>10, <3>1, <3>3
  <2> QED BY <2>1, <2>2
<1>12. ASSUME d.ok, d.at # 0 PROVE s = Len(c) /\ d.out = <<>>
  <2>1. s = Len(c) BY <1>1, <1>12
  <2> DEFINE T == {m \in 0 .. s : V[m].out = <<>>}
  <2>2. 0 \in T BY <1>1, <1>4, <1>8
  <2>3. ASSUME NEW m \in T, m < s PROVE m + 1 \in T
    <3>1. m \in 0 .. s - 1 /\ m + 1 \in 0 .. s /\ m \in 0 .. Len(c)
          /\ m \in 0 .. Len(c) - 1 /\ (m + 1 \in 0 .. s - 1 \/ m + 1 = s)
      BY <1>1, <2>3
    <3>2. V[m].ok /\ V[m].at # 0 /\ V[m] \in Unescapers BY <1>1, <1>2, <3>1
    <3>3. V[m + 1].ok /\ V[m + 1].at # 0 BY <1>1, <1>12, <3>1
    <3>4. c[m + 1] \in Bytes /\ V[m + 1] = UnescapeChar(V[m], c[m + 1]) BY <1>4, <3>1
    <3>5. V[m + 1].out = V[m].out BY <3>2, <3>3, <3>4, CharAt
    <3> QED BY <3>1, <3>5
  <2>4. T = 0 .. s
    <3>1. T \in SUBSET (0 .. s) /\ s \in Nat BY <1>1
    <3> HIDE DEF T
    <3> QED BY <2>2, <2>3, <3>1, Induction
  <2>5. s \in T BY <1>1, <2>4
  <2> QED BY <1>1, <2>1, <2>5
<1>13. k + s \in 0 .. Len(text) BY <1>0, <1>1
<1>14. ASSUME ~d.ok PROVE Decoded(text) = Malformed
  <2>1. ~U[k + s].ok BY <1>1, <1>9, <1>14
  <2>2. ASSUME NEW i \in 1 .. k + s, i \in Ends(text) PROVE U[i - 1].at # 0
    <3>1. i \notin 1 .. k BY <1>7, <2>2
    <3> DEFINE m == i - k - 1
    <3>2. m \in 0 .. s - 1 /\ k + m = i - 1 /\ m \in 0 .. Len(c) BY <1>1, <3>1
    <3> HIDE DEF m
    <3>3. V[m].at # 0 BY <1>1, <3>2
    <3>4. U[k + m].at = V[m].at BY <1>9, <3>2
    <3> QED BY <3>2, <3>3, <3>4
  <2> QED BY <1>0, <1>13, <2>1, <2>2, Hopeless DEF U
<1>15. s \in 0 .. Len(c) /\ d \in Unescapers /\ U[k + s] = Behind(x, d)
  BY <1>1, <1>2, <1>5
<1>16. /\ s \in 0 .. Len(c) /\ d \in Unescapers
       /\ U[k + s] = Behind(x, d)
       /\ d.ok => \A i \in 1 .. k + s : i \notin Ends(text)
       /\ d.ok /\ d.at # 0 => s = Len(c) /\ d.out = <<>>
       /\ ~d.ok => Decoded(text) = Malformed
  BY <1>11, <1>12, <1>14, <1>15
<1> QED BY <1>16 DEF U, s, d

-----------------------------------------------------------------------------
(***************************************************************************)
(* The invariant: what a paused string has in its frame is where the text  *)
(* would be, had it been parsed in one piece.                              *)
(***************************************************************************)
Paused ==
    /\ Begun \in Unescapers
    /\ Unescapings(Plain, document.text)[eaten] = Behind(saved.buf, Begun)
    /\ \A i \in 1 .. eaten : i \notin Ends(document.text)
    /\ Len(saved.buf) <= saved.capacity

Result ==
    /\ status = "done" => value = Decoded(document.text)
    /\ status = "failed" => Decoded(document.text) = Malformed

StringInv ==
    /\ document \in Documents
    /\ TypeOKString
    /\ status = "start" => eaten = 0
    /\ status = "paused" => Paused
    /\ Result
    /\ BufferHolds

LEMMA ChunkIs ==
    ASSUME TypeOKString, NEW n \in 0 .. Len(document.text) - eaten
    PROVE  /\ IsPart(Chunk(n), document.text, eaten)
           /\ Chunk(n) \in Seq(Bytes) /\ Len(Chunk(n)) = n
           /\ eaten + n \in 0 .. Len(document.text) /\ eaten \in Nat /\ n \in Nat
<1>1. document.text \in Seq(Bytes) /\ eaten \in 0 .. Len(document.text)
  BY DEF TypeOKString
<1>2. Len(document.text) \in Nat BY <1>1
<1>3. /\ Chunk(n) \in Seq(Bytes) /\ Len(Chunk(n)) = n
      /\ \A i \in 1 .. n : Chunk(n)[i] = document.text[eaten + i]
  BY <1>1, <1>2 DEF Chunk
<1> QED BY <1>1, <1>2, <1>3 DEF IsPart

LEMMA FrameTypes ==
    ASSUME NEW u \in Unescapers
    PROVE  /\ u.out \in Seq(Bytes) /\ Len(u.out) \in Nat
           /\ u.at \in 0 .. UesUxxx /\ u.code \in Codes
           /\ Unescaping(<<>>, u.at, u.code) \in Unescapers
           /\ u.ok => u = Behind(u.out, Unescaping(<<>>, u.at, u.code))
           /\ u.at = 0 => u.code = 0
<1>1. /\ u.out \in Seq(Bytes) /\ u.at \in 0 .. 5 /\ u.code \in Nat
      /\ u.ok \in BOOLEAN /\ u.code <= Limit[u.at]
  BY UnescaperFields
<1>2. u = [out |-> u.out, at |-> u.at, code |-> u.code, ok |-> u.ok]
  BY UnescaperFields
<1>3. u.code <= 65520 BY <1>1, Limits
<1>4. u.at = 0 => u.code = 0 BY <1>1, Limits
<1>5. <<>> \in Seq(Bytes) /\ TRUE \in BOOLEAN OBVIOUS
<1>6. Unescaping(<<>>, u.at, u.code) \in Unescapers
  BY <1>1, <1>5, UnescaperIs, Zenon DEF Unescaping
<1>7. ASSUME u.ok PROVE u = Behind(u.out, Unescaping(<<>>, u.at, u.code))
  <2>1. u.out \o <<>> = u.out BY <1>1
  <2>2. u.ok = TRUE BY <1>1, <1>7
  <2> QED BY <1>2, <2>1, <2>2 DEF Behind, Unescaping
<1>8. u.code \in Codes
  <2>1. LastCode \in Nat /\ 65520 <= LastCode BY DEF LastCode
  <2>2. \A n \in Nat : n <= 65520 => n \in Codes BY <2>1 DEF Codes
  <2> QED BY <1>1, <1>3, <2>2
<1> QED BY <1>1, <1>4, <1>6, <1>7, <1>8 DEF UesUxxx

LEMMA StringInitially ==
    ASSUME InitString PROVE StringInv
<1>1. document.text \in Seq(Bytes) BY DocumentsAssumption DEF InitString
<1>2. 0 \in Codes /\ <<>> \in Seq(Bytes) BY DEF Codes, LastCode
<1>3. /\ saved.buf = <<>> /\ saved.capacity = 0 /\ saved.at = 0 /\ saved.code = 0
      /\ eaten = 0 /\ status = "start" /\ value = <<>> /\ ~overrun
      /\ overrun \in BOOLEAN /\ document \in Documents
  BY DEF InitString, NoFrame
<1>4. 0 \in 0 .. Len(document.text) /\ 0 \in 0 .. UesUxxx BY <1>1 DEF UesUxxx
<1>5. /\ saved.buf \in Seq(Bytes) /\ saved.capacity \in Nat /\ saved.at \in 0 .. UesUxxx
      /\ saved.code \in Codes /\ eaten \in 0 .. Len(document.text)
  BY <1>2, <1>3, <1>4
<1>6. status \in {"start", "paused", "done", "failed"} /\ value \in Seq(Bytes)
  BY <1>2, <1>3
<1>7. TypeOKString BY <1>1, <1>3, <1>5, <1>6 DEF TypeOKString
<1> QED BY <1>3, <1>7 DEF StringInv, Result, BufferHolds

-----------------------------------------------------------------------------
(***************************************************************************)
(* The ways a chunk ends, and what each needs to keep the invariant.       *)
(***************************************************************************)
LEMMA FinishKeeps ==
    ASSUME StringInv, NEW n \in 0 .. Len(document.text) - eaten, Eats(n),
           NEW bytes \in Seq(Bytes), NEW size \in Nat, Finish(bytes, size),
           Len(bytes) <= size, Decoded(document.text) = bytes
    PROVE  StringInv'
<1>1. TypeOKString /\ document \in Documents /\ ~overrun
  BY DEF StringInv, BufferHolds
<1>2. eaten + n \in 0 .. Len(document.text) BY <1>1, ChunkIs
<1>3. /\ document' = document /\ eaten' = eaten + n /\ status' = "done"
      /\ value' = bytes /\ saved' = NoFrame
      /\ overrun' = (overrun \/ Len(bytes) > size)
  BY DEF Eats, Finish
<1>4. ~(Len(bytes) > size) BY <1>1
<1>5. ~overrun' /\ overrun' \in BOOLEAN BY <1>1, <1>3, <1>4
<1>6. TypeOKString'
  <2>1. 0 \in Codes /\ <<>> \in Seq(Bytes) BY DEF Codes, LastCode
  <2>2. /\ saved'.buf = <<>> /\ saved'.capacity = 0 /\ saved'.at = 0 /\ saved'.code = 0
    BY <1>3 DEF NoFrame
  <2>3. /\ saved'.buf \in Seq(Bytes) /\ saved'.capacity \in Nat
        /\ saved'.at \in 0 .. UesUxxx /\ saved'.code \in Codes
    BY <2>1, <2>2 DEF UesUxxx
  <2>4. document'.text \in Seq(Bytes) /\ eaten' \in 0 .. Len(document'.text)
    BY <1>1, <1>2, <1>3 DEF TypeOKString
  <2>5. value' \in Seq(Bytes) /\ status' \in {"start", "paused", "done", "failed"}
    BY <1>3
  <2> QED BY <1>5, <2>3, <2>4, <2>5 DEF TypeOKString
<1>7. Result'
  <2>1. Decoded(document.text)' = Decoded(document.text) BY <1>3
  <2> QED BY <1>3, <2>1 DEF Result
<1> QED BY <1>1, <1>3, <1>5, <1>6, <1>7 DEF StringInv, BufferHolds

LEMMA FailKeeps ==
    ASSUME StringInv, NEW n \in 0 .. Len(document.text) - eaten, Eats(n),
           FailString, Decoded(document.text) = Malformed
    PROVE  StringInv'
<1>1. TypeOKString /\ document \in Documents /\ ~overrun
  BY DEF StringInv, BufferHolds
<1>2. eaten + n \in 0 .. Len(document.text) BY <1>1, ChunkIs
<1>3. /\ document' = document /\ eaten' = eaten + n /\ status' = "failed"
      /\ value' = value /\ saved' = NoFrame /\ overrun' = overrun
  BY DEF Eats, FailString
<1>4. TypeOKString'
  <2>1. 0 \in Codes /\ <<>> \in Seq(Bytes) BY DEF Codes, LastCode
  <2>2. /\ saved'.buf = <<>> /\ saved'.capacity = 0 /\ saved'.at = 0 /\ saved'.code = 0
    BY <1>3 DEF NoFrame
  <2>3. /\ saved'.buf \in Seq(Bytes) /\ saved'.capacity \in Nat
        /\ saved'.at \in 0 .. UesUxxx /\ saved'.code \in Codes
    BY <2>1, <2>2 DEF UesUxxx
  <2>4. document'.text \in Seq(Bytes) /\ eaten' \in 0 .. Len(document'.text)
    BY <1>1, <1>2, <1>3 DEF TypeOKString
  <2>5. value' \in Seq(Bytes) /\ status' \in {"start", "paused", "done", "failed"}
        /\ overrun' \in BOOLEAN
    BY <1>1, <1>3 DEF TypeOKString
  <2> QED BY <2>3, <2>4, <2>5 DEF TypeOKString
<1>5. Result'
  <2>1. Decoded(document.text)' = Decoded(document.text) BY <1>3
  <2> QED BY <1>3, <2>1 DEF Result
<1> QED BY <1>1, <1>3, <1>4, <1>5 DEF StringInv, BufferHolds

LEMMA SaveKeeps ==
    ASSUME StringInv, NEW n \in 0 .. Len(document.text) - eaten, Eats(n),
           NEW bytes \in Seq(Bytes), NEW size \in Nat, NEW u \in Unescapers,
           SaveString(bytes, size, u), Len(bytes) <= size,
           Unescapings(Plain, document.text)[eaten + n]
             = Behind(bytes, Unescaping(<<>>, u.at, u.code)),
           \A i \in 1 .. eaten + n : i \notin Ends(document.text)
    PROVE  StringInv'
<1>1. TypeOKString /\ document \in Documents /\ ~overrun
  BY DEF StringInv, BufferHolds
<1>2. eaten + n \in 0 .. Len(document.text) BY <1>1, ChunkIs
<1>3. /\ document' = document /\ eaten' = eaten + n /\ status' = "paused"
      /\ value' = value /\ overrun' = (overrun \/ Len(bytes) > size)
      /\ saved' = [buf |-> bytes, capacity |-> size, at |-> u.at, code |-> u.code]
  BY DEF Eats, SaveString
<1>4. ~(Len(bytes) > size) BY <1>1
<1>5. ~overrun' /\ overrun' \in BOOLEAN BY <1>1, <1>3, <1>4
<1>6. /\ saved'.buf = bytes /\ saved'.capacity = size /\ saved'.at = u.at
      /\ saved'.code = u.code
  BY <1>3
<1>7. TypeOKString'
  <2>1. u.at \in 0 .. UesUxxx /\ u.code \in Codes BY FrameTypes
  <2>2. /\ saved'.buf \in Seq(Bytes) /\ saved'.capacity \in Nat
        /\ saved'.at \in 0 .. UesUxxx /\ saved'.code \in Codes
    BY <1>6, <2>1
  <2>3. document'.text \in Seq(Bytes) /\ eaten' \in 0 .. Len(document'.text)
    BY <1>1, <1>2, <1>3 DEF TypeOKString
  <2>4. value' \in Seq(Bytes) /\ status' \in {"start", "paused", "done", "failed"}
    BY <1>1, <1>3 DEF TypeOKString
  <2> QED BY <1>5, <2>2, <2>3, <2>4 DEF TypeOKString
<1>8. Paused'
  <2>1. Begun' = Unescaping(<<>>, u.at, u.code) BY <1>6 DEF Begun
  <2>2. Unescaping(<<>>, u.at, u.code) \in Unescapers BY FrameTypes
  <2>3. Unescapings(Plain, document.text)'[eaten']
          = Unescapings(Plain, document.text)[eaten + n]
    BY <1>3
  <2>4. \A i \in 1 .. eaten' : i \notin Ends(document.text)' BY <1>3
  <2> QED BY <1>6, <2>1, <2>2, <2>3, <2>4 DEF Paused
<1>9. Result' BY <1>3 DEF Result
<1> QED BY <1>1, <1>3, <1>5, <1>7, <1>8, <1>9 DEF StringInv, BufferHolds

-----------------------------------------------------------------------------
(***************************************************************************)
(* Each action keeps the invariant.                                        *)
(***************************************************************************)
LEMMA CommonKeeps ==
    ASSUME StringInv, NEW n \in 0 .. Len(document.text) - eaten, StringCommon(n)
    PROVE  StringInv'
<1> DEFINE text == document.text
           part == Chunk(n)
           u == Unescape(Plain, Body(part))
           U == Unescapings(Plain, text)
<1>1. TypeOKString /\ status = "start" /\ eaten = 0 /\ Eats(n)
  BY DEF StringInv, StringCommon
<1>2. IsPart(part, text, 0) /\ Len(part) = n /\ n \in Nat /\ 0 \in Nat
      /\ text \in Seq(Bytes)
  BY <1>1, ChunkIs DEF TypeOKString
<1>3. U[0] = Plain BY <1>2, Steps
<1>4. /\ Plain \in Unescapers /\ Plain.ok /\ Plain.at = 0 /\ Len(Plain.out) = 0
  BY PlainIs
<1>5. \/ Ends(part) # {} /\ u.ok /\ u.at = 0 /\ Finish(u.out, Len(Body(part)))
      \/ Ends(part) # {} /\ ~(u.ok /\ u.at = 0) /\ FailString
      \/ Ends(part) = {} /\ u.ok /\ SaveString(u.out, 2 * Len(Body(part)), u)
      \/ Ends(part) = {} /\ ~u.ok /\ FailString
  BY DEF StringCommon
<1> HIDE DEF u, U, part, text
<1>6. \A i \in 1 .. 0 : i \notin Ends(text) OBVIOUS
<1>7. /\ u \in Unescapers /\ Len(Body(part)) \in Nat
      /\ Len(u.out) <= Len(Plain.out) + Len(Body(part))
      /\ Ends(part) # {} /\ u.ok /\ u.at = 0 => Decoded(text) = u.out
      /\ Ends(part) # {} /\ ~(u.ok /\ u.at = 0) => Decoded(text) = Malformed
      /\ Ends(part) = {} => /\ u = U[0 + Len(part)]
                            /\ \A i \in 1 .. 0 + Len(part) : i \notin Ends(text)
                            /\ ~u.ok => Decoded(text) = Malformed
  BY <1>2, <1>3, <1>4, <1>6, GoesOn DEF u, U
<1>8. /\ u.out \in Seq(Bytes) /\ Len(u.out) \in Nat /\ Len(u.out) <= Len(Body(part))
      /\ Len(u.out) <= 2 * Len(Body(part)) /\ 2 * Len(Body(part)) \in Nat
  <2>1. u.out \in Seq(Bytes) /\ Len(u.out) \in Nat BY <1>7, FrameTypes
  <2> QED BY <1>4, <1>7, <2>1
<1>9. CASE Ends(part) # {} /\ u.ok /\ u.at = 0 /\ Finish(u.out, Len(Body(part)))
  BY <1>1, <1>7, <1>8, <1>9, FinishKeeps DEF text
<1>10. CASE FailString /\ Decoded(text) = Malformed
  BY <1>1, <1>10, FailKeeps DEF text
<1>11. CASE Ends(part) = {} /\ u.ok /\ SaveString(u.out, 2 * Len(Body(part)), u)
  <2>1. eaten + n = 0 + Len(part) BY <1>1, <1>2
  <2>2. U[eaten + n] = u /\ \A i \in 1 .. eaten + n : i \notin Ends(text)
    BY <1>7, <1>11, <2>1
  <2>3. u = Behind(u.out, Unescaping(<<>>, u.at, u.code)) BY <1>7, <1>11, FrameTypes
  <2>4. U[eaten + n] = Behind(u.out, Unescaping(<<>>, u.at, u.code)) BY <2>2, <2>3
  <2> QED BY <1>1, <1>7, <1>8, <1>11, <2>2, <2>4, SaveKeeps DEF U, text
<1> QED BY <1>5, <1>7, <1>9, <1>10, <1>11

\* What eu_finish_unescape makes of a chunk, if the last one ended within an
\* escape sequence or not.
LEMMA FinishedIs ==
    ASSUME StringInv, status = "paused", NEW n \in 0 .. Len(document.text) - eaten
    PROVE  LET c == Chunk(n)
               s == Sequence(c)
               d == Finished(c)
           IN  /\ s \in 0 .. n /\ d \in Unescapers
               /\ Unescapings(Plain, document.text)[eaten + s] = Behind(saved.buf, d)
               /\ d.ok => \A i \in 1 .. eaten + s : i \notin Ends(document.text)
               /\ d.ok /\ d.at # 0 => s = n /\ d.out = <<>>
               /\ ~d.ok => Decoded(document.text) = Malformed
<1> DEFINE c == Chunk(n)
           s == Sequence(c)
           d == Finished(c)
           text == document.text
           U == Unescapings(Plain, text)
<1>1. /\ IsPart(c, text, eaten) /\ c \in Seq(Bytes) /\ Len(c) = n
      /\ eaten \in Nat /\ n \in Nat
  BY ChunkIs DEF StringInv
<1>2. /\ Begun \in Unescapers /\ U[eaten] = Behind(saved.buf, Begun)
      /\ \A i \in 1 .. eaten : i \notin Ends(text)
  BY DEF StringInv, Paused
<1>3. /\ Begun.ok /\ Begun.out = <<>> /\ Begun.at = saved.at
  BY DEF Begun, Unescaping
<1>4. saved.buf \in Seq(Bytes) BY DEF StringInv, TypeOKString
<1>5. CASE saved.at = 0
  <2>1. s = 0 BY <1>5 DEF Sequence
  <2>2. d = Unescape(Begun, SubSeq(c, 1, 0)) BY <2>1 DEF Finished
  <2>3. SubSeq(c, 1, 0) = <<>> /\ <<>> \in Seq(Bytes) /\ Len(<<>>) = 0 BY <1>1
  <2>4. d = Unescapings(Begun, <<>>)[0] BY <2>2, <2>3 DEF Unescape
  <2>5. d = Begun BY <2>3, <2>4, Steps
  <2>6. eaten + s = eaten BY <1>1, <2>1
  <2> HIDE DEF c, s, d, U, text
  <2>7. /\ s \in 0 .. n /\ d \in Unescapers
        /\ U[eaten + s] = Behind(saved.buf, d)
        /\ \A i \in 1 .. eaten + s : i \notin Ends(text)
        /\ d.ok /\ d.at = 0
    BY <1>1, <1>2, <1>3, <1>5, <2>1, <2>5, <2>6
  <2> QED BY <2>7 DEF c, s, d, U, text
<1>6. CASE saved.at # 0
  <2>1. s = InSequence(Begun, c) BY <1>6 DEF Sequence
  <2>2. d = Unescape(Begun, SubSeq(c, 1, InSequence(Begun, c)))
    BY <2>1 DEF Finished
  <2>3. Begun.at # 0 BY <1>3, <1>6
  <2> HIDE DEF c, s, d, text
  <2>4. /\ s \in 0 .. Len(c) /\ d \in Unescapers
        /\ U[eaten + s] = Behind(saved.buf, d)
        /\ d.ok => \A i \in 1 .. eaten + s : i \notin Ends(text)
        /\ d.ok /\ d.at # 0 => s = Len(c) /\ d.out = <<>>
        /\ ~d.ok => Decoded(text) = Malformed
    BY <1>1, <1>2, <1>3, <1>4, <2>1, <2>2, <2>3, Finishes
  <2> QED BY <1>1, <2>4 DEF c, s, d, text
<1> QED BY <1>5, <1>6

LEMMA InSequenceKeeps ==
    ASSUME StringInv, NEW n \in 0 .. Len(document.text) - eaten, StringInSequence(n)
    PROVE  StringInv'
<1> DEFINE c == Chunk(n)
           s == Sequence(c)
           u == Finished(c)
           text == document.text
           U == Unescapings(Plain, text)
<1>1. /\ status = "paused" /\ Eats(n)
      /\ \/ ~u.ok /\ FailString
         \/ u.ok /\ u.at # 0 /\ SaveString(saved.buf, saved.capacity, u)
  BY DEF StringInSequence
<1>2. /\ s \in 0 .. n /\ u \in Unescapers
      /\ U[eaten + s] = Behind(saved.buf, u)
      /\ u.ok => \A i \in 1 .. eaten + s : i \notin Ends(text)
      /\ u.ok /\ u.at # 0 => s = n /\ u.out = <<>>
      /\ ~u.ok => Decoded(text) = Malformed
  BY <1>1, FinishedIs
<1>3. /\ saved.buf \in Seq(Bytes) /\ saved.capacity \in Nat
      /\ Len(saved.buf) <= saved.capacity
  BY <1>1 DEF StringInv, TypeOKString, Paused
<1> HIDE DEF c, s, u, U, text
<1>4. CASE ~u.ok /\ FailString
  BY <1>1, <1>2, <1>4, FailKeeps DEF text
<1>5. CASE u.ok /\ u.at # 0 /\ SaveString(saved.buf, saved.capacity, u)
  <2>1. s = n /\ u.out = <<>> BY <1>2, <1>5
  <2>2. u = Unescaping(<<>>, u.at, u.code)
    <3>1. u = [out |-> u.out, at |-> u.at, code |-> u.code, ok |-> u.ok]
          /\ u.ok \in BOOLEAN
      BY <1>2, UnescaperFields
    <3>2. u.ok = TRUE BY <1>5, <3>1
    <3> QED BY <2>1, <3>1, <3>2 DEF Unescaping
  <2>3. U[eaten + n] = Behind(saved.buf, Unescaping(<<>>, u.at, u.code))
    BY <1>2, <2>1, <2>2
  <2>4. \A i \in 1 .. eaten + n : i \notin Ends(text) BY <1>2, <1>5, <2>1
  <2> QED BY <1>1, <1>2, <1>3, <1>5, <2>3, <2>4, SaveKeeps DEF U, text
<1> QED BY <1>1, <1>4, <1>5

LEMMA ResumeKeeps ==
    ASSUME StringInv, NEW n \in 0 .. Len(document.text) - eaten, StringResume(n)
    PROVE  StringInv'
<1> DEFINE c == Chunk(n)
           s == Sequence(c)
           done == Finished(c)
           rest == SubSeq(c, s + 1, n)
           body == Body(rest)
           total == Len(saved.buf) + Len(body) + Len(done.out)
           v == Unescaping(saved.buf \o done.out, 0, 0)
           u == Unescape(v, body)
           text == document.text
           U == Unescapings(Plain, text)
           k == eaten + s
<1>1. /\ status = "paused" /\ Eats(n) /\ done.ok /\ done.at = 0
      /\ \/ Ends(rest) # {} /\ u.ok /\ u.at = 0 /\ Finish(u.out, Room(total, total))
         \/ Ends(rest) # {} /\ ~(u.ok /\ u.at = 0) /\ FailString
         \/ Ends(rest) = {} /\ u.ok /\ SaveString(u.out, Room(total, 2 * total), u)
  BY DEF StringResume, Resumed
<1>2. /\ s \in 0 .. n /\ done \in Unescapers
      /\ U[k] = Behind(saved.buf, done)
      /\ done.ok => \A i \in 1 .. k : i \notin Ends(text)
  BY <1>1, FinishedIs
<1>3. /\ IsPart(c, text, eaten) /\ c \in Seq(Bytes) /\ Len(c) = n
      /\ eaten \in Nat /\ n \in Nat
  BY ChunkIs DEF StringInv
<1>4. saved.buf \in Seq(Bytes) /\ saved.capacity \in Nat BY DEF StringInv, TypeOKString
<1> HIDE DEF c, s, done, U, text
<1>5. /\ rest \in Seq(Bytes) /\ Len(rest) = n - s
      /\ \A i \in 1 .. n - s : rest[i] = c[s + i]
  BY <1>2, <1>3
<1>6. IsPart(rest, text, k) /\ k \in Nat /\ k + Len(rest) = eaten + n
  <2>1. /\ text \in Seq(Bytes) /\ eaten + n <= Len(text)
        /\ \A i \in 1 .. n : c[i] = text[eaten + i]
    BY <1>3 DEF IsPart
  <2> HIDE DEF rest
  <2>2. k \in Nat /\ k + Len(rest) = eaten + n BY <1>2, <1>3, <1>5
  <2>3. ASSUME NEW i \in 1 .. Len(rest) PROVE rest[i] = text[k + i]
    <3>1. s + i \in 1 .. n /\ eaten + (s + i) = k + i /\ i \in 1 .. n - s
      BY <1>2, <1>3, <1>5
    <3> QED BY <1>5, <2>1, <3>1
  <2> QED BY <1>5, <2>1, <2>2, <2>3 DEF IsPart
<1>7. U[k] = v /\ v \in Unescapers /\ v.ok /\ v.at = 0 /\ v.out = saved.buf \o done.out
  <2>1. done = [out |-> done.out, at |-> done.at, code |-> done.code, ok |-> done.ok]
        /\ done.ok \in BOOLEAN /\ done.out \in Seq(Bytes)
    BY <1>2, UnescaperFields
  <2>2. done.code = 0 /\ done.ok = TRUE /\ done.at = 0 BY <1>1, <1>2, <2>1, FrameTypes
  <2>3. U[k] = v BY <1>2, <2>1, <2>2 DEF Behind, Unescaping
  <2>4. saved.buf \o done.out \in Seq(Bytes) /\ 0 \in 0 .. 2 BY <1>4, <2>1
  <2>5. v \in Unescapers BY <2>4, Fresh, Zenon
  <2> QED BY <2>3, <2>5, Zenon DEF Unescaping
<1> HIDE DEF rest, v, k, u
<1>8. /\ u \in Unescapers /\ Len(body) \in Nat
      /\ Len(u.out) <= Len(v.out) + Len(body)
      /\ Ends(rest) # {} /\ u.ok /\ u.at = 0 => Decoded(text) = u.out
      /\ Ends(rest) # {} /\ ~(u.ok /\ u.at = 0) => Decoded(text) = Malformed
      /\ Ends(rest) = {} => /\ u = U[k + Len(rest)]
                            /\ \A i \in 1 .. k + Len(rest) : i \notin Ends(text)
  <2>1. \A i \in 1 .. k : i \notin Ends(text) BY <1>1, <1>2
  <2>2. U[k] \in Unescapers /\ U[k].ok /\ U[k].at = 0 BY <1>7
  <2>3. LET z == Unescape(U[k], Body(rest))
        IN  /\ z \in Unescapers /\ Len(Body(rest)) \in Nat
            /\ Len(z.out) <= Len(U[k].out) + Len(Body(rest))
            /\ Ends(rest) # {} /\ z.ok /\ z.at = 0 => Decoded(text) = z.out
            /\ Ends(rest) # {} /\ ~(z.ok /\ z.at = 0) => Decoded(text) = Malformed
            /\ Ends(rest) = {} => /\ z = U[k + Len(rest)]
                                  /\ \A i \in 1 .. k + Len(rest) : i \notin Ends(text)
    BY <1>6, <2>1, <2>2, GoesOn DEF U
  <2>4. u = Unescape(U[k], Body(rest)) BY <1>7 DEF u
  <2> QED BY <1>7, <2>3, <2>4
<1>9. u.out \in Seq(Bytes) /\ Len(u.out) \in Nat BY <1>8, FrameTypes
<1>10. Len(u.out) <= total /\ total \in Nat
  <2>1. done.out \in Seq(Bytes) BY <1>2, UnescaperFields
  <2>2. /\ Len(v.out) = Len(saved.buf) + Len(done.out)
        /\ Len(saved.buf) \in Nat /\ Len(done.out) \in Nat
    BY <1>4, <1>7, <2>1
  <2>3. \A a, b, d, e \in Nat :
          b + d + e \in Nat /\ (a <= (b + e) + d => a <= b + d + e)
    OBVIOUS
  <2> HIDE DEF body
  <2>4. Len(body) \in Nat /\ Len(u.out) <= Len(v.out) + Len(body) BY <1>8
  <2>5. Len(u.out) <= (Len(saved.buf) + Len(done.out)) + Len(body)
    BY <2>2, <2>4, Zenon
  <2>6. Len(u.out) \in Nat BY <1>9
  <2> QED BY <2>2, <2>3, <2>4, <2>5, <2>6, Zenon
<1> HIDE DEF body, total
<1>11. /\ Room(total, total) \in Nat /\ Len(u.out) <= Room(total, total)
       /\ Room(total, 2 * total) \in Nat /\ Len(u.out) <= Room(total, 2 * total)
  BY <1>4, <1>9, <1>10 DEF Room
<1>12. CASE Ends(rest) # {} /\ u.ok /\ u.at = 0 /\ Finish(u.out, Room(total, total))
  BY <1>1, <1>8, <1>9, <1>11, <1>12, FinishKeeps DEF text
<1>13. CASE Ends(rest) # {} /\ ~(u.ok /\ u.at = 0) /\ FailString
  BY <1>1, <1>8, <1>13, FailKeeps DEF text
<1>14. CASE Ends(rest) = {} /\ u.ok /\ SaveString(u.out, Room(total, 2 * total), u)
  <2>1. U[eaten + n] = u /\ \A i \in 1 .. eaten + n : i \notin Ends(text)
    BY <1>6, <1>8, <1>14
  <2>2. u = Behind(u.out, Unescaping(<<>>, u.at, u.code)) BY <1>8, <1>14, FrameTypes
  <2>3. U[eaten + n] = Behind(u.out, Unescaping(<<>>, u.at, u.code)) BY <2>1, <2>2
  <2> QED BY <1>1, <1>8, <1>9, <1>11, <1>14, <2>1, <2>3, SaveKeeps DEF U, text
<1> QED BY <1>1, <1>12, <1>13, <1>14

\* The invariant holds of every parse of a string.
THEOREM StringInvariant == SpecString => []StringInv
<1>1. InitString => StringInv BY StringInitially
<1>2. StringInv /\ [NextString]_stringVars => StringInv'
  <2> SUFFICES ASSUME StringInv, [NextString]_stringVars PROVE StringInv' OBVIOUS
  <2>1. CASE NextString
    <3>1. PICK n \in 0 .. Len(document.text) - eaten :
              StringCommon(n) \/ StringInSequence(n) \/ StringResume(n)
      BY <2>1 DEF NextString
    <3> QED BY <3>1, CommonKeeps, InSequenceKeeps, ResumeKeeps
  <2>2. CASE UNCHANGED stringVars
    <3>1. /\ document' = document /\ eaten' = eaten /\ saved' = saved
          /\ status' = status /\ value' = value /\ overrun' = overrun
      BY <2>2 DEF stringVars
    <3> QED BY <3>1 DEF StringInv, TypeOKString, Paused, Begun, Result, BufferHolds
  <2> QED BY <2>1, <2>2
<1> QED BY <1>1, <1>2, PTL DEF SpecString

\* The variables of a string's parse keep their types: the digits of a cut
\* escape never make a code of more than 16 bits.
THEOREM StringTyped == SpecString => []TypeOKString
<1>1. StringInv => TypeOKString BY DEF StringInv
<1> QED BY <1>1, StringInvariant, PTL

\* No buffer is overrun, wherever the chunks of a string are cut.
THEOREM BufferAlwaysHolds == SpecString => []BufferHolds
<1>1. StringInv => BufferHolds BY DEF StringInv
<1> QED BY <1>1, StringInvariant, PTL

\* Where a text is cut makes no difference: when its bytes are what it stands
\* for in one piece, then every parse of it makes these bytes, or reports an
\* error if it is no string.
THEOREM StringAlwaysExact ==
    ASSUME \A d \in Documents : d.bytes = Decoded(d.text)
    PROVE  SpecString => []StringExact
<1>1. StringInv => StringExact
  <2> SUFFICES ASSUME StringInv PROVE StringExact OBVIOUS
  <2>1. document.bytes = Decoded(document.text) BY DEF StringInv
  <2>2. Result BY DEF StringInv
  <2> QED BY <2>1, <2>2 DEF Result, StringExact
<1> QED BY <1>1, StringInvariant, PTL
=============================================================================
