------------------------------ MODULE EuString ------------------------------
(***************************************************************************)
(* The bytes of a string: string.c and unescape.c.  A text is parsed in    *)
(* chunks of any length; one action is one call of string_parse_common or  *)
(* string_parse_resume, with the functions of unescape.c that it calls.    *)
(*                                                                         *)
(* A character is its code.  The buffer of a paused string is the bytes    *)
(* written to it so far; that a call writes beyond its capacity is noted   *)
(* in overrun.                                                             *)
(***************************************************************************)
EXTENDS Integers, Sequences

CONSTANTS
    Documents   \* what is parsed: text, and bytes, what the text stands for

CONSTANT Malformed      \* the bytes of a text that is not a JSON string

Bytes == 0 .. 255

ASSUME DocumentsAssumption ==
    /\ \A d \in Documents : d.text \in Seq(Bytes)
    /\ Malformed \notin Seq(Bytes)

VARIABLES
    document,
    eaten,      \* how many characters of it have been parsed
    saved,      \* the string_parse_frame, or its absence
    status,     \* of the parse
    value,      \* the bytes of the eu_string
    overrun     \* was a byte written beyond the end of a buffer?

stringVars == <<document, eaten, saved, status, value, overrun>>

Quote == 34
Backslash == 92

-----------------------------------------------------------------------------
(***************************************************************************)
(* unescape_table.  An entry packs the distance of a character from the    *)
(* value it stands for with the flags 0x80, an escape, and 0x08, a digit.  *)
(***************************************************************************)
Bit(n, worth) == (n \div worth) % 2
Xor(a, b) == LET X(worth) == ((Bit(a, worth) + Bit(b, worth)) % 2) * worth
             IN  X(1) + X(2) + X(4) + X(8) + X(16) + X(32) + X(64) + X(128)
SetTop(n) == IF Bit(n, 128) = 1 THEN n ELSE n + 128

CodeB == 98
CodeF == 102
HexXor == CodeB - 8                    \* HEX_XOR
EscapeXor == SetTop(CodeB - 11)        \* ESCAPE_XOR

\* The characters with HEX_CHAR, and the digit the table gives them: d and e
\* are 0xa.
TableHex == [c \in (48 .. 57) \cup (65 .. 70) \cup {97, 99, 100, 101} |->
                CASE c \in 48 .. 57 -> c - 48
                  [] c \in 65 .. 70 -> c - 55
                  [] c \in {97, 100, 101} -> 10
                  [] c = 99 -> 12]

\* Those with ESCAPE_CHAR: " \ / n r t.
TableEscape == [c \in {34, 92, 47, 110, 114, 116} |->
                CASE c = 110 -> 10 [] c = 114 -> 13 [] c = 116 -> 9 [] OTHER -> c]

unescape_table ==
    [c \in Bytes |->
        CASE c \in DOMAIN TableHex    -> Xor(c - TableHex[c], HexXor)
          [] c \in DOMAIN TableEscape -> Xor(c - TableEscape[c], EscapeXor)
          [] c = CodeB -> SetTop(Xor(c - 11, c - 8))
          [] c = CodeF -> SetTop(Xor(c - 15, c - 12))
          [] OTHER -> 0]

\* What the code gets out of an entry: is c an escape, and of what; is it a
\* digit, and which.
IsEscape  == [c \in Bytes |-> Bit(unescape_table[c], 128) = 1]
Unescaped == [c \in Bytes |-> (c - Xor(unescape_table[c], EscapeXor)) % 256]
IsHex     == [c \in Bytes |-> Bit(unescape_table[c], 8) = 1]
HexValue  == [c \in Bytes |-> (c - Xor(unescape_table[c] % 128, HexXor)) % 256]

\* Mutant of Utf8: the second byte of three is not masked.
Utf8Unmasked(uc) ==
    IF uc < 128 THEN <<uc>>
    ELSE IF uc < 2048 THEN <<192 + uc \div 64, 128 + (uc % 64)>>
    ELSE <<224 + uc \div 4096, 128 + uc \div 64, 128 + (uc % 64)>>

\* eu_unicode_to_utf8, of a code of 16 bits.
Utf8(uc) ==
    IF uc < 128 THEN <<uc>>
    ELSE IF uc < 2048 THEN <<192 + uc \div 64, 128 + (uc % 64)>>
    ELSE <<224 + uc \div 4096, 128 + ((uc \div 64) % 64), 128 + (uc % 64)>>

-----------------------------------------------------------------------------
(***************************************************************************)
(* eu_unescape and eu_finish_unescape, character by character: at is one   *)
(* of ues_state, or 0 outside of escape sequences; code the digits so far. *)
(***************************************************************************)
UesBackslash == 1
UesU == 2
UesUxxx == 5

Unescaping(out, at, code) == [out |-> out, at |-> at, code |-> code, ok |-> TRUE]
Bad(u) == [u EXCEPT !.ok = FALSE]

\* What a digit is worth in the code.
Worth == [at \in UesU .. UesUxxx |->
            CASE at = 2 -> 4096 [] at = 3 -> 256 [] at = 4 -> 16 [] at = 5 -> 1]

UnescapeChar(u, c) ==
    CASE ~u.ok -> u
      [] u.ok /\ u.at = 0 /\ c # Backslash -> [u EXCEPT !.out = Append(@, c)]
      [] u.ok /\ u.at = 0 /\ c = Backslash -> [u EXCEPT !.at = UesBackslash]
      [] u.ok /\ u.at = UesBackslash ->
            CASE IsEscape[c] -> Unescaping(Append(u.out, Unescaped[c]), 0, 0)
              [] ~IsEscape[c] /\ c = 117 -> Unescaping(u.out, UesU, 0)
              [] OTHER -> Bad(u)
      [] u.ok /\ u.at \in UesU .. UesUxxx - 1 ->
            IF IsHex[c]
            THEN Unescaping(u.out, u.at + 1,
                            u.code + HexValue[c] * Worth[u.at])
            ELSE Bad(u)
      [] u.ok /\ u.at = UesUxxx ->
            IF IsHex[c] THEN Unescaping(u.out \o Utf8(u.code + HexValue[c]), 0, 0)
                        ELSE Bad(u)

\* From u, along a text: u, and what it is after each character.
Unescapings(u, text) ==
    LET after[n \in 0 .. Len(text)] ==
            IF n = 0 THEN u ELSE UnescapeChar(after[n - 1], text[n])
    IN  after

Unescape(u, text) == Unescapings(u, text)[Len(text)]

\* How many characters of text belong to the escape sequence that u is in:
\* those that eu_finish_unescape reads.
InSequence(u, text) ==
    LET Stops(n) == LET v == Unescapings(u, text)[n] IN ~v.ok \/ v.at = 0
    IN  CHOOSE n \in 0 .. Len(text) :
            /\ Stops(n) \/ n = Len(text)
            /\ \A m \in 0 .. n - 1 : ~Stops(m)

\* quotes_escaped, or quotes_escaped_bounded: is the quote at i escaped?
QuotesEscaped(text, i) ==
    \E n \in 1 .. i - 1 :
        /\ n % 2 = 1
        /\ \A j \in i - n .. i - 1 : text[j] = Backslash
        /\ i - n = 1 \/ text[i - n - 1] # Backslash

\* The quotes that end the string.
Ends(text) == {i \in DOMAIN text : text[i] = Quote /\ ~QuotesEscaped(text, i)}
Body(text) == LET ends == Ends(text) \cup {Len(text) + 1}
              IN  SubSeq(text, 1, (CHOOSE i \in ends : \A j \in ends : i <= j) - 1)

-----------------------------------------------------------------------------
(***************************************************************************)
(* string_parse_common and string_parse_resume.                            *)
(***************************************************************************)
NoFrame == [buf |-> <<>>, capacity |-> 0, at |-> 0, code |-> 0]
Plain == Unescaping(<<>>, 0, 0)

\* The next n characters are the next chunk.
Chunk(n) == SubSeq(document.text, eaten + 1, eaten + n)
Eats(n) == eaten' = eaten + n /\ UNCHANGED document

Finish(bytes, size) == /\ status' = "done" /\ value' = bytes /\ saved' = NoFrame
                       /\ overrun' = (overrun \/ Len(bytes) > size)
FailString == /\ status' = "failed" /\ saved' = NoFrame
              /\ UNCHANGED <<value, overrun>>
SaveString(bytes, size, u) ==
    /\ saved' = [buf |-> bytes, capacity |-> size, at |-> u.at, code |-> u.code]
    /\ status' = "paused" /\ overrun' = (overrun \/ Len(bytes) > size)
    /\ UNCHANGED value

\* The first chunk: a complete string is copied to a block of its length, an
\* incomplete one to the buffer of a frame, of twice that.
StringCommon(n) ==
    LET body == Body(Chunk(n))
        u    == Unescape(Plain, body)
    IN  /\ status = "start" /\ Eats(n)
        /\ \/ Ends(Chunk(n)) # {} /\ u.ok /\ u.at = 0 /\ Finish(u.out, Len(body))
           \/ Ends(Chunk(n)) # {} /\ ~(u.ok /\ u.at = 0) /\ FailString
           \/ Ends(Chunk(n)) = {} /\ u.ok /\ SaveString(u.out, 2 * Len(body), u)
           \/ Ends(Chunk(n)) = {} /\ ~u.ok /\ FailString

\* Mutant of Begun: the digits of the last chunk are lost.
BegunAnew == Unescaping(<<>>, saved.at, 0)

\* eu_finish_unescape, when the last chunk ended within an escape sequence.
Begun == Unescaping(<<>>, saved.at, saved.code)
Sequence(c) == IF saved.at = 0 THEN 0 ELSE InSequence(Begun, c)
Finished(c) == Unescape(Begun, SubSeq(c, 1, Sequence(c)))

StringInSequence(n) ==
    LET u == Finished(Chunk(n))
    IN  /\ status = "paused" /\ saved.at # 0 /\ Eats(n)
        /\ \/ ~u.ok /\ FailString
           \/ u.ok /\ u.at # 0 /\ SaveString(saved.buf, saved.capacity, u)

\* Mutant of Room: one byte less.
RoomLess(total, size) == IF total - 1 > saved.capacity THEN size ELSE saved.capacity

\* The size of the buffer that holds total bytes, or is made to.
Room(total, size) == IF total > saved.capacity THEN size ELSE saved.capacity

\* The text so far, of at most total bytes, has become u; has it ended?
Resumed(u, ended, total) ==
    \/ ended /\ u.ok /\ u.at = 0 /\ Finish(u.out, Room(total, total))
    \/ ended /\ ~(u.ok /\ u.at = 0) /\ FailString
    \/ ~ended /\ u.ok /\ SaveString(u.out, Room(total, 2 * total), u)

\* Then the text goes on.  (A chunk that ends the text after an escape that is
\* wrong is left out: the code makes a length of NULL then.)
StringResume(n) ==
    LET done == Finished(Chunk(n))
        rest == SubSeq(Chunk(n), Sequence(Chunk(n)) + 1, n)
        body == Body(rest)
    IN  /\ status = "paused" /\ done.ok /\ done.at = 0 /\ Eats(n)
        /\ Resumed(Unescape(Unescaping(saved.buf \o done.out, 0, 0), body),
                   Ends(rest) # {}, Len(saved.buf) + Len(body) + Len(done.out))

InitString == /\ document \in Documents /\ eaten = 0 /\ saved = NoFrame
              /\ status = "start" /\ value = <<>> /\ overrun = FALSE

NextString == \E n \in 0 .. Len(document.text) - eaten :
                 \/ StringCommon(n)
                 \/ StringInSequence(n)
                 \/ StringResume(n)

SpecString == InitString /\ [][NextString]_stringVars

-----------------------------------------------------------------------------
\* The codes, of 16 bits.
LastCode == 65535
Codes == 0 .. LastCode

\* The variables have the types their comments give.
TypeOKString ==
    /\ document.text \in Seq(Bytes) /\ eaten \in 0 .. Len(document.text)
    /\ saved.buf \in Seq(Bytes) /\ saved.capacity \in Nat
    /\ saved.at \in 0 .. UesUxxx /\ saved.code \in Codes
    /\ status \in {"start", "paused", "done", "failed"}
    /\ value \in Seq(Bytes) /\ overrun \in BOOLEAN

\* A string has the bytes its text stands for, wherever the text was cut, and
\* an error is reported of a text that is not a string, and only then.
StringExact == /\ status = "done" => value = document.bytes
               /\ status = "failed" => document.bytes = Malformed

\* Nothing is written beyond the buffer of a paused string, or the block of a
\* complete one: an escape sequence that was cut brings its bytes, and the
\* text read before and after it, into a buffer that was made for less.
BufferHolds == ~overrun
=============================================================================
