------------------------------ MODULE EuNumber ------------------------------
(***************************************************************************)
(* The value of a number: number_parse_sm.c, character by character, with  *)
(* the functions of number.c that turn what it returns into a value.       *)
(*                                                                         *)
(* uint64_t is the naturals modulo UintMax + 1.  The environment chooses   *)
(* the characters as they are read, and how many there are in a chunk; the *)
(* last one is the space of eu_parse_finish.  What precedes the text of a  *)
(* number, and the forms of its fraction and exponent, are left to EuParse.*)
(***************************************************************************)
EXTENDS Integers

CONSTANTS
    UintMax,        \* UINT64_MAX
    IntMax,         \* INT64_MAX
    FastDigits,     \* digits after the first that are not checked, 17
    LargestOf,      \* LargestOf[n]: the largest number of n + 1 digits
    MaxDigits,      \* bound: digits of an integer
    MaxChunk        \* bound: characters of a chunk

ASSUME WordAssumption ==
    /\ IntMax \in Nat /\ IntMax >= 9 /\ UintMax = 2 * IntMax + 1
ASSUME DigitsAssumption ==
    /\ FastDigits \in Nat /\ MaxDigits \in Nat /\ MaxChunk \in Nat
    /\ LargestOf \in [0 .. FastDigits -> Nat] /\ LargestOf[0] = 9
    /\ \A n \in 0 .. FastDigits - 1 : LargestOf[n + 1] = 10 * LargestOf[n] + 9
    \* "18 decimal digits is always less than 2^63."
    /\ \A n \in 0 .. FastDigits : LargestOf[n] <= IntMax

VARIABLES
    type,       \* of the value: integer, number or variant
    at,         \* the state: of enum number_parse_state, or how it ended
    int_value,
    negate,
    fast,       \* digits still to be read without a check
    left,       \* characters of the chunk that are not read yet
    outcome,    \* what the value becomes
    integer,    \* the eu_integer_t (strtod makes the value of other numbers)
    sign,       \* history: 1 or -1,
    digits,     \* how many digits have been read,
    exact       \* and the number that they make

numberVars == <<type, at, int_value, negate, fast, left, outcome, integer,
                sign, digits, exact>>

ParserResults == {"PARSED_INTEGER", "PARSED_HUGE_INTEGER", "PARSED_NON_INTEGER",
                  "ERROR"}
NumberStates == {"START", "LEADING_MINUS", "LEADING_ZERO", "INT_DIGITS",
                 "OVERFLOW_DIGITS", "FRACTION"}

Wrap(n) == n % (UintMax + 1)

\* The state is s, and the next character is there to be read.
Reads(s) == at = s /\ left > 0 /\ left' = left - 1 /\ UNCHANGED type
Go(s) == at' = s /\ UNCHANGED <<outcome, integer>>

\* One more digit of the number as it is written.
Writes(d) == /\ digits < MaxDigits /\ digits' = digits + 1
             /\ exact' = 10 * exact + d /\ UNCHANGED sign
Written == UNCHANGED <<sign, digits, exact>>
Computed == UNCHANGED <<int_value, negate, fast>>

-----------------------------------------------------------------------------
(***************************************************************************)
(* What the parse functions of number.c do with the result of the parser.  *)
(* strtod fails when the number is too large for a double.                 *)
(***************************************************************************)
Outcomes(r) ==
    CASE r = "PARSED_INTEGER" -> IF type = "number" THEN {"double"} ELSE {"integer"}
      [] r = "ERROR" -> {"error"}
      [] OTHER -> IF type = "integer" THEN {"error"} ELSE {"double", "error"}

ParserReturns(r, n) == /\ at' = r /\ outcome' \in Outcomes(r) /\ integer' = n
                       /\ UNCHANGED <<int_value, negate>> /\ fast' = 0 /\ Written

-----------------------------------------------------------------------------
(***************************************************************************)
(* number_parse_sm.c                                                       *)
(***************************************************************************)
LeadingMinus == /\ Reads("START") /\ Go("LEADING_MINUS")
                /\ negate' = -1 /\ UNCHANGED <<int_value, fast>>
                /\ sign' = -1 /\ UNCHANGED <<digits, exact>>

LeadingZero == /\ Reads("START") \/ Reads("LEADING_MINUS")
               /\ Go("LEADING_ZERO")
               /\ negate' = 0 /\ int_value' = 0 /\ UNCHANGED fast /\ Writes(0)

\* Mutant of Unchecked: the first digit is counted among those to come.
UncheckedFirst == IF left >= FastDigits THEN FastDigits ELSE 0

\* int_digits: when the chunk has FastDigits more characters, as many digits
\* are read without a check.
Unchecked == IF left - 1 >= FastDigits THEN FastDigits ELSE 0

FirstDigit(d) == /\ Reads("START") \/ Reads("LEADING_MINUS")
                 /\ Go("INT_DIGITS")
                 /\ int_value' = d /\ UNCHANGED negate
                 /\ fast' = Unchecked
                 /\ Writes(d)

\* Mutant of MayOverflow: the digit itself is not allowed for.
MayOverflowLate == int_value > UintMax \div 10

\* Might one more digit make int_value wrap around?
MayOverflow == int_value > (UintMax - 9) \div 10

\* Another digit, or one too many.
IntDigit(d) ==
    /\ Reads("INT_DIGITS") /\ Writes(d) /\ UNCHANGED negate
    /\ \/ /\ fast > 0 /\ fast' = fast - 1
          /\ int_value' = Wrap(int_value * 10 + d) /\ Go("INT_DIGITS")
       \/ /\ fast = 0 /\ UNCHANGED fast
          /\ ~MayOverflow
          /\ int_value' = Wrap(int_value * 10 + d) /\ Go("INT_DIGITS")
       \/ /\ fast = 0 /\ UNCHANGED fast
          /\ MayOverflow
          /\ UNCHANGED int_value /\ Go("OVERFLOW_DIGITS")

OverflowDigit(d) == Reads("OVERFLOW_DIGITS") /\ Writes(d) /\ Computed
                    /\ Go("OVERFLOW_DIGITS")

\* A point or an exponent.
FractionStarts == /\ \/ Reads("LEADING_ZERO")
                     \/ Reads("INT_DIGITS")
                     \/ Reads("OVERFLOW_DIGITS")
                  /\ Go("FRACTION") /\ fast' = 0
                  /\ UNCHANGED <<int_value, negate>> /\ Written

\* negate is 0 or -1; x ^ -1 is -x - 1.
Flip(n) == IF negate = -1 THEN -n - 1 ELSE n

\* done_int_digits: the character after the last digit.
IntegerEnds ==
    LET v == Wrap(int_value + negate)
    IN  /\ Reads("INT_DIGITS")
        /\ \/ v <= IntMax /\ ParserReturns("PARSED_INTEGER", Flip(v))
           \/ v > IntMax /\ ParserReturns("PARSED_HUGE_INTEGER", integer)

ZeroEnds == Reads("LEADING_ZERO") /\ ParserReturns("PARSED_INTEGER", 0)

OverflowEnds == /\ Reads("OVERFLOW_DIGITS")
                /\ ParserReturns("PARSED_HUGE_INTEGER", integer)

FractionEnds == /\ Reads("FRACTION")
                /\ \/ ParserReturns("PARSED_NON_INTEGER", integer)
                   \/ ParserReturns("ERROR", integer)

NumberFails == /\ Reads("START") \/ Reads("LEADING_MINUS")
               /\ ParserReturns("ERROR", integer)

\* The chunk ends: a frame keeps int_value, state and negate until the next.
NextChunk == /\ at \in NumberStates /\ left = 0 /\ left' \in 1 .. MaxChunk
             /\ fast = 0
             /\ UNCHANGED <<type, at, int_value, negate, fast, outcome, integer>>
             /\ Written

InitNumber == /\ type \in {"integer", "number", "variant"}
              /\ at = "START" /\ int_value = 0 /\ negate = 0 /\ fast = 0
              /\ left \in 1 .. MaxChunk /\ outcome = "none" /\ integer = 0
              /\ sign = 1 /\ digits = 0 /\ exact = 0

NextNumber == \/ LeadingMinus \/ LeadingZero \/ FractionStarts
              \/ \E d \in 1 .. 9 : FirstDigit(d)
              \/ \E d \in 0 .. 9 : IntDigit(d) \/ OverflowDigit(d)
              \/ IntegerEnds \/ ZeroEnds \/ OverflowEnds \/ FractionEnds
              \/ NumberFails \/ NextChunk

SpecNumber == InitNumber /\ [][NextNumber]_numberVars

-----------------------------------------------------------------------------
\* The variables have the types their comments give.
TypeOKNumber ==
    /\ type \in {"integer", "number", "variant"}
    /\ at \in NumberStates \cup ParserResults
    /\ int_value \in 0 .. UintMax /\ negate \in {-1, 0}
    /\ fast \in 0 .. FastDigits /\ left \in Nat
    /\ outcome \in {"none", "integer", "double", "error"}
    /\ integer \in Int
    /\ sign \in {1, -1} /\ digits \in Nat /\ exact \in Nat

\* The number that has been written.
Signed == IF sign = -1 THEN -exact ELSE exact
Fits == Signed \in -IntMax - 1 .. IntMax

\* A number without a fraction is an integer if and only if it fits in an
\* eu_integer_t, and then it is that integer, whatever the sign, the unsigned
\* arithmetic, and the chunks; only then may it become anything but a double.
IntegerExact ==
    /\ at = "PARSED_INTEGER" => Fits /\ integer = Signed
    /\ at = "PARSED_HUGE_INTEGER" => ~Fits
    /\ outcome = "integer" => at = "PARSED_INTEGER"

\* The digits that are read without a check are in the chunk.
FastInChunk == fast <= left
=============================================================================
