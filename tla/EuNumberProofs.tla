--------------------------- MODULE EuNumberProofs ---------------------------
(***************************************************************************)
(* Whatever the width of a word, a number without a fraction becomes the   *)
(* integer it is, if it fits, and nothing else.                            *)
(*                                                                         *)
(* The invariant says what the arithmetic relies on: until the digits are  *)
(* too many, int_value is the number itself, that is, it has not wrapped;  *)
(* afterwards the number is too large whatever its sign.  The unchecked    *)
(* digits keep below LargestOf, which no word overflows.                   *)
(***************************************************************************)
EXTENDS EuNumber, TLAPS

AtStart == sign = 1 /\ exact = 0 /\ int_value = 0 /\ negate = 0 /\ fast = 0
AtMinus == sign = -1 /\ exact = 0 /\ int_value = 0 /\ negate = -1 /\ fast = 0
AtZero  == exact = 0 /\ fast = 0
InDigits == /\ int_value = exact /\ exact > 0
            /\ sign = 1 => negate = 0
            /\ sign = -1 => negate = -1
            /\ fast > 0 => int_value <= LargestOf[FastDigits - fast]
BeyondDigits == exact > IntMax + 1 /\ fast = 0

\* What holds in each state of the parser.
Phase == /\ at = "START" => AtStart
         /\ at = "LEADING_MINUS" => AtMinus
         /\ at = "LEADING_ZERO" => AtZero
         /\ at = "INT_DIGITS" => InDigits
         /\ at = "OVERFLOW_DIGITS" => BeyondDigits
         /\ at = "FRACTION" => fast = 0
         /\ at \in NumberStates => outcome = "none"

IInv == TypeOKNumber /\ FastInChunk /\ Phase /\ IntegerExact

-----------------------------------------------------------------------------
\* Modulo 2^w, a number below 2^w is itself.
LEMMA WrapSmall == ASSUME NEW n \in 0 .. UintMax PROVE Wrap(n) = n
  BY WordAssumption DEF Wrap

\* -1 is the largest word.
LEMMA WrapMinusOne == ASSUME NEW n \in 1 .. UintMax PROVE Wrap(n + (-1)) = n - 1
  BY WordAssumption DEF Wrap

\* Initially.
LEMMA InitIInv == InitNumber => IInv
  <1> SUFFICES ASSUME InitNumber PROVE IInv  OBVIOUS
  <1> USE WordAssumption, DigitsAssumption DEF InitNumber
  <1>1. TypeOKNumber
    BY DEF TypeOKNumber, NumberStates, ParserResults
  <1>2. FastInChunk
    BY DEF FastInChunk
  <1>3. Phase
    BY DEF Phase, AtStart, NumberStates
  <1>4. IntegerExact
    BY DEF IntegerExact
  <1>5. QED  BY <1>1, <1>2, <1>3, <1>4 DEF IInv

\* One lemma for each action: the invariant is kept.
LEMMA LeadingMinusKeeps == IInv /\ LeadingMinus => IInv'
  <1> SUFFICES ASSUME IInv, LeadingMinus PROVE IInv'  OBVIOUS
  <1> USE WordAssumption, DigitsAssumption DEF IInv, LeadingMinus, Reads, Go
  <1>1. TypeOKNumber'
    BY DEF TypeOKNumber, NumberStates, ParserResults
  <1>2. FastInChunk'
    BY DEF FastInChunk, Phase, AtStart, TypeOKNumber
  <1>3. Phase'
    BY DEF Phase, AtStart, AtMinus, NumberStates, TypeOKNumber
  <1>4. IntegerExact'
    BY DEF IntegerExact, Phase, NumberStates
  <1>5. QED  BY <1>1, <1>2, <1>3, <1>4

LEMMA LeadingZeroKeeps == IInv /\ LeadingZero => IInv'
  <1> SUFFICES ASSUME IInv, LeadingZero PROVE IInv'  OBVIOUS
  <1> USE WordAssumption, DigitsAssumption
      DEF IInv, LeadingZero, Reads, Go, Writes
  <1>1. TypeOKNumber'
    BY DEF TypeOKNumber, NumberStates, ParserResults
  <1>2. FastInChunk'
    BY DEF FastInChunk, Phase, AtStart, AtMinus, TypeOKNumber
  <1>3. Phase'
    BY DEF Phase, AtStart, AtMinus, AtZero, NumberStates, TypeOKNumber
  <1>4. IntegerExact'
    BY DEF IntegerExact, Phase, NumberStates
  <1>5. QED  BY <1>1, <1>2, <1>3, <1>4

LEMMA FirstDigitKeeps ==
  ASSUME NEW d \in 1 .. 9, IInv, FirstDigit(d) PROVE IInv'
  <1> USE WordAssumption, DigitsAssumption
      DEF IInv, FirstDigit, Reads, Go, Writes, Unchecked
  <1>1. TypeOKNumber'
    BY DEF TypeOKNumber, NumberStates, ParserResults
  <1>2. FastInChunk'
    BY DEF FastInChunk, TypeOKNumber
  <1>3. Phase'
    <2>1. exact' = d /\ int_value' = d
      BY DEF Phase, AtStart, AtMinus, TypeOKNumber
    <2>2. /\ sign' = 1 => negate' = 0
          /\ sign' = -1 => negate' = -1
      BY DEF Phase, AtStart, AtMinus
    <2>3. fast' > 0 => int_value' <= LargestOf[FastDigits - fast']
      BY <2>1 DEF TypeOKNumber
    <2>4. QED  BY <2>1, <2>2, <2>3 DEF Phase, InDigits, NumberStates
  <1>4. IntegerExact'
    BY DEF IntegerExact, Phase, NumberStates
  <1>5. QED  BY <1>1, <1>2, <1>3, <1>4

\* A digit that is read without a check: int_value is at most the largest
\* number of its digits, and after it of one more.
LEMMA UncheckedDigit ==
  ASSUME NEW d \in 0 .. 9, IInv, at = "INT_DIGITS", fast > 0
  PROVE  LET n == int_value * 10 + d
         IN  /\ n \in 1 .. IntMax /\ Wrap(n) = n
             /\ fast - 1 > 0 => n <= LargestOf[FastDigits - (fast - 1)]
  <1> DEFINE n == int_value * 10 + d
             k == FastDigits - fast
  <1>1. /\ fast \in 1 .. FastDigits /\ FastDigits \in Nat
        /\ int_value \in 1 .. UintMax /\ int_value <= LargestOf[k]
    BY WordAssumption, DigitsAssumption
    DEF IInv, TypeOKNumber, Phase, InDigits
  <1>2. k \in 0 .. FastDigits - 1 /\ k + 1 \in 0 .. FastDigits
    BY <1>1
  <1>3. /\ LargestOf[k] \in Nat /\ LargestOf[k + 1] \in Nat
        /\ LargestOf[k + 1] = 10 * LargestOf[k] + 9
        /\ LargestOf[k + 1] <= IntMax
    BY <1>2, DigitsAssumption, SMTT(60)
  <1>4. n \in 1 .. LargestOf[k + 1]
    BY <1>1, <1>3
  <1>5. n \in 1 .. IntMax
    BY <1>3, <1>4, WordAssumption
  <1>6. Wrap(n) = n
    BY <1>5, WrapSmall, WordAssumption
  <1>7. FastDigits - (fast - 1) = k + 1
    BY <1>1
  <1>8. QED  BY <1>4, <1>5, <1>6, <1>7

\* A digit that is read with a check: there is room for it, or the number is
\* out of range with it.
LEMMA CheckedDigit ==
  ASSUME NEW d \in 0 .. 9, IInv, at = "INT_DIGITS"
  PROVE  LET n == int_value * 10 + d
         IN  /\ ~MayOverflow => n \in 1 .. UintMax /\ Wrap(n) = n
             /\ MayOverflow => n > IntMax + 1
  <1> DEFINE n == int_value * 10 + d
  <1>1. int_value \in 1 .. UintMax
    BY WordAssumption DEF IInv, TypeOKNumber, Phase, InDigits
  <1>2. ASSUME ~MayOverflow PROVE n \in 1 .. UintMax /\ Wrap(n) = n
    <2>1. int_value <= (UintMax - 9) \div 10
      BY <1>1, <1>2, WordAssumption DEF MayOverflow
    <2>2. n \in 1 .. UintMax
      BY <1>1, <2>1, WordAssumption
    <2>3. QED  BY <2>2, WrapSmall
  <1>3. ASSUME MayOverflow PROVE n > IntMax + 1
    BY <1>1, <1>3, WordAssumption DEF MayOverflow
  <1>4. QED  BY <1>2, <1>3

LEMMA IntDigitKeeps ==
  ASSUME NEW d \in 0 .. 9, IInv, IntDigit(d) PROVE IInv'
  <1> DEFINE n == int_value * 10 + d
  <1> USE WordAssumption, DigitsAssumption DEF IInv, Reads, Go, Writes
  <1>1. /\ at = "INT_DIGITS" /\ exact' = 10 * exact + d /\ int_value = exact
        /\ exact > 0 /\ n = exact' /\ exact' \in Nat /\ exact' > 0
    BY DEF IntDigit, Phase, InDigits, TypeOKNumber
  <1>2. CASE fast > 0 /\ fast' = fast - 1 /\ int_value' = Wrap(n) /\ at' = at
    <2>1. int_value' = n /\ n \in 1 .. IntMax
      BY <1>1, <1>2, UncheckedDigit
    <2>2. TypeOKNumber'
      BY <1>1, <1>2, <2>1 DEF IntDigit, TypeOKNumber
    <2>3. FastInChunk'
      BY <1>2 DEF IntDigit, FastInChunk, TypeOKNumber
    <2>4. fast' > 0 => int_value' <= LargestOf[FastDigits - fast']
      BY <1>1, <1>2, <2>1, UncheckedDigit
    <2>5. Phase'
      BY <1>1, <1>2, <2>1, <2>4 DEF IntDigit, Phase, InDigits, NumberStates
    <2>6. IntegerExact'
      BY <1>1, <1>2 DEF IntDigit, IntegerExact, Phase, NumberStates
    <2>7. QED  BY <2>2, <2>3, <2>5, <2>6
  <1>3. CASE /\ fast = 0 /\ fast' = fast /\ ~MayOverflow
             /\ int_value' = Wrap(n) /\ at' = at
    <2>1. int_value' = n /\ n \in 1 .. UintMax
      BY <1>1, <1>3, CheckedDigit
    <2>2. TypeOKNumber'
      BY <1>1, <1>3, <2>1 DEF IntDigit, TypeOKNumber
    <2>3. FastInChunk'
      BY <1>3 DEF IntDigit, FastInChunk, TypeOKNumber
    <2>4. Phase'
      BY <1>1, <1>3, <2>1 DEF IntDigit, Phase, InDigits, NumberStates
    <2>5. IntegerExact'
      BY <1>1, <1>3 DEF IntDigit, IntegerExact, Phase, NumberStates
    <2>6. QED  BY <2>2, <2>3, <2>4, <2>5
  <1>4. CASE /\ fast = 0 /\ fast' = fast /\ MayOverflow
             /\ int_value' = int_value /\ at' = "OVERFLOW_DIGITS"
    <2>1. exact' > IntMax + 1
      BY <1>1, <1>4, CheckedDigit
    <2>2. TypeOKNumber'
      BY <1>1, <1>4 DEF IntDigit, TypeOKNumber, NumberStates
    <2>3. FastInChunk'
      BY <1>4 DEF IntDigit, FastInChunk, TypeOKNumber
    <2>4. Phase'
      BY <1>1, <1>4, <2>1 DEF IntDigit, Phase, BeyondDigits, NumberStates
    <2>5. IntegerExact'
      BY <1>1, <1>4 DEF IntDigit, IntegerExact, Phase, NumberStates
    <2>6. QED  BY <2>2, <2>3, <2>4, <2>5
  <1>5. QED  BY <1>1, <1>2, <1>3, <1>4 DEF IntDigit

LEMMA OverflowDigitKeeps ==
  ASSUME NEW d \in 0 .. 9, IInv, OverflowDigit(d) PROVE IInv'
  <1> USE WordAssumption, DigitsAssumption
      DEF IInv, OverflowDigit, Reads, Go, Writes, Computed
  <1>1. TypeOKNumber'
    BY DEF TypeOKNumber, NumberStates
  <1>2. FastInChunk'
    BY DEF FastInChunk, Phase, BeyondDigits, TypeOKNumber
  <1>3. Phase'
    BY DEF Phase, BeyondDigits, NumberStates, TypeOKNumber
  <1>4. IntegerExact'
    BY DEF IntegerExact, Phase, NumberStates
  <1>5. QED  BY <1>1, <1>2, <1>3, <1>4

LEMMA FractionStartsKeeps == IInv /\ FractionStarts => IInv'
  <1> SUFFICES ASSUME IInv, FractionStarts PROVE IInv'  OBVIOUS
  <1> USE WordAssumption, DigitsAssumption
      DEF IInv, FractionStarts, Reads, Go, Written
  <1>1. TypeOKNumber'
    BY DEF TypeOKNumber, NumberStates
  <1>2. FastInChunk'
    BY DEF FastInChunk, TypeOKNumber
  <1>3. Phase'
    BY DEF Phase, NumberStates
  <1>4. IntegerExact'
    BY DEF IntegerExact, Phase, NumberStates
  <1>5. QED  BY <1>1, <1>2, <1>3, <1>4

LEMMA NextChunkKeeps == IInv /\ NextChunk => IInv'
  <1> SUFFICES ASSUME IInv, NextChunk PROVE IInv'  OBVIOUS
  <1> USE WordAssumption, DigitsAssumption DEF IInv, NextChunk, Written
  <1>1. TypeOKNumber'
    BY DEF TypeOKNumber
  <1>2. FastInChunk'
    BY DEF FastInChunk
  <1>3. Phase'
    BY DEF Phase, AtStart, AtMinus, AtZero, InDigits, BeyondDigits
  <1>4. IntegerExact'
    BY DEF IntegerExact, Fits, Signed
  <1>5. QED  BY <1>1, <1>2, <1>3, <1>4

\* What the parse functions make of a result: an integer only of
\* PARSED_INTEGER.
LEMMA OutcomesOf ==
  ASSUME NEW r \in ParserResults, NEW o \in Outcomes(r)
  PROVE  /\ o \in {"none", "integer", "double", "error"}
         /\ o = "integer" => r = "PARSED_INTEGER"
  BY DEF Outcomes, ParserResults

\* The parser ends, with what IntegerExact asks of its result.
LEMMA ReturnKeeps ==
  ASSUME IInv, NEW r \in ParserResults, NEW n \in Int, ParserReturns(r, n),
         left' \in Nat, type' = type,
         r = "PARSED_INTEGER" => Fits /\ n = Signed,
         r = "PARSED_HUGE_INTEGER" => ~Fits
  PROVE  IInv'
  <1> USE WordAssumption, DigitsAssumption DEF IInv, ParserReturns, Written
  <1>1. TypeOKNumber'
    BY OutcomesOf DEF TypeOKNumber
  <1>2. FastInChunk'
    BY DEF FastInChunk
  <1>3. r \notin NumberStates
    BY DEF ParserResults, NumberStates
  <1>4. Phase'
    BY <1>3 DEF Phase, NumberStates
  <1>5. IntegerExact'
    BY OutcomesOf DEF IntegerExact, Fits, Signed
  <1>6. QED  BY <1>1, <1>2, <1>4, <1>5

LEMMA IntegerEndsKeeps == IInv /\ IntegerEnds => IInv'
  <1> SUFFICES ASSUME IInv, IntegerEnds PROVE IInv'  OBVIOUS
  <1> DEFINE v == Wrap(int_value + negate)
  <1>1. /\ int_value \in 1 .. UintMax /\ exact = int_value
        /\ left' \in Nat /\ type' = type /\ integer \in Int
    BY WordAssumption
    DEF IInv, IntegerEnds, Reads, TypeOKNumber, Phase, InDigits
  <1>2. CASE sign = 1
    <2>1. negate = 0 /\ v = int_value /\ Flip(v) = v /\ Signed = exact
      BY <1>1, <1>2, WrapSmall DEF IInv, IntegerEnds, Reads, Phase, InDigits,
         Flip, Signed
    <2>2. Fits <=> v <= IntMax
      BY <1>1, <2>1, WordAssumption DEF Fits
    <2>3. CASE v <= IntMax /\ ParserReturns("PARSED_INTEGER", Flip(v))
      <3>1. Flip(v) \in Int /\ Fits /\ Flip(v) = Signed
        BY <1>1, <2>1, <2>2, <2>3
      <3>2. QED  BY ONLY <1>1, <2>3, <3>1, IInv, ReturnKeeps DEF ParserResults
    <2>4. CASE v > IntMax /\ ParserReturns("PARSED_HUGE_INTEGER", integer)
      <3>1. ~Fits
        BY <1>1, <2>1, <2>2, <2>4, WordAssumption
      <3>2. QED  BY ONLY <1>1, <2>4, <3>1, IInv, ReturnKeeps DEF ParserResults
    <2>5. QED  BY <2>3, <2>4 DEF IntegerEnds
  <1>3. CASE sign = -1
    <2>1. /\ negate = -1 /\ v = int_value - 1 /\ Flip(v) = -v - 1
          /\ Signed = -exact
      BY <1>1, <1>3, WrapMinusOne DEF IInv, IntegerEnds, Reads, Phase, InDigits,
         Flip, Signed
    <2>2. /\ Fits <=> v <= IntMax
          /\ Flip(v) = Signed
      BY <1>1, <2>1, WordAssumption DEF Fits
    <2>3. Flip(v) \in Int
      BY <1>1, <2>1
    <2>4. CASE v <= IntMax /\ ParserReturns("PARSED_INTEGER", Flip(v))
      <3>1. QED
        BY ONLY <1>1, <2>2, <2>3, <2>4, IInv, ReturnKeeps DEF ParserResults
    <2>5. CASE v > IntMax /\ ParserReturns("PARSED_HUGE_INTEGER", integer)
      <3>1. ~Fits
        BY <1>1, <2>1, <2>2, <2>5, WordAssumption
      <3>2. QED  BY ONLY <1>1, <2>5, <3>1, IInv, ReturnKeeps DEF ParserResults
    <2>6. QED  BY <2>4, <2>5 DEF IntegerEnds
  <1>4. QED  BY <1>2, <1>3 DEF IInv, TypeOKNumber

LEMMA OtherEndsKeep ==
  IInv /\ (ZeroEnds \/ OverflowEnds \/ FractionEnds \/ NumberFails) => IInv'
  <1>1. ASSUME IInv, ZeroEnds PROVE IInv'
    <2>1. left' \in Nat /\ type' = type
      BY <1>1 DEF IInv, ZeroEnds, Reads, TypeOKNumber
    <2>2. exact \in Nat /\ exact <= 0
      BY <1>1 DEF IInv, ZeroEnds, Reads, Phase, AtZero, TypeOKNumber
    <2>3. Signed = 0
      BY <2>2 DEF Signed
    <2>4. Fits
      BY <2>3, WordAssumption DEF Fits
    <2>5. QED  BY <1>1, <2>1, <2>3, <2>4, ReturnKeeps DEF ZeroEnds, ParserResults
  <1>2. ASSUME IInv, OverflowEnds PROVE IInv'
    <2>1. ~Fits /\ left' \in Nat /\ type' = type /\ integer \in Int
      BY <1>2, WordAssumption
      DEF IInv, OverflowEnds, Reads, Phase, BeyondDigits, Fits, Signed,
          TypeOKNumber
    <2>2. QED  BY <1>2, <2>1, ReturnKeeps DEF OverflowEnds, ParserResults
  <1>3. ASSUME IInv, FractionEnds PROVE IInv'
    <2>1. left' \in Nat /\ type' = type /\ integer \in Int
      BY <1>3 DEF IInv, FractionEnds, Reads, TypeOKNumber
    <2>2. QED  BY <1>3, <2>1, ReturnKeeps DEF FractionEnds, ParserResults
  <1>4. ASSUME IInv, NumberFails PROVE IInv'
    <2>1. left' \in Nat /\ type' = type /\ integer \in Int
      BY <1>4 DEF IInv, NumberFails, Reads, TypeOKNumber
    <2>2. QED  BY <1>4, <2>1, ReturnKeeps DEF NumberFails, ParserResults
  <1>5. QED  BY <1>1, <1>2, <1>3, <1>4

-----------------------------------------------------------------------------
\* Every step keeps the invariant.
LEMMA NextIInv == IInv /\ [NextNumber]_numberVars => IInv'
  <1> SUFFICES ASSUME IInv, [NextNumber]_numberVars PROVE IInv'  OBVIOUS
  <1>1. CASE UNCHANGED numberVars
    BY <1>1 DEF IInv, numberVars, TypeOKNumber, FastInChunk, Phase, AtStart,
       AtMinus, AtZero, InDigits, BeyondDigits, IntegerExact, Fits, Signed
  <1>2. CASE LeadingMinus \/ LeadingZero \/ FractionStarts
    BY <1>2, LeadingMinusKeeps, LeadingZeroKeeps, FractionStartsKeeps
  <1>3. ASSUME NEW d \in 1 .. 9, FirstDigit(d) PROVE IInv'
    BY <1>3, FirstDigitKeeps
  <1>4. ASSUME NEW d \in 0 .. 9, IntDigit(d) \/ OverflowDigit(d) PROVE IInv'
    BY <1>4, IntDigitKeeps, OverflowDigitKeeps
  <1>5. CASE IntegerEnds \/ ZeroEnds \/ OverflowEnds \/ FractionEnds
             \/ NumberFails \/ NextChunk
    BY <1>5, IntegerEndsKeeps, OtherEndsKeep, NextChunkKeeps
  <1>6. QED  BY <1>1, <1>2, <1>3, <1>4, <1>5 DEF NextNumber

\* The invariant holds in every reachable state, whatever the width of a word
\* and the number of digits that are read without a check.
THEOREM Invariance == SpecNumber => []IInv
  BY InitIInv, NextIInv, PTL DEF SpecNumber

\* Type correctness of the number parser.
THEOREM TypeCorrect == SpecNumber => []TypeOKNumber
  BY Invariance, PTL DEF IInv

\* A number without a fraction becomes the integer it is, if that is one of
\* eu_integer_t, and otherwise never an integer.
THEOREM IntegersExact == SpecNumber => []IntegerExact
  BY Invariance, PTL DEF IInv

\* The loop that reads digits without comparing p with end stays in the chunk.
THEOREM FastStaysInChunk == SpecNumber => []FastInChunk
  BY Invariance, PTL DEF IInv
=============================================================================
