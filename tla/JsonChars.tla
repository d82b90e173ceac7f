----------------------------- MODULE JsonChars -----------------------------
(***************************************************************************)
(* Characters are classes, one for each part a character can play where it *)
(* is read.  "quote" is the double quote and "bs" the backslash; "1" is a  *)
(* digit from 1 to 9, and where a hex digit is due also one of a, b, c, f  *)
(* and A to F; "e" is an exponent's letter in a number, and d or e where a *)
(* hex digit is due; "l" is the first letter of true, false or null where  *)
(* a value starts, a letter that makes up an escape sequence behind a      *)
(* backslash, and t where a hex digit is due; "a" is the letter that a     *)
(* literal goes on with, and elsewhere a character that plays no part.     *)
(***************************************************************************)
EXTENDS Naturals, Sequences

CONSTANTS
    Types,          \* the types a schema may require a value to have
    LiteralRest     \* how many letters a literal has after its first

AllTypes == {"variant", "struct", "array", "string", "number", "bool"}

ASSUME TypesAssumption == Types \subseteq AllTypes /\ Types # {}
ASSUME LiteralAssumption == LiteralRest \subseteq Nat \ {0}

Digits == {"0", "1"}
Chars == Digits \cup {"ws", "{", "}", "[", "]", ",", ":", "quote", "bs", "-",
                      ".", "e", "u", "l", "a"}
None == "none"
=============================================================================
