----------------------------- MODULE JsonValues -----------------------------
(***************************************************************************)
(* Values in memory, as the generator finds them: a graph of which Shape   *)
(* tells the nodes.  Booleans and null are "fixed" texts.  A number is an  *)
(* "integer" when it equals one, whatever its type; its digits and what    *)
(* snprintf makes of a "double" are given.  Members of a struct may be     *)
(* absent; extras are the members its schema does not name.                *)
(***************************************************************************)
EXTENDS Integers, Sequences

CONSTANTS Values, Shape

\* The characters of strings and of JSON text; "quote" is the double quote,
\* "bs" the backslash, and "ctrl" a control character without a short escape
\* sequence.
Char == {"quote", "bs", "ctrl", "{", "}", "[", "]", ",", ":", "-", ".",
         "0", "1", "2", "3", "4", "5", "6", "7", "8", "9",
         "t", "r", "u", "e", "a"}

ValueKinds == {"fixed", "string", "integer", "double", "nan", "array", "struct"}

Item == [name : Seq(Char), value : Values, present : BOOLEAN]
ValueShape == [kind : ValueKinds, chars : Seq(Char), negative : BOOLEAN,
               items : Seq(Item), extras : Seq(Item)]

ASSUME ShapeAssumption == Shape \in [Values -> ValueShape]
=============================================================================
