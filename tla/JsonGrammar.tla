---------------------------- MODULE JsonGrammar ----------------------------
(***************************************************************************)
(* What eu_parse promises: a JSON text is accepted or rejected, however it *)
(* was cut into chunks.  The grammar of RFC 8259 as a pushdown automaton   *)
(* that reads one character at a time; there are no chunks, no frames and  *)
(* no calls.                                                               *)
(*                                                                         *)
(* The value may be restricted by a schema: Types says which types its     *)
(* members and elements may be required to have; "variant" is any value.   *)
(***************************************************************************)
EXTENDS JsonChars

VARIABLES
    ctx,        \* what is being read, innermost first
    next,       \* the next character, if it has been seen
    closed,     \* has the text ended?
    verdict

gvars == <<ctx, next, closed, verdict>>

Sym(at, of) == [at |-> at, of |-> of, left |-> 0]
Left(at, n) == [at |-> at, of |-> None, left |-> n]
Value(t) == Sym("value", t)

\* The types the members and elements of a value of type t may have.
ChildTypes(t) == IF t = "variant" THEN {"variant"} ELSE Types

\* The first characters of a value of type t.
Starts(t) == CASE t = "struct" -> {"{"}
               [] t = "array"  -> {"["}
               [] t = "string" -> {"quote"}
               [] t = "number" -> {"-"} \cup Digits
               [] t = "bool"   -> {"l"}
               [] t = "variant" -> {"{", "[", "quote", "-", "l"} \cup Digits

StartValue(t, c) ==
    CASE c = "{"     -> {<<Sym("object open", t)>>}
      [] c = "["     -> {<<Sym("array open", u)>> : u \in ChildTypes(t)}
      [] c = "quote" -> {<<Sym("string", None)>>}
      [] c = "-"     -> {<<Sym("minus", None)>>}
      [] c = "0"     -> {<<Sym("zero", None)>>}
      [] c = "1"     -> {<<Sym("int", None)>>}
      [] c = "l"     -> {<<Left("literal", n)>> : n \in LiteralRest}

\* c within a string or a member name, which ends with done.
InText(s, c, done) == CASE c = "quote" -> {done}
                        [] c = "bs"    -> {<<Sym("escape", None), s>>}
                        [] OTHER       -> {<<s>>}

Fraction(c) == CASE c = "." -> {<<Sym("point", None)>>}
                 [] c = "e" -> {<<Sym("e", None)>>}
                 [] OTHER   -> {}

Only(set, c, at) == IF c \in set THEN {<<Sym(at, None)>>} ELSE {}

\* 0 to 9, A to F, a to f
Hex == Digits \cup {"e"}

\* What s may be replaced by when c is read; nothing: c may not follow.
Moves(s, c) ==
    CASE s.at \in {"value", "object open", "array open", "after name",
                   "after member", "after element", "comma"} /\ c = "ws" -> {<<s>>}
      [] s.at = "value" /\ c \in Starts(s.of) -> StartValue(s.of, c)
      [] s.at \in {"object open", "comma"} /\ c = "quote" -> {<<Sym("name", s.of)>>}
      [] s.at \in {"object open", "after member"} /\ c = "}" -> {<<>>}
      [] s.at = "after name" /\ c = ":" ->
            {<<Value(t), Sym("after member", s.of)>> : t \in ChildTypes(s.of)}
      [] s.at = "after member" /\ c = "," -> {<<Sym("comma", s.of)>>}
      [] s.at \in {"array open", "after element"} /\ c = "]" -> {<<>>}
      [] s.at = "after element" /\ c = "," ->
            {<<Value(s.of), Sym("after element", s.of)>>}
      [] s.at = "name" -> InText(s, c, <<Sym("after name", s.of)>>)
      [] s.at = "string" -> InText(s, c, <<>>)
      [] s.at = "escape" /\ c \in {"quote", "bs", "l"} -> {<<>>}
      [] s.at = "escape" /\ c = "u" -> {<<Left("hex", 4)>>}
      [] s.at = "hex" /\ c \in Hex ->
            {IF s.left = 1 THEN <<>> ELSE <<Left("hex", s.left - 1)>>}
      [] s.at = "literal" /\ c = "a" ->
            {IF s.left = 1 THEN <<>> ELSE <<Left("literal", s.left - 1)>>}
      [] s.at = "minus" -> Only({"0"}, c, "zero") \cup Only({"1"}, c, "int")
      [] s.at = "zero" -> Fraction(c)
      [] s.at = "int" -> Only(Digits, c, "int") \cup Fraction(c)
      [] s.at = "point" -> Only(Digits, c, "frac")
      [] s.at = "frac" -> Only(Digits, c, "frac") \cup Only({"e"}, c, "e")
      [] s.at = "e" -> Only(Digits, c, "exp") \cup Only({"-"}, c, "e sign")
      [] s.at = "e sign" -> Only(Digits, c, "exp")
      [] s.at = "exp" -> Only(Digits, c, "exp")
      [] OTHER -> {}

\* What s may be replaced by before c is read.
NumberEnds(s, c) == s.at \in {"zero", "int", "frac", "exp"} /\ Moves(s, c) = {}
FirstElement(s, c) == s.at = "array open" /\ Moves(s, c) = {}

-----------------------------------------------------------------------------
GInit == /\ \E t \in Types : ctx = <<Value(t)>>
         /\ next = None /\ closed = FALSE /\ verdict = "open"

\* After the end of the text blanks are read: they end a number.
Read == /\ verdict = "open" /\ next = None
        /\ next' \in IF closed THEN {"ws"} ELSE Chars
        /\ UNCHANGED <<ctx, closed, verdict>>

Consume == /\ verdict = "open" /\ next # None
           /\ IF ctx = <<>>
              THEN next = "ws" /\ UNCHANGED ctx
              ELSE \E r \in Moves(Head(ctx), next) : ctx' = r \o Tail(ctx)
           /\ next' = None
           /\ UNCHANGED <<closed, verdict>>

EndNumber == /\ verdict = "open" /\ next # None /\ ctx # <<>>
             /\ NumberEnds(Head(ctx), next)
             /\ ctx' = Tail(ctx)
             /\ UNCHANGED <<next, closed, verdict>>

StartElement == /\ verdict = "open" /\ next # None /\ ctx # <<>>
                /\ FirstElement(Head(ctx), next)
                /\ LET t == Head(ctx).of
                   IN  ctx' = <<Value(t), Sym("after element", t)>> \o Tail(ctx)
                /\ UNCHANGED <<next, closed, verdict>>

\* No JSON text goes on like this, or a number is out of range.
Reject == /\ verdict = "open" /\ next # None
          /\ IF ctx = <<>>
             THEN next # "ws"
             ELSE Moves(Head(ctx), next) = {} /\ ~FirstElement(Head(ctx), next)
          /\ ctx # <<>> /\ NumberEnds(Head(ctx), next) => Head(ctx).at # "zero"
          /\ verdict' = "rejected" /\ ctx' = <<>> /\ next' = None
          /\ UNCHANGED closed

\* The end of the text: a value that is complete is accepted at once.
Close == /\ verdict = "open" /\ next = None /\ ~closed
         /\ closed' = TRUE
         /\ verdict' = IF ctx = <<>> THEN "accepted" ELSE "open"
         /\ UNCHANGED <<ctx, next>>

Decide == /\ verdict = "open" /\ next = None /\ closed
          /\ verdict' = IF ctx = <<>> THEN "accepted" ELSE "rejected"
          /\ ctx' = <<>>
          /\ UNCHANGED <<next, closed>>

GNext == \/ Read \/ Consume \/ EndNumber \/ StartElement
         \/ Reject \/ Close \/ Decide

GSpec == GInit /\ [][GNext]_gvars
=============================================================================
