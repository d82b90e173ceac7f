---------------------------- MODULE EuParseImpl ----------------------------
(***************************************************************************)
(* EuParse implements JsonGrammar: the parsers on the C stack and in the   *)
(* frames, put together in the order of their nesting, are the automaton's *)
(* stack.                                                                  *)
(***************************************************************************)
EXTENDS EuParse

Sym(at, of) == [at |-> at, of |-> of, left |-> 0]
Left(at, n) == [at |-> at, of |-> None, left |-> n]

InEsc(a) == CASE a.esc = "BACKSLASH" -> <<Sym("escape", None)>>
              [] a.esc = "U"    -> <<Left("hex", 4)>>
              [] a.esc = "UX"   -> <<Left("hex", 3)>>
              [] a.esc = "UXX"  -> <<Left("hex", 2)>>
              [] a.esc = "UXXX" -> <<Left("hex", 1)>>
              [] OTHER          -> <<>>

OfStruct(a) ==
    CASE a.state = "OPEN"         -> <<Sym("object open", a.type)>>
      [] a.state = "MEMBER_NAME"  -> <<Sym("after name", a.type)>>
      [] a.state = "COLON"        -> <<Sym("value", a.child), Sym("after member", a.type)>>
      [] a.state = "MEMBER_VALUE" -> <<Sym("after member", a.type)>>
      [] a.state = "COMMA"        -> <<Sym("comma", a.type)>>
      [] OTHER                    -> InEsc(a) \o <<Sym("name", a.type)>>

OfArray(a) ==
    CASE a.state = "OPEN"    -> <<Sym("array open", a.child)>>
      [] a.state = "ELEMENT" -> <<Sym("after element", a.child)>>
      [] a.state = "COMMA"   -> <<Sym("value", a.child), Sym("after element", a.child)>>

NumberPart == [s \in NumberStates |->
    CASE s = "LEADING_MINUS" -> "minus"
      [] s = "LEADING_ZERO"  -> "zero"
      [] s \in {"INT_DIGITS", "OVERFLOW_DIGITS"} -> "int"
      [] s = "POINT"         -> "point"
      [] s = "FRAC_DIGITS"   -> "frac"
      [] s = "E"             -> "e"
      [] s = "E_PLUS_MINUS"  -> "e sign"
      [] s = "E_DIGITS"      -> "exp"
      [] OTHER               -> "value"]

\* What a parser is in the middle of.
Symbols(a) ==
    CASE a.fn = "struct" -> OfStruct(a)
      [] a.fn = "array"  -> OfArray(a)
      [] a.fn = "expect" -> <<Left("literal", a.left)>>
      [] a.fn \in {"string", "string_resume"} -> InEsc(a) \o <<Sym("string", None)>>
      [] a.fn \in {"number", "number_resume"} /\ a.state \notin {"START", "SKIP"} ->
            <<Sym(NumberPart[a.state], None)>>
      [] OTHER -> <<Sym("value", a.type)>>

AllSymbols(s) ==
    LET from[i \in 1 .. Len(s) + 1] ==
            IF i > Len(s) THEN <<>> ELSE Symbols(s[i]) \o from[i + 1]
    IN  from[1]

\* A bad escape sequence is as good as an error before it is reported.
Doomed == calls # <<>> /\ Top.state = "TORN"

Context == CASE phase \in {"failed", "incomplete"} \/ Doomed -> <<>>
             [] phase = "pausing" -> AllSymbols(fresh \o calls \o base)
             [] OTHER -> AllSymbols(calls \o fresh \o base)

Verdict == CASE phase = "accepted" -> "accepted"
             [] phase \in {"failed", "incomplete"} \/ Doomed -> "rejected"
             [] OTHER -> "open"

Grammar == INSTANCE JsonGrammar WITH
               ctx     <- Context,
               next    <- IF p = End \/ Doomed THEN None ELSE p,
               closed  <- closing # "no",
               verdict <- Verdict

\* However the text is cut into chunks, eu_parse and eu_parse_finish accept
\* what the grammar accepts and reject what it rejects: the parsers that are
\* resumed are where the parser of the whole text would be.
ImplementsGrammar == Grammar!GSpec
=============================================================================
