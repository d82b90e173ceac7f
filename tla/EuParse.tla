------------------------------ MODULE EuParse ------------------------------
(***************************************************************************)
(* The incremental parser: lib/parse.c, the state machines of struct.c and *)
(* array.c, and the parsers of leaf values, over the continuation stack.   *)
(*                                                                         *)
(* A parser is described by the record it would save in a frame when the   *)
(* input runs out: the frames on the stack and the parsers on the C stack  *)
(* are sequences of such records.  The input is read one character at a    *)
(* time; a chunk ends wherever the environment likes.                      *)
(***************************************************************************)
EXTENDS JsonChars

CONSTANTS
    MaxDepth,   \* bound: nested objects and arrays
    Avoid       \* what the environment does not do, see Situations

Situations == {"empty chunk before number",
               "escape split twice",      \* within a member name
               "end after bad escape",    \* within a string
               "space after cut integer", \* the chunk ends in that before a number
               "misread hex digit"}       \* see Hex

ASSUME MaxDepthAssumption == MaxDepth \in Nat
ASSUME AvoidAssumption == Avoid \subseteq Situations

VARIABLES
    calls,      \* the parsers on the C stack, innermost first
    fresh,      \* the frames of the last pause, innermost first
    base,       \* the frames of earlier pauses, innermost first
    fromNew,    \* was the running frame popped from fresh?
    p,          \* the character at ep->input, once a parser has looked
    scratch,    \* the text in the scratch area of the stack
    closing,    \* how far eu_parse_finish is with its space
    phase

vars == <<calls, fresh, base, fromNew, p, scratch, closing, phase>>

Phases == {"idle",      \* between calls of eu_parse
           "running",   \* at the head of a loop of eu_stack_run
           "parsing",   \* in the innermost of calls
           "pausing",   \* calls return EU_PAUSED, innermost first
           "trailing",  \* in eu_parse, the value complete
           "failed",    \* ep->error
           "aborted",   \* convert has called abort()
           "accepted", "incomplete"}    \* eu_parse_finish returned 1, 0

End == "end"

Scratches ==
    {"none",
     "own",     \* of the member name or the number that is being parsed
     "left",    \* begins with that of an integer that was complete before
     "signed",  \* the same, and the number that is being parsed, whose text
                \* will be put behind it, has a minus sign
     "broken"}  \* begins with that of an integer and then has a minus sign

\* A parser or its frame: the function, the type of the value, where it is
\* in it, the type of the member or element it is at, the escape sequence it
\* is in, and the letters it still expects.
Parser(fn, type, state, child) ==
    [fn |-> fn, type |-> type, state |-> state, child |-> child,
     esc |-> None, left |-> 0]

\* metadata->parse: number_parse skips white space itself.
ParserOf(t) == IF t = "number" THEN Parser("number", t, "START", None)
                               ELSE Parser("value", t, "START", None)

\* Members of a generic object are variants; those of a schema's, anything.
ChildTypes(t) == IF t = "variant" THEN {"variant"} ELSE Types

Top == Head(calls)
At(s) == [Top EXCEPT !.state = s]

-----------------------------------------------------------------------------
(***************************************************************************)
(* What a parser may do next.                                              *)
(***************************************************************************)
Advance(a, consumed) == /\ calls' = <<a>> \o Tail(calls)
                        /\ p' = IF consumed THEN None ELSE p
                        /\ UNCHANGED phase

\* Mutant of Leave: the last parser does not return to eu_stack_run.
LeaveNobody(consumed) == /\ calls' = Tail(calls)
                         /\ p' = IF consumed THEN None ELSE p
                         /\ UNCHANGED phase

Leave(consumed) == /\ calls' = Tail(calls)
                   /\ phase' = IF Tail(calls) = <<>> THEN "running" ELSE phase
                   /\ p' = IF consumed THEN None ELSE p

\* The stack is left alone, or eu_stack_begin_pause is called, or
\* eu_stack_reserve_scratch does so if it needs to.
Keep == UNCHANGED <<fresh, base>>
Consolidate == fresh' = <<>> /\ base' = fresh \o base
Reserve == Keep \/ Consolidate

\* Go on as a, behind the character at ep->input or still at it.
GoOn(a, consumed) == Advance(a, consumed) /\ Keep

\* Call the parser of a value of type t.
Call(a, t) == /\ calls' = <<ParserOf(t), a>> \o Tail(calls)
              /\ Keep /\ UNCHANGED <<phase, p>>

\* return EU_OK: to the caller, or to eu_stack_run.
Return(consumed) == Leave(consumed) /\ Keep

\* return EU_ERROR, as every caller then does; eu_parse sets ep->error.
Fail == calls' = <<>> /\ phase' = "failed" /\ p' = None /\ Keep

Abort == calls' = <<>> /\ phase' = "aborted" /\ p' = None /\ Keep

\* return EU_PAUSED: the callers save themselves next.
Unwind == /\ calls' = Tail(calls)
          /\ phase' = IF Tail(calls) = <<>> THEN "idle" ELSE "pausing"
          /\ p' = None

\* eu_stack_alloc, without eu_stack_begin_pause before it.
PauseUnconsolidated(a) == Unwind /\ fresh' = Append(fresh, a) /\ UNCHANGED base

\* eu_stack_alloc_first, or eu_stack_begin_pause and then eu_stack_alloc.
Pause(a) == Unwind /\ fresh' = <<a>> /\ base' = fresh \o base

\* Mutants of Reinstate: the frame counts as an old one; eu_stack_run does not
\* fall through to its return.
ReinstateOld(a) == Unwind /\ base' = <<a>> \o base /\ UNCHANGED fresh
ReinstateForever(a) ==
    /\ calls' = <<>> /\ phase' = "running" /\ p' = None
    /\ IF fromNew THEN fresh' = <<a>> \o fresh /\ UNCHANGED base
                  ELSE base' = <<a>> \o base /\ UNCHANGED fresh

\* return EU_REINSTATE_PAUSED
Reinstate(a) == /\ Unwind
                /\ IF fromNew THEN fresh' = <<a>> \o fresh /\ UNCHANGED base
                              ELSE base' = <<a>> \o base /\ UNCHANGED fresh

\* The innermost parser is fn, in state s, and looks at ep->input.
Looking(fn, s) == /\ phase = "parsing" /\ p # None
                  /\ Top.fn = fn /\ Top.state = s
                  /\ UNCHANGED <<fromNew, closing>>

\* ... and does nothing to the scratch text.
Parsing(fn, s) == Looking(fn, s) /\ UNCHANGED scratch

-----------------------------------------------------------------------------
(***************************************************************************)
(* eu_unescape and eu_finish_unescape, one character at a time.            *)
(***************************************************************************)
\* unescape_table: d and e lack the flag of a digit, and t has it.
Hex == Digits \cup {"l"}

\* The escape sequence after c; "bad" when c may not be part of it.
Escaped(esc, c) ==
    CASE esc = "BACKSLASH" /\ c \in {"quote", "bs", "l"} -> None
      [] esc = "BACKSLASH" /\ c = "u"  -> "U"
      [] esc = "U"    /\ c \in Hex -> "UX"
      [] esc = "UX"   /\ c \in Hex -> "UXX"
      [] esc = "UXX"  /\ c \in Hex -> "UXXX"
      [] esc = "UXXX" /\ c \in Hex -> None
      [] OTHER -> "bad"

InEscape(e) == Top.esc # None /\ p # End /\ Escaped(Top.esc, p) = e

\* The escape sequence goes on, or ends; then the parser is in state s.
Unescape(s) == \E e \in {"U", "UX", "UXX", "UXXX", None} :
                  /\ InEscape(e)
                  /\ GoOn([Top EXCEPT !.esc = e,
                                      !.state = IF e = None THEN s ELSE @], TRUE)

-----------------------------------------------------------------------------
(***************************************************************************)
(* Where a value starts.                                                   *)
(***************************************************************************)
\* initial_parse_resume
Initial == /\ Parsing("initial", "START")
           /\ IF p = End THEN Reinstate(Top) ELSE GoOn(ParserOf(Top.type), FALSE)

\* The parsers that a value of type t may have whose first character is c.
Started(t, c) ==
    CASE c = "{" /\ t \in {"struct", "variant"} ->
            {Parser("struct", t, "OPEN", None)}
      [] c = "[" /\ t \in {"array", "variant"} ->
            {Parser("array", t, "OPEN", u) : u \in ChildTypes(t)}
      [] c = "quote" /\ t \in {"string", "variant"} ->
            {Parser("string", None, "TEXT", None)}
      [] c = "l" /\ t \in {"bool", "variant"} ->
            {[Parser("expect", None, "LETTERS", None) EXCEPT !.left = n] :
                n \in LiteralRest}
      [] OTHER -> {}

StartsNumber(t, c) == t = "variant" /\ c \in Digits \cup {"-"}

\* variant_parse, eu_consume_whitespace_until and consume_ws_resume.
ValueStart ==
    /\ Parsing("value", "START")
    /\ \/ p = End /\ Pause(Top)
       \/ p = "ws" /\ GoOn(Top, TRUE)
       \/ \E a \in Started(Top.type, p) : GoOn(a, TRUE)
       \/ /\ StartsNumber(Top.type, p)
          /\ GoOn(Parser("number", Top.type, "START", None), FALSE)
       \/ /\ p \notin {End, "ws"}
          /\ Started(Top.type, p) = {} /\ ~StartsNumber(Top.type, p)
          /\ Fail

\* eu_parse_expect_slow
Expect ==
    /\ Parsing("expect", "LETTERS")
    /\ \/ p = End /\ Pause(Top)
       \/ p = "a" /\ Top.left = 1 /\ Return(TRUE)
       \/ p = "a" /\ Top.left > 1 /\ GoOn([Top EXCEPT !.left = @ - 1], TRUE)
       \/ p \notin {End, "a"} /\ Fail

-----------------------------------------------------------------------------
(***************************************************************************)
(* Objects: struct_parse_sm.c, and what struct.c adds to resume it.        *)
(***************************************************************************)
StructOpen ==
    /\ Parsing("struct", "OPEN")
    /\ \/ p = End /\ Pause(Top)
       \/ p = "ws" /\ GoOn(Top, TRUE)
       \/ p = "quote" /\ GoOn(At("IN_MEMBER_NAME"), TRUE)
       \/ p = "}" /\ Return(TRUE)
       \/ p \notin {End, "ws", "quote", "}"} /\ Fail

\* The whole name is scanned first and unescaped then, with room for it
\* reserved in between.  It is in the scratch area if it was cut or has an
\* escape sequence; the area is reset when it has been looked up there.
StructInMemberName ==
    /\ Looking("struct", "IN_MEMBER_NAME")
    /\ \/ p = End /\ Pause(Top) /\ scratch' = "own"
       \/ Unescape("IN_MEMBER_NAME") /\ UNCHANGED scratch
       \/ InEscape("bad") /\ Fail /\ UNCHANGED scratch
       \/ /\ Top.esc = None /\ p = "bs"
          /\ Advance([Top EXCEPT !.esc = "BACKSLASH"], TRUE) /\ Reserve
          /\ scratch' = "own"
       \/ /\ Top.esc = None /\ p = "quote"
          /\ \E t \in ChildTypes(Top.type) :     \* add_member
                GoOn([At("MEMBER_NAME") EXCEPT !.child = t], TRUE)
          /\ scratch' = IF scratch = "own" THEN "none" ELSE scratch
       \/ /\ Top.esc = None /\ p \notin {End, "bs", "quote"}
          /\ GoOn(Top, TRUE) /\ UNCHANGED scratch

\* A frame with half an escape sequence: room for its character first ...
StructReserve ==
    /\ phase = "parsing" /\ Top.fn = "struct" /\ Top.state = "RESERVE"
    /\ Advance(At("FINISH_ESCAPE"), FALSE) /\ Reserve
    /\ UNCHANGED <<fromNew, scratch, closing>>

\* ... then the rest of the sequence.
StructFinishEscape ==
    /\ Parsing("struct", "FINISH_ESCAPE")
    /\ \/ p = End /\ PauseUnconsolidated(At("IN_MEMBER_NAME"))
       \/ Unescape("IN_MEMBER_NAME")
       \/ InEscape("bad") /\ Fail

StructMemberName ==
    /\ Parsing("struct", "MEMBER_NAME")
    /\ \/ p = End /\ Pause(Top)
       \/ p = "ws" /\ GoOn(Top, TRUE)
       \/ p = ":" /\ GoOn(At("COLON"), TRUE)
       \/ p \notin {End, "ws", ":"} /\ Fail

\* Mutant of StructColon: it does not look whether there is input.
StructColonUnchecked ==
    /\ Parsing("struct", "COLON")
    /\ Call([At("MEMBER_VALUE") EXCEPT !.child = None], Top.child)

\* member_metadata is not used any more once its parser is called.
StructColon ==
    /\ Parsing("struct", "COLON")
    /\ \/ p = End /\ Pause(Top)
       \/ p # End /\ Call([At("MEMBER_VALUE") EXCEPT !.child = None], Top.child)

StructMemberValue ==
    /\ Parsing("struct", "MEMBER_VALUE")
    /\ \/ p = End /\ Pause(Top)
       \/ p = "ws" /\ GoOn(Top, TRUE)
       \/ p = "," /\ GoOn(At("COMMA"), TRUE)
       \/ p = "}" /\ Return(TRUE)
       \/ p \notin {End, "ws", ",", "}"} /\ Fail

StructComma ==
    /\ Parsing("struct", "COMMA")
    /\ \/ p = End /\ Pause(Top)
       \/ p = "ws" /\ GoOn(Top, TRUE)
       \/ p = "quote" /\ GoOn(At("IN_MEMBER_NAME"), TRUE)
       \/ p \notin {End, "ws", "quote"} /\ Fail

Struct == \/ StructOpen \/ StructInMemberName \/ StructReserve
          \/ StructFinishEscape \/ StructMemberName \/ StructColon
          \/ StructMemberValue \/ StructComma

-----------------------------------------------------------------------------
(***************************************************************************)
(* Arrays: array_parse_sm.c.                                               *)
(***************************************************************************)
ArrayOpen ==
    /\ Parsing("array", "OPEN")
    /\ \/ p = End /\ Pause(Top)
       \/ p = "ws" /\ GoOn(Top, TRUE)
       \/ p = "]" /\ Return(TRUE)
       \/ p \notin {End, "ws", "]"} /\ Call(At("ELEMENT"), Top.child)

ArrayElement ==
    /\ Parsing("array", "ELEMENT")
    /\ \/ p = End /\ Pause(Top)
       \/ p = "ws" /\ GoOn(Top, TRUE)
       \/ p = "," /\ GoOn(At("COMMA"), TRUE)
       \/ p = "]" /\ Return(TRUE)
       \/ p \notin {End, "ws", ",", "]"} /\ Fail

ArrayComma ==
    /\ Parsing("array", "COMMA")
    /\ \/ p = End /\ Pause(Top)
       \/ p # End /\ Call(At("ELEMENT"), Top.child)

Array == ArrayOpen \/ ArrayElement \/ ArrayComma

-----------------------------------------------------------------------------
(***************************************************************************)
(* Strings: string_parse and string_parse_resume.  Like a member name, a   *)
(* string is scanned to its end or that of the chunk before it is          *)
(* unescaped.                                                              *)
(***************************************************************************)
StringParse ==
    /\ Parsing("string", "TEXT")
    /\ \/ p = End /\ Pause([Top EXCEPT !.fn = "string_resume"])
       \/ Unescape("TEXT")
       \/ InEscape("bad") /\ Fail
       \/ Top.esc = None /\ p = "quote" /\ Return(TRUE)
       \/ /\ Top.esc = None /\ p = "bs"
          /\ GoOn([Top EXCEPT !.esc = "BACKSLASH"], TRUE)
       \/ Top.esc = None /\ p \notin {End, "bs", "quote"} /\ GoOn(Top, TRUE)

\* The sequence that a chunk ended in.
StringFinishEscape ==
    /\ Parsing("string_resume", "FINISH_ESCAPE")
    /\ \/ p = End /\ Reinstate(At("TEXT"))
       \/ Unescape("TEXT")
       \/ InEscape("bad") /\ Fail

\* A bad escape sequence is an error if the closing quote comes in this
\* chunk.  If not, pause_unescape computes frame->len from eu_unescape's NULL:
\* the frame is TORN.
StringResume ==
    /\ Parsing("string_resume", "TEXT")
    /\ \/ p = End /\ Reinstate(Top)
       \/ Unescape("TEXT")
       \/ InEscape("bad") /\ p = "quote" /\ Fail
       \/ /\ InEscape("bad") /\ p # "quote"
          /\ GoOn([At("TORN") EXCEPT
                      !.esc = IF p = "bs" THEN "BACKSLASH" ELSE None], TRUE)
       \/ Top.esc = None /\ p = "quote" /\ Return(TRUE)
       \/ /\ Top.esc = None /\ p = "bs"
          /\ GoOn([Top EXCEPT !.esc = "BACKSLASH"], TRUE)
       \/ Top.esc = None /\ p \notin {End, "bs", "quote"} /\ GoOn(Top, TRUE)

\* quotes_escaped_bounded: an even number of backslashes escapes no quote.
StringTorn ==
    /\ Parsing("string_resume", "TORN")
    /\ \/ p = End /\ Reinstate([Top EXCEPT !.esc = None])
       \/ p = "quote" /\ Top.esc = None /\ Fail
       \/ /\ p # End /\ (p = "quote" => Top.esc # None)
          /\ GoOn([Top EXCEPT !.esc = IF p = "bs" /\ @ = None
                                      THEN "BACKSLASH" ELSE None], TRUE)

String == StringParse \/ StringFinishEscape \/ StringResume \/ StringTorn

-----------------------------------------------------------------------------
(***************************************************************************)
(* Numbers: number_parse_sm.c.  Numbers that are not small integers go     *)
(* through strtod, which may find them out of range.                       *)
(***************************************************************************)
NumberStates == {"START", "SKIP", "LEADING_MINUS", "LEADING_ZERO",
                 "INT_DIGITS", "OVERFLOW_DIGITS", "POINT", "FRAC_DIGITS",
                 "E", "E_PLUS_MINUS", "E_DIGITS"}
Integers == {"LEADING_ZERO", "INT_DIGITS"}
Complete == Integers \cup {"OVERFLOW_DIGITS", "FRAC_DIGITS", "E_DIGITS"}

\* The states that c may lead to.  OVERFLOW_DIGITS are also digits that
\* int_value has room for, but an eu_integer_t has not.
NumberMoves(s, c) ==
    CASE s \in {"START", "SKIP"} /\ c = "ws" -> {"SKIP"}
      [] s \in {"START", "SKIP"} /\ c = "-"  -> {"LEADING_MINUS"}
      [] s \in {"START", "SKIP", "LEADING_MINUS"} /\ c = "0" -> {"LEADING_ZERO"}
      [] s \in {"START", "SKIP", "LEADING_MINUS"} /\ c = "1" -> {"INT_DIGITS"}
      [] s = "INT_DIGITS" /\ c \in Digits -> {"INT_DIGITS", "OVERFLOW_DIGITS"}
      [] s = "OVERFLOW_DIGITS" /\ c \in Digits -> {"OVERFLOW_DIGITS"}
      [] s \in {"LEADING_ZERO", "INT_DIGITS", "OVERFLOW_DIGITS"} /\ c = "." -> {"POINT"}
      [] s \in {"POINT", "FRAC_DIGITS"} /\ c \in Digits -> {"FRAC_DIGITS"}
      [] s \in Complete \ {"E_DIGITS"} /\ c = "e" -> {"E"}
      [] s = "E" /\ c = "-" -> {"E_PLUS_MINUS"}
      [] s \in {"E", "E_PLUS_MINUS", "E_DIGITS"} /\ c \in Digits -> {"E_DIGITS"}
      [] OTHER -> {}

\* At START *p is read without a look at end: with no input the model stops.
NumberPauses(s) == s # "START"

ParsingNumber == \E fn \in {"number", "number_resume"}, s \in NumberStates :
                    Looking(fn, s)

IsResumed == Top.fn = "number_resume"

\* leading_minus: the number's text, with its sign, may come to stand behind
\* what an integer left.
NumberReads ==
    \E s \in NumberMoves(Top.state, p) :
        /\ GoOn(At(s), TRUE)
        /\ scratch' = IF s = "LEADING_MINUS" /\ IsResumed /\ scratch = "left"
                      THEN "signed" ELSE scratch

\* Mutant of TextCut: number_parse, too, appends.
TextCutAppended == CASE scratch = "none" -> "own"
                     [] OTHER            -> scratch

\* eu_stack_set_scratch in number_parse, eu_stack_append_scratch in
\* number_parse_resume, also of a number that has no text there yet.
TextCut == CASE Top.fn = "number"   -> "own"
             [] scratch = "none"    -> "own"
             [] scratch = "signed"  -> "broken"
             [] OTHER               -> scratch

\* pause, or pause_whitespace
NumberPause ==
    /\ p = End /\ NumberPauses(Top.state)
    /\ Pause([Top EXCEPT !.fn = "number_resume",
                         !.state = IF @ = "SKIP" THEN "START" ELSE @])
    /\ scratch' = IF Top.state = "SKIP" THEN scratch ELSE TextCut

NumberEnds == p # End /\ NumberMoves(Top.state, p) = {}

\* PARSED_INTEGER: the text of a number that was cut stays where it is.
NumberInteger ==
    /\ NumberEnds /\ Top.state \in Integers
    /\ Return(FALSE)
    /\ scratch' = IF IsResumed /\ scratch \in {"own", "signed"} THEN "left"
                  ELSE scratch

\* PARSED_HUGE_INTEGER and PARSED_NON_INTEGER: strtod reads the number from
\* the chunk, or, if it was resumed, all of the scratch text, where it may
\* stop before the end.  Where an integer is asked for, they are an error.
Converts == NumberEnds /\ Top.state \in Complete \ Integers

NumberConverted ==
    /\ Converts
    /\ \/ ~IsResumed /\ Return(FALSE) /\ UNCHANGED scratch
       \/ /\ IsResumed /\ scratch \notin {"signed", "broken"}
          /\ Leave(FALSE) /\ Reserve /\ scratch' = "none"
       \/ /\ IsResumed /\ scratch \in {"signed", "broken"}
          /\ Abort /\ UNCHANGED scratch
       \/ Fail /\ UNCHANGED scratch

NumberError == /\ NumberEnds /\ Top.state \notin Complete
               /\ Fail /\ UNCHANGED scratch

Number == /\ ParsingNumber
          /\ \/ NumberReads \/ NumberPause
             \/ NumberInteger \/ NumberConverted \/ NumberError

-----------------------------------------------------------------------------
(***************************************************************************)
(* eu_stack_run, eu_parse and eu_parse_finish.                             *)
(***************************************************************************)
Init == /\ \E t \in Types : base = <<Parser("initial", t, "START", None)>>
        /\ calls = <<>> /\ fresh = <<>> /\ fromNew = FALSE
        /\ p = None /\ scratch = "none" /\ closing = "no" /\ phase = "idle"

EuParse == /\ phase = "idle" /\ closing = "no"
           /\ phase' = "running"
           /\ UNCHANGED <<calls, fresh, base, fromNew, p, scratch, closing>>

\* frame->resume
Resumed(a) ==
    IF a.esc = None THEN a
    ELSE [a EXCEPT !.state = IF a.fn = "struct" THEN "RESERVE"
                                                ELSE "FINISH_ESCAPE"]

\* What a TORN frame does is undefined: the model stops.
Resume(a) == /\ a.state # "TORN"
             /\ calls' = <<Resumed(a)>>
             /\ phase' = "parsing"
             /\ UNCHANGED <<p, scratch, closing>>

PopFresh == /\ phase = "running" /\ fresh # <<>>
            /\ Resume(Head(fresh))
            /\ fresh' = Tail(fresh) /\ fromNew' = TRUE
            /\ UNCHANGED base

PopBase == /\ phase = "running" /\ fresh = <<>> /\ base # <<>>
           /\ Resume(Head(base))
           /\ base' = Tail(base) /\ fromNew' = FALSE
           /\ UNCHANGED fresh

RunOk == /\ phase = "running" /\ fresh = <<>> /\ base = <<>>
         /\ phase' = "trailing"
         /\ UNCHANGED <<calls, fresh, base, fromNew, p, scratch, closing>>

Trailing == /\ phase = "trailing" /\ p # None
            /\ p' = None
            /\ \/ p = End /\ phase' = "idle"
               \/ p = "ws" /\ UNCHANGED phase
               \/ p \notin {End, "ws"} /\ phase' = "failed"
            /\ UNCHANGED <<calls, fresh, base, fromNew, scratch, closing>>

\* A parser that returned EU_PAUSED has its caller save itself.
SaveCaller == /\ phase = "pausing"
              /\ PauseUnconsolidated(Top)
              /\ UNCHANGED <<fromNew, scratch, closing>>

\* eu_parse_finish, if the value is not complete, parses a space.
StackEmpty == fresh = <<>> /\ base = <<>>

Finish == /\ phase = "idle" /\ closing = "no"
          /\ IF StackEmpty THEN phase' = "accepted" /\ closing' = "end"
                           ELSE phase' = "running" /\ closing' = "space"
          /\ UNCHANGED <<calls, fresh, base, fromNew, p, scratch>>

FinishResult == /\ phase = "idle" /\ closing = "end"
                /\ phase' = IF StackEmpty THEN "accepted" ELSE "incomplete"
                /\ UNCHANGED <<calls, fresh, base, fromNew, p, scratch, closing>>

Finished == /\ phase \in {"failed", "aborted", "accepted", "incomplete"}
            /\ UNCHANGED vars

-----------------------------------------------------------------------------
(***************************************************************************)
(* The input: the next character of the chunk, or its end.                 *)
(***************************************************************************)
IsContainer(a) == a.fn \in {"struct", "array"}
Depth == Len(SelectSeq(calls \o fresh \o base, IsContainer))

MayEnd ==
    phase = "parsing" =>
      /\ Top.fn = "number_resume" /\ Top.state = "START" =>
            "empty chunk before number" \notin Avoid
      /\ Top.state = "FINISH_ESCAPE" /\ Top.fn = "struct" =>
            "escape split twice" \notin Avoid
      /\ Top.state = "TORN" => "end after bad escape" \notin Avoid
      /\ Top.state = "SKIP" /\ scratch \in {"left", "broken"} =>
            "space after cut integer" \notin Avoid

InHex == phase = "parsing" /\ Top.esc \notin {None, "BACKSLASH"}

NextInput == {c \in Chars : /\ c \in {"{", "["} => Depth < MaxDepth
                            /\ c \in {"e", "l"} /\ InHex =>
                                  "misread hex digit" \notin Avoid}
                \cup {e \in {End} : MayEnd}

LookAhead == /\ phase \in {"parsing", "trailing"} /\ p = None
             /\ phase = "parsing" => Top.state # "RESERVE"
             /\ \/ closing = "no" /\ p' \in NextInput /\ UNCHANGED closing
                \/ closing = "space" /\ p' = "ws" /\ closing' = "end"
                \/ closing = "end" /\ p' = End /\ UNCHANGED closing
             /\ UNCHANGED <<calls, fresh, base, fromNew, scratch, phase>>

Next == \/ EuParse \/ PopFresh \/ PopBase \/ RunOk \/ Trailing \/ SaveCaller
        \/ Finish \/ FinishResult \/ Finished \/ LookAhead
        \/ Initial \/ ValueStart \/ Expect \/ Struct \/ Array \/ String \/ Number

Spec == Init /\ [][Next]_vars

\* A call of eu_parse or eu_parse_finish runs to its end, and a chunk has one.
InCall == phase \in {"running", "parsing", "pausing", "trailing", "aborted"}
Step == InCall /\ Next
ChunkEnds == LookAhead /\ p' = End

FairSpec == Spec /\ WF_vars(Step) /\ SF_vars(ChunkEnds)

-----------------------------------------------------------------------------
(***************************************************************************)
(* Correctness.                                                            *)
(***************************************************************************)
Fns == {"initial", "value", "expect", "struct", "array", "string",
        "string_resume", "number", "number_resume"}
Escapes == {None, "BACKSLASH", "U", "UX", "UXX", "UXXX"}
States == NumberStates \cup
          {"LETTERS", "OPEN", "IN_MEMBER_NAME", "RESERVE", "FINISH_ESCAPE",
           "MEMBER_NAME", "COLON", "MEMBER_VALUE", "COMMA", "ELEMENT",
           "TEXT", "TORN"}

Parsers == [fn : Fns, type : AllTypes \cup {None}, state : States,
            child : AllTypes \cup {None}, esc : Escapes, left : Nat]

\* Every variable has its type; parsers are on the C stack exactly while they
\* parse or save themselves, and nobody looks at the input in between.
TypeOK == /\ calls \in Seq(Parsers) /\ fresh \in Seq(Parsers) /\ base \in Seq(Parsers)
          /\ fromNew \in BOOLEAN /\ p \in Chars \cup {None, End}
          /\ scratch \in Scratches
          /\ closing \in {"no", "space", "end"} /\ phase \in Phases
          /\ calls # <<>> <=> phase \in {"parsing", "pausing"}
          /\ p # None => phase \in {"parsing", "running", "trailing"}

\* A parser that waits for the value of a member or an element.
Waits(a) == \/ a.fn = "struct" /\ a.state = "MEMBER_VALUE"
            \/ a.fn = "array" /\ a.state = "ELEMENT"

AllWait(s) == \A i \in DOMAIN s : Waits(s[i])

\* Only the innermost of the parsers that are running or paused is anywhere
\* but at the value of a member or an element, so that the others are resumed
\* when that value is complete: a frame is never put in front of the frame of
\* a parser that it called (stack.c:32-41, struct.c:295-300).
InnermostFirst ==
    /\ phase = "parsing" => AllWait(Tail(calls)) /\ AllWait(fresh \o base)
    /\ phase = "pausing" => AllWait(calls) /\ AllWait(Tail(fresh) \o base)
    /\ phase \notin {"parsing", "pausing"} /\ fresh \o base # <<>> =>
          AllWait(Tail(fresh \o base))

\* number_parse_sm.c:15 reads *p, and nobody has it do so at the end of the
\* input.
ReadsOnlyInput ==
    phase = "parsing" /\ p = End =>
        ~(Top.fn \in {"number", "number_resume"} /\ Top.state = "START")

\* No frame is left behind by a parser that met a bad escape sequence:
\* "NULL on error" (unescape.c:106) is an error to every caller of eu_unescape.
NoTornFrame == \A i \in DOMAIN (fresh \o base) : (fresh \o base)[i].state # "TORN"

\* What convert gives strtod is the text of one number: no integer that was
\* complete before has left its own in front of it, by any way through the
\* numbers and the member names that share the scratch area (number.c:204-218,
\* number_parse_sm.c:259-268).
ConvertsOneNumber ==
    phase = "parsing" /\ p # None /\ IsResumed /\ Converts =>
        scratch \in {"none", "own"}

\* "We have already checked the syntax of the number, so this should never
\* happen" (number.c:149): strtod reads to the end of what it is given.
NeverAborts == phase # "aborted"

\* eu_parse returns: the loops of eu_stack_run, the parsers and the trailing
\* white space get to the end of the chunk and do not start over.  (Of a chunk
\* that may not end where it could go on for ever, see Avoid, nothing is
\* claimed.)
ParseReturns ==
    InCall ~> \/ ~InCall
              \/ phase = "parsing" /\ Top.state \in {"TORN", "SKIP"} /\ ~MayEnd
=============================================================================
