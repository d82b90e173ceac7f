----------------------------- MODULE EuGenerate -----------------------------
(***************************************************************************)
(* The incremental generator: lib/generate.c, the state machines of        *)
(* struct_gen_sm.c and array_gen_sm.c, eu_escape, and the generators of    *)
(* leaf values, over the continuation stack.                               *)
(*                                                                         *)
(* A generator and the frame it saves itself in are the same record, as in *)
(* EuParse.  Each call of eu_generate has an output buffer of any size up  *)
(* to MaxBuffer.  Only writes that the code guards by a comparison with    *)
(* output_end are guarded here.                                            *)
(***************************************************************************)
EXTENDS JsonValues

CONSTANTS
    IntegerRoom,    \* 19, the digits of an integer
    DoubleRoom,     \* MAX_DOUBLE_CHARS
    MaxBuffer       \* bound: bytes in an output buffer

ASSUME RoomAssumption ==
    /\ IntegerRoom \in Nat /\ DoubleRoom \in Nat /\ MaxBuffer \in Nat
    /\ \A v \in Values :
          /\ Shape[v].kind = "integer" => Len(Shape[v].chars) \in 1 .. IntegerRoom
          /\ Shape[v].kind = "double" => Len(Shape[v].chars) \in 1 .. DoubleRoom - 1

VARIABLES
    root,       \* the value that eu_generate_create was given
    calls,      \* the generators on the C stack, innermost first
    fresh,      \* the frames of the last pause, innermost first
    base,       \* the frames of earlier pauses, innermost first
    fromNew,    \* was the running frame popped from fresh?
    space,      \* output_end - output
    scratch,    \* the scratch text
    out,        \* what all calls have written
    phase

vars == <<root, calls, fresh, base, fromNew, space, scratch, out, phase>>

Phases == {"idle",          \* between calls of eu_generate
           "running",       \* at the head of a loop of eu_stack_run
           "generating",    \* in the innermost of calls
           "pausing",       \* calls return EU_PAUSED, innermost first
           "failed",        \* eg->error
           "astray"}        \* memory behind the extras is read: undefined

\* A generator or its frame: the function, its value, where it is in it (ahead:
\* how many extras the variable extra is ahead of i, which no frame keeps),
\* the first character it still has to write, and what is left of a text.
Gen(fn, v, state) == [fn |-> fn, value |-> v, state |-> state,
                      part |-> "MEMBERS", i |-> 1, ahead |-> 0, prefix |-> "{",
                      text |-> <<>>, buf |-> <<>>, pos |-> 0]

\* metadata->generate; variants and pointers to structs pass the call on.
Generate(v) == Gen("value", v, "START")
Fixed(v, text) == [Gen("fixed", v, "TEXT") EXCEPT !.text = text]
Escape(v, text) == [Gen("escape", v, "TEXT") EXCEPT !.text = text]

Top == Head(calls)
At(s) == [Top EXCEPT !.state = s]
Of == Shape[Top.value]

-----------------------------------------------------------------------------
(***************************************************************************)
(* What a generator may do next.                                           *)
(***************************************************************************)
\* *eg->output++ = ..., memcpy
Emit(s) == out' = out \o s /\ space' = space - Len(s)
Silent == UNCHANGED <<out, space>>

Keep == UNCHANGED <<fresh, base>>
Consolidate == fresh' = <<>> /\ base' = fresh \o base
Reserve == Keep \/ Consolidate      \* eu_stack_reserve_scratch

GoOn(a) == calls' = <<a>> \o Tail(calls) /\ Keep /\ UNCHANGED phase
Call(a, callee) == calls' = <<callee, a>> \o Tail(calls) /\ Keep /\ UNCHANGED phase

\* Mutant of Leave: the last generator does not return to eu_stack_run.
LeaveNobody == calls' = Tail(calls) /\ UNCHANGED phase

Leave == /\ calls' = Tail(calls)
         /\ phase' = IF Tail(calls) = <<>> THEN "running" ELSE phase
Return == Leave /\ Keep
Fail == calls' = <<>> /\ phase' = "failed" /\ Keep
Stray == calls' = <<>> /\ phase' = "astray" /\ Keep

Unwind == /\ calls' = Tail(calls)
          /\ phase' = IF Tail(calls) = <<>> THEN "idle" ELSE "pausing"

\* Mutant of Pause: without eu_stack_begin_pause.
PauseUnconsolidated(a) == Unwind /\ fresh' = Append(fresh, a) /\ UNCHANGED base

\* eu_stack_alloc_first, or eu_stack_begin_pause and then eu_stack_alloc.
Pause(a) == Unwind /\ fresh' = <<a>> /\ base' = fresh \o base

\* Mutant of Reinstate: eu_stack_run does not fall through to its return.
ReinstateForever(a) ==
    /\ calls' = <<>> /\ phase' = "running"
    /\ IF fromNew THEN fresh' = <<a>> \o fresh /\ UNCHANGED base
                  ELSE base' = <<a>> \o base /\ UNCHANGED fresh

\* return EU_REINSTATE_PAUSED
Reinstate(a) == /\ Unwind
                /\ IF fromNew THEN fresh' = <<a>> \o fresh /\ UNCHANGED base
                              ELSE base' = <<a>> \o base /\ UNCHANGED fresh

\* The innermost generator is fn, in state s.
Running(fn, s) == /\ phase = "generating" /\ Top.fn = fn /\ Top.state = s
                  /\ UNCHANGED <<root, fromNew>>
Generating(fn, s) == Running(fn, s) /\ UNCHANGED scratch

First(s, n) == SubSeq(s, 1, n)
After(s, n) == SubSeq(s, n + 1, Len(s))

-----------------------------------------------------------------------------
(***************************************************************************)
(* Texts that are fixed, and strings.                                      *)
(***************************************************************************)
\* initial_gen_resume
Initial == /\ Generating("initial", "START") /\ Silent
           /\ IF space = 0 THEN Reinstate(Top) ELSE GoOn(Generate(Top.value))

\* Mutant of FixedGen: nothing is written unless all fits.
FixedGenWhole(text) ==
    IF space >= Len(text) THEN Emit(text) /\ Return
                          ELSE Silent /\ Pause(Fixed(Top.value, text))

\* eu_fixed_gen_slow; the fast paths are for buffers with room for all.
FixedGen(text) ==
    IF space >= Len(text)
    THEN Emit(text) /\ Return
    ELSE Emit(First(text, space)) /\ Pause(Fixed(Top.value, After(text, space)))

FixedValue == /\ Generating("value", "START") /\ Of.kind = "fixed"
              /\ FixedGen(Of.chars)

FixedResume == Generating("fixed", "TEXT") /\ FixedGen(Top.text)

\* string_generate
StringGenerate == /\ Generating("value", "START") /\ Of.kind = "string"
                  /\ Emit(<<"quote">>) /\ GoOn(Escape(Top.value, Of.chars))

\* What follows the backslash for a character that must be escaped.
Escaped(c) == IF c = "ctrl" THEN <<"u", "0", "0", "0", "1">> ELSE <<c>>
MustEscape == {"quote", "bs", "ctrl"}

\* The loop of eu_escape, one character at a time, and its end.
EscapeEnd == IF space = 0 THEN Pause(Top) /\ Silent
                          ELSE Emit(<<"quote">>) /\ Return

EscapeChar ==
    LET c    == Head(Top.text)
        rest == [Top EXCEPT !.text = Tail(@)]
        n    == space - 1
    IN  \/ space = 0 /\ Pause(Top) /\ Silent
        \/ /\ space > 0 /\ c \notin MustEscape
           /\ Emit(<<c>>) /\ GoOn(rest)
        \/ /\ space > Len(Escaped(c)) /\ c \in MustEscape
           /\ Emit(<<"bs">> \o Escaped(c)) /\ GoOn(rest)
        \/ /\ space \in 1 .. Len(Escaped(c)) /\ c \in MustEscape
           /\ Emit(<<"bs">> \o First(Escaped(c), n))
           /\ Pause([rest EXCEPT !.fn = "escaping",
                                 !.buf = After(Escaped(c), n)])

EuEscape == /\ Generating("escape", "TEXT")
            /\ IF Top.text = <<>> THEN EscapeEnd ELSE EscapeChar

\* escaping_resume
EscapingResume ==
    /\ Generating("escaping", "TEXT")
    /\ IF space >= Len(Top.buf)
       THEN Emit(Top.buf) /\ GoOn(Escape(Top.value, Top.text))
       ELSE Emit(First(Top.buf, space)) /\ Reinstate([Top EXCEPT !.buf = After(@, space)])

-----------------------------------------------------------------------------
(***************************************************************************)
(* Numbers: text that does not fit is kept in the scratch area, where an   *)
(* integer's digits are put in from the right.                             *)
(***************************************************************************)
Junk(n) == [k \in 1 .. n |-> "junk"]

\* output_scratch, with the text behind pos bytes; sign is written before.
OutputScratch(sign, pos, text) ==
    LET n == space - Len(sign)
    IN  IF n >= Len(text)
        THEN Emit(sign \o text) /\ Leave /\ Reserve /\ UNCHANGED scratch
        ELSE /\ Emit(sign \o First(text, n))
             /\ scratch' = Junk(pos) \o text
             /\ Pause([Gen("number", Top.value, "TEXT") EXCEPT !.pos = pos + n])

\* integer_generate
IntegerGenerate ==
    /\ Running("value", "START") /\ Of.kind = "integer"
    /\ IF Of.chars = <<"0">>
       THEN Emit(<<"0">>) /\ Return /\ UNCHANGED scratch
       ELSE OutputScratch(IF Of.negative THEN <<"-">> ELSE <<>>,
                          IntegerRoom - Len(Of.chars), Of.chars)

\* number_generate, of a number that is no integer
NumberGenerate ==
    /\ Running("value", "START")
    /\ \/ Of.kind = "nan" /\ Fail /\ Silent /\ UNCHANGED scratch
       \/ /\ Of.kind = "double" /\ space >= DoubleRoom
          /\ Emit(Of.chars) /\ Return /\ UNCHANGED scratch
       \/ /\ Of.kind = "double" /\ space < DoubleRoom
          /\ OutputScratch(<<>>, 0, Of.chars)

\* number_gen_resume
NumberResume ==
    /\ Running("number", "TEXT")
    /\ LET text == After(scratch, Top.pos)
       IN  IF space >= Len(text)
           THEN Emit(text) /\ Return /\ scratch' = <<>>
           ELSE /\ Emit(First(text, space)) /\ UNCHANGED scratch
                /\ Reinstate([Top EXCEPT !.pos = @ + space])

-----------------------------------------------------------------------------
(***************************************************************************)
(* Arrays: array_generate and array_gen_sm.c.                              *)
(***************************************************************************)
ArrayGenerate ==
    /\ Generating("value", "START") /\ Of.kind = "array"
    /\ IF Of.items = <<>>
       THEN FixedGen(<<"[", "]">>)
       ELSE Emit(<<"[">>) /\ GoOn(Gen("array", Top.value, "COMMA"))

ArrayComma ==
    /\ Generating("array", "COMMA") /\ Silent
    /\ IF space = 0 THEN Pause(Top)
       ELSE Call(At("ELEMENT"), Generate(Of.items[Top.i].value))

ArrayElement ==
    /\ Generating("array", "ELEMENT")
    /\ \/ space = 0 /\ Pause(Top) /\ Silent
       \/ /\ space > 0 /\ Top.i < Len(Of.items)
          /\ Emit(<<",">>) /\ GoOn([At("COMMA") EXCEPT !.i = @ + 1])
       \/ space > 0 /\ Top.i = Len(Of.items) /\ Emit(<<"]">>) /\ Return

-----------------------------------------------------------------------------
(***************************************************************************)
(* Objects: inline_struct_generate and struct_gen_sm.c.  LOOP is the head  *)
(* of the loop over the members, then of that over the extras; the other   *)
(* states are called STRUCT_MEMBERS_GEN_... and STRUCT_EXTRAS_GEN_...      *)
(***************************************************************************)
StructGenerate == /\ Generating("value", "START") /\ Of.kind = "struct"
                  /\ GoOn(Gen("struct", Top.value, "LOOP")) /\ Silent

Entries == IF Top.part = "MEMBERS" THEN Of.items ELSE Of.extras
Index == IF Top.part = "MEMBERS" THEN Top.i ELSE Top.i + Top.ahead
Entry == Entries[Index]
Skipped == Top.part = "MEMBERS" /\ ~Entry.present

\* The prefix of the next entry is written, and the entry begun.
StructLoop ==
    /\ Generating("struct", "LOOP")
    /\ \/ /\ Top.i <= Len(Entries) /\ ~Skipped
          /\ Emit(<<Top.prefix>>)
          /\ GoOn([At("PREFIX") EXCEPT !.prefix = ","])
       \/ /\ Top.i <= Len(Entries) /\ Skipped
          /\ Silent /\ GoOn([Top EXCEPT !.i = @ + 1])
       \/ /\ Top.i > Len(Entries) /\ Top.part = "MEMBERS"
          /\ Silent /\ GoOn([Top EXCEPT !.part = "EXTRAS", !.i = 1])
       \/ /\ Top.i > Len(Entries) /\ Top.part = "EXTRAS"
          /\ IF Top.prefix = "{" THEN FixedGen(<<"{", "}">>)
                                 ELSE Emit(<<"}">>) /\ Return

StructPrefix ==
    /\ Generating("struct", "PREFIX")
    /\ \/ space = 0 /\ Pause(Top) /\ Silent
       \/ space > 0 /\ Index > Len(Entries) /\ Emit(<<"quote">>) /\ Stray
       \/ /\ space > 0 /\ Index <= Len(Entries)
          /\ Emit(<<"quote">>)
          /\ Call(At("MEMBER_NAME"), Escape(Top.value, Entry.name))

StructMemberName ==
    /\ Generating("struct", "MEMBER_NAME")
    /\ \/ space = 0 /\ Pause(Top) /\ Silent
       \/ space > 0 /\ Emit(<<":">>) /\ GoOn(At("COLON"))

\* Mutant of StructColon: the output may be full.
StructColonUnchecked ==
    /\ Generating("struct", "COLON") /\ Silent
    /\ Call(At("MEMBER_VALUE"), Generate(Entry.value))

StructColon ==
    /\ Generating("struct", "COLON") /\ Silent
    /\ IF space = 0 THEN Pause(Top)
       ELSE Call(At("MEMBER_VALUE"), Generate(Entry.value))

StructMemberValue ==
    /\ Generating("struct", "MEMBER_VALUE") /\ Silent
    /\ IF space = 0 THEN Pause(Top) ELSE GoOn([At("LOOP") EXCEPT !.i = @ + 1])

Struct == \/ StructGenerate \/ StructLoop \/ StructPrefix
          \/ StructMemberName \/ StructColon \/ StructMemberValue

Generators == \/ Initial \/ FixedValue \/ FixedResume
              \/ StringGenerate \/ EuEscape \/ EscapingResume
              \/ IntegerGenerate \/ NumberGenerate \/ NumberResume
              \/ ArrayGenerate \/ ArrayComma \/ ArrayElement \/ Struct

-----------------------------------------------------------------------------
(***************************************************************************)
(* eu_generate_create, eu_generate and eu_stack_run.                       *)
(***************************************************************************)
Init == /\ root \in Values
        /\ base = <<Gen("initial", root, "START")>>
        /\ calls = <<>> /\ fresh = <<>> /\ fromNew = FALSE
        /\ space = 0 /\ scratch = <<>> /\ out = <<>> /\ phase = "idle"

EuGenerate(len) == /\ phase = "idle"
                   /\ space' = len /\ phase' = "running"
                   /\ UNCHANGED <<root, calls, fresh, base, fromNew, scratch, out>>

\* struct_gen_resume takes i for the index of an extra in any state.
Restored(a) ==
    IF a.fn = "struct"
    THEN [a EXCEPT !.ahead = IF a.part = "MEMBERS" THEN a.i - 1 ELSE 0]
    ELSE a

Resume(a) == /\ phase = "running"
             /\ calls' = <<Restored(a)>> /\ phase' = "generating"
             /\ UNCHANGED <<root, space, scratch, out>>

PopFresh == /\ fresh # <<>>
            /\ Resume(Head(fresh))
            /\ fresh' = Tail(fresh) /\ fromNew' = TRUE
            /\ UNCHANGED base

PopBase == /\ fresh = <<>> /\ base # <<>>
           /\ Resume(Head(base))
           /\ base' = Tail(base) /\ fromNew' = FALSE
           /\ UNCHANGED fresh

RunOk == /\ phase = "running" /\ fresh = <<>> /\ base = <<>>
         /\ phase' = "idle"
         /\ UNCHANGED <<root, calls, fresh, base, fromNew, space, scratch, out>>

\* A generator that returned EU_PAUSED has its caller save itself.
SaveCaller == /\ phase = "pausing"
              /\ Unwind /\ fresh' = Append(fresh, Top)
              /\ UNCHANGED <<root, base, fromNew, space, scratch, out>>

Ended == phase \in {"failed", "astray"} /\ UNCHANGED vars

Next == \/ \E len \in 0 .. MaxBuffer : EuGenerate(len)
        \/ PopFresh \/ PopBase \/ RunOk \/ SaveCaller \/ Ended
        \/ Generators

Spec == Init /\ [][Next]_vars

\* A call of eu_generate runs to its end; the caller comes back, and not with
\* empty buffers only.
Step == phase \in {"running", "generating", "pausing"} /\ Next
CallWithRoom == \E len \in 1 .. MaxBuffer : EuGenerate(len)

FairSpec == Spec /\ WF_vars(Step) /\ SF_vars(CallWithRoom)

-----------------------------------------------------------------------------
(***************************************************************************)
(* Correctness.                                                            *)
(***************************************************************************)
Fns == {"initial", "value", "fixed", "escape", "escaping", "number", "array",
        "struct"}
States == {"START", "TEXT", "COMMA", "ELEMENT", "LOOP", "PREFIX",
           "MEMBER_NAME", "COLON", "MEMBER_VALUE"}

Gens == [fn : Fns, value : Values, state : States,
         part : {"MEMBERS", "EXTRAS"}, i : Nat, ahead : Int, prefix : {"{", ","},
         text : Seq(Char), buf : Seq(Char), pos : Nat]

\* Every variable has its type; generators are on the C stack exactly while
\* one generates or they save themselves.
TypeOK == /\ root \in Values
          /\ calls \in Seq(Gens) /\ fresh \in Seq(Gens) /\ base \in Seq(Gens)
          /\ fromNew \in BOOLEAN /\ space \in Int /\ phase \in Phases
          /\ scratch \in Seq(Char \cup {"junk"}) /\ out \in Seq(Char \cup {"junk"})
          /\ calls # <<>> <=> phase \in {"generating", "pausing"}

\* No generator writes behind output_end, whatever is written without a look
\* at it: "There is always at least one char of space in the output buffer"
\* (array.c:222), "We always get called with at least a byte of space"
\* (string.c:359), and the prefixes and closing braces of struct_gen_sm.c.
OutputInBuffer == space >= 0

\* "If the output buffer was not filled, then either generation is complete or
\* an error occured" (euphemus.h:138-140).
FillsBuffer == phase = "idle" /\ fresh \o base # <<>> => space = 0
=============================================================================
