-------------------------- MODULE EuGenerateProofs --------------------------
(***************************************************************************)
(* What holds of EuGenerate for all values and all sizes of buffers.       *)
(***************************************************************************)
EXTENDS EuGenerate, TLAPS

\* The innermost generator and those it returns to.
LEMMA HeadTail ==
    ASSUME NEW S, NEW s \in Seq(S), s # <<>>
    PROVE  Head(s) \in S /\ Tail(s) \in Seq(S) /\ Len(s) \in Nat \ {0}
OBVIOUS

\* A generator put in front of others.
LEMMA Pushed ==
    ASSUME NEW S, NEW s \in Seq(S), NEW a
    PROVE  /\ a \in S => <<a>> \o s \in Seq(S)
           /\ <<a>> \o s # <<>>
           /\ Head(<<a>> \o s) = a /\ Tail(<<a>> \o s) = s
OBVIOUS

\* Two characters.
LEMMA PairIs ==
    ASSUME NEW S, NEW a \in S, NEW b \in S
    PROVE  <<a, b>> \in Seq(S)
OBVIOUS

\* Frames consolidated, and one behind the fresh ones.
LEMMA Joined ==
    ASSUME NEW S, NEW s \in Seq(S), NEW t \in Seq(S), NEW a \in S
    PROVE  s \o t \in Seq(S) /\ Append(s, a) \in Seq(S) /\ <<a>> \in Seq(S)
OBVIOUS

\* The part of a text that is written, and the part that is kept.
LEMMA FirstAfter ==
    ASSUME NEW S, NEW s \in Seq(S), NEW n \in Nat
    PROVE  /\ After(s, n) \in Seq(S)
           /\ n <= Len(s) => First(s, n) \in Seq(S) /\ Len(First(s, n)) = n
BY DEF First, After

-----------------------------------------------------------------------------
(***************************************************************************)
(* A generator that is Needy writes without a look at output_end; those    *)
(* that save themselves never are.  The index of a generator that is       *)
(* within an array or a struct is that of an element or a member; where    *)
(* the name of an extra has been read, it was one of the extras.           *)
(***************************************************************************)
Letters == Char \cup {"junk"}
Needy(a) == \/ a.fn = "value"
            \/ a.fn = "struct" /\ a.state = "LOOP"

EntriesOf(a) == IF a.part = "MEMBERS" THEN Shape[a.value].items
                                      ELSE Shape[a.value].extras
IndexOf(a) == IF a.part = "MEMBERS" THEN a.i ELSE a.i + a.ahead
Placed(a) == /\ a.fn = "array" => a.i \in 1 .. Len(Shape[a.value].items)
             /\ a.fn = "struct" =>
                   /\ a.i >= 1 /\ a.ahead >= 0
                   /\ a.state # "LOOP" => a.i <= Len(EntriesOf(a))
                   /\ a.state \notin {"LOOP", "PREFIX"} =>
                         IndexOf(a) <= Len(EntriesOf(a))

Able == {a \in Gens : Placed(a)}
Calm == {a \in Able : ~Needy(a)}

IInv ==
    /\ TypeOK /\ OutputInBuffer /\ FillsBuffer
    /\ fresh \in Seq(Calm) /\ base \in Seq(Calm)
    /\ calls # <<>> => /\ Top \in Able /\ Tail(calls) \in Seq(Calm)
                       /\ Needy(Top) => phase = "generating" /\ space >= 1
    /\ phase = "pausing" => space = 0

\* Calm generators are able, and able ones have their types.
LEMMA CalmIsAble ==
    /\ Calm \subseteq Able /\ Able \subseteq Gens
    /\ Seq(Calm) \subseteq Seq(Able) /\ Seq(Able) \subseteq Seq(Gens)
BY DEF Calm, Able

\* A value's shape.
LEMMA ShapeOf ==
    ASSUME NEW v \in Values
    PROVE  /\ Shape[v].kind \in ValueKinds /\ Shape[v].chars \in Seq(Char)
           /\ Shape[v].negative \in BOOLEAN
           /\ Shape[v].items \in Seq(Item) /\ Shape[v].extras \in Seq(Item)
BY ShapeAssumption DEF ValueShape

\* New generators, which are neither in an array nor in a struct.
LEMMA NewAble ==
    ASSUME NEW v \in Values, NEW fn \in Fns \ {"array", "struct"},
           NEW s \in {"START", "TEXT"}
    PROVE  /\ Gen(fn, v, s) \in Able
           /\ fn # "value" => Gen(fn, v, s) \in Calm
<1>1. <<>> \in Seq(Char) OBVIOUS
<1>2. Gen(fn, v, s) \in Gens BY <1>1 DEF Gen, Gens, States, Fns
<1>3. Gen(fn, v, s).fn = fn BY DEF Gen
<1> HIDE DEF Gen
<1> QED BY <1>2, <1>3 DEF Able, Calm, Placed, Needy, Fns

-----------------------------------------------------------------------------
(***************************************************************************)
(* The shapes of a generator's step: it goes on, calls another generator,  *)
(* returns, fails, pauses, or has its frame put back.                      *)
(***************************************************************************)
Onward == \E a \in Able : GoOn(a) /\ space' \in Nat /\ (Needy(a) => space' >= 1)
Inward == \E a \in Calm, b \in Able :
             Call(a, b) /\ space' \in Nat /\ (Needy(b) => space' >= 1)
Back == Leave /\ Reserve /\ space' \in Nat
Away == \E a \in Calm : Pause(a) /\ space' = 0
Again == \E a \in Calm : Reinstate(a) /\ space' = 0
Over == (Fail \/ Stray) /\ space' \in Nat

Shaped == Onward \/ Inward \/ Back \/ Away \/ Again \/ Over
Steady == /\ phase = "generating" /\ UNCHANGED <<root, fromNew>>
          /\ out' \in Seq(Letters) /\ scratch' \in Seq(Letters)
          /\ Shaped

\* What is to be shown of a step after which a generator is on the C stack
LEMMA BusyIInv ==
    ASSUME root' \in Values, fromNew' \in BOOLEAN,
           out' \in Seq(Letters), scratch' \in Seq(Letters),
           fresh' \in Seq(Calm), base' \in Seq(Calm),
           phase' \in {"generating", "pausing"}, calls' # <<>>,
           NEW a \in Able, NEW s \in Seq(Calm), calls' = <<a>> \o s,
           Needy(a) => phase' = "generating" /\ space' >= 1,
           space' \in Nat, phase' = "pausing" => space' = 0
    PROVE  IInv'
<1>1. Head(calls') = a /\ Tail(calls') = s /\ calls' \in Seq(Gens)
  BY Pushed, CalmIsAble
<1>2. fresh' \in Seq(Gens) /\ base' \in Seq(Gens) BY CalmIsAble
<1>3. TypeOK' BY <1>1, <1>2 DEF TypeOK, Phases, Letters
<1>4. OutputInBuffer' /\ FillsBuffer' BY DEF OutputInBuffer, FillsBuffer
<1>5. Top' = a BY <1>1 DEF Top
<1>6. (Needy(Top))' = Needy(a) BY <1>5 DEF Needy
<1> QED BY <1>1, <1>3, <1>4, <1>5, <1>6 DEF IInv

\* and of one after which there is none.
LEMMA FreeIInv ==
    ASSUME root' \in Values, fromNew' \in BOOLEAN,
           out' \in Seq(Letters), scratch' \in Seq(Letters),
           fresh' \in Seq(Calm), base' \in Seq(Calm),
           phase' \in {"idle", "running", "failed", "astray"}, calls' = <<>>,
           space' \in Nat,
           phase' = "idle" => fresh' \o base' = <<>> \/ space' = 0
    PROVE  IInv'
<1>1. fresh' \in Seq(Gens) /\ base' \in Seq(Gens) /\ <<>> \in Seq(Gens)
  BY CalmIsAble
<1> QED BY <1>1 DEF IInv, TypeOK, OutputInBuffer, FillsBuffer, Phases, Letters

\* Reserving room and consolidating leave calm frames.
LEMMA ReserveCalm ==
    ASSUME fresh \in Seq(Calm), base \in Seq(Calm), Reserve
    PROVE  fresh' \in Seq(Calm) /\ base' \in Seq(Calm)
<1>1. fresh \o base \in Seq(Calm) /\ <<>> \in Seq(Calm) OBVIOUS
<1> QED BY <1>1 DEF Reserve, Keep, Consolidate

\* The callers of a generator, when it is off the C stack.
LEMMA UnwindIInv ==
    ASSUME root' \in Values, fromNew' \in BOOLEAN,
           out' \in Seq(Letters), scratch' \in Seq(Letters),
           Tail(calls) \in Seq(Calm), calls' = Tail(calls),
           fresh' \in Seq(Calm), base' \in Seq(Calm), space' \in Nat,
           \/ phase' = IF Tail(calls) = <<>> THEN "running" ELSE "generating"
           \/ phase' = (IF Tail(calls) = <<>> THEN "idle" ELSE "pausing")
              /\ space' = 0
    PROVE  IInv'
<1>1. CASE Tail(calls) = <<>> BY <1>1, FreeIInv
<1>2. CASE Tail(calls) # <<>>
  <2> DEFINE a == Head(Tail(calls))
             s == Tail(Tail(calls))
  <2>1. a \in Calm /\ s \in Seq(Calm) /\ calls' = <<a>> \o s BY <1>2, SMTT(60)
  <2>2. a \in Able /\ ~Needy(a) BY <2>1 DEF Calm
  <2>3. phase' \in {"generating", "pausing"} /\ calls' # <<>> BY <1>2
  <2>4. phase' = "pausing" => space' = 0 BY <1>2
  <2> HIDE DEF a, s
  <2> QED BY <2>1, <2>2, <2>3, <2>4, BusyIInv
<1> QED BY <1>1, <1>2

\* A generator's step keeps the invariant, whatever its shape.
LEMMA SteadyIInv == IInv /\ Steady => IInv'
<1> SUFFICES ASSUME IInv, Steady PROVE IInv' OBVIOUS
<1>1. /\ phase = "generating" /\ root' \in Values /\ fromNew' \in BOOLEAN
      /\ out' \in Seq(Letters) /\ scratch' \in Seq(Letters) /\ Shaped
      /\ fresh \in Seq(Calm) /\ base \in Seq(Calm) /\ Tail(calls) \in Seq(Calm)
  BY DEF Steady, IInv, TypeOK
<1>2. CASE Onward
  <2>1. PICK a \in Able : GoOn(a) /\ space' \in Nat /\ (Needy(a) => space' >= 1)
    BY <1>2 DEF Onward
  <2>2. /\ calls' = <<a>> \o Tail(calls) /\ phase' = "generating"
        /\ fresh' = fresh /\ base' = base
    BY <1>1, <2>1 DEF GoOn, Keep
  <2>3. calls' # <<>> BY <1>1, <2>2, Pushed
  <2> QED BY <1>1, <2>1, <2>2, <2>3, BusyIInv
<1>3. CASE Inward
  <2>1. PICK a \in Calm, b \in Able :
           Call(a, b) /\ space' \in Nat /\ (Needy(b) => space' >= 1)
    BY <1>3 DEF Inward
  <2>2. /\ calls' = <<b, a>> \o Tail(calls) /\ phase' = "generating"
        /\ fresh' = fresh /\ base' = base
    BY <1>1, <2>1 DEF Call, Keep
  <2>3. /\ <<a>> \o Tail(calls) \in Seq(Calm)
        /\ calls' = <<b>> \o (<<a>> \o Tail(calls)) /\ calls' # <<>>
    BY <1>1, <2>1, <2>2
  <2> QED BY <1>1, <2>1, <2>2, <2>3, BusyIInv
<1>4. CASE Back
  <2>1. /\ calls' = Tail(calls) /\ Reserve /\ space' \in Nat
        /\ phase' = IF Tail(calls) = <<>> THEN "running" ELSE "generating"
    BY <1>1, <1>4 DEF Back, Leave
  <2> QED BY <1>1, <2>1, ReserveCalm, UnwindIInv
<1>5. CASE Away
  <2>1. PICK a \in Calm : Pause(a) /\ space' = 0 BY <1>5 DEF Away
  <2>2. /\ calls' = Tail(calls)
        /\ phase' = IF Tail(calls) = <<>> THEN "idle" ELSE "pausing"
        /\ fresh' = <<a>> /\ base' = fresh \o base
    BY <2>1 DEF Pause, Unwind
  <2>3. fresh' \in Seq(Calm) /\ base' \in Seq(Calm) BY <1>1, <2>1, <2>2, Joined
  <2> QED BY <1>1, <2>1, <2>2, <2>3, UnwindIInv
<1>6. CASE Again
  <2>1. PICK a \in Calm : Reinstate(a) /\ space' = 0 BY <1>6 DEF Again
  <2>2. /\ calls' = Tail(calls)
        /\ phase' = IF Tail(calls) = <<>> THEN "idle" ELSE "pausing"
    BY <2>1 DEF Reinstate, Unwind
  <2>3. fresh' \in Seq(Calm) /\ base' \in Seq(Calm)
    <3>1. <<a>> \o fresh \in Seq(Calm) /\ <<a>> \o base \in Seq(Calm)
      BY <1>1, <2>1, Pushed
    <3> QED BY <1>1, <2>1, <3>1 DEF Reinstate
  <2> QED BY <1>1, <2>1, <2>2, <2>3, UnwindIInv
<1>7. CASE Over
  <2>1. /\ calls' = <<>> /\ phase' \in {"failed", "astray"} /\ space' \in Nat
        /\ fresh' = fresh /\ base' = base
    BY <1>7 DEF Over, Fail, Stray, Keep
  <2> QED BY <1>1, <2>1, FreeIInv
<1> QED BY <1>1, <1>2, <1>3, <1>4, <1>5, <1>6, <1>7 DEF Shaped

-----------------------------------------------------------------------------
(***************************************************************************)
(* Each generator's actions are of these shapes.                           *)
(***************************************************************************)
\* The innermost generator.
LEMMA TopIs ==
    ASSUME IInv, phase = "generating"
    PROVE  /\ Top \in Able /\ Top \in Gens /\ Top.value \in Values
           /\ Top.state \in States /\ Top.i \in Nat /\ Top.ahead \in Int
           /\ Top.part \in {"MEMBERS", "EXTRAS"}
           /\ Top.text \in Seq(Char) /\ Top.buf \in Seq(Char) /\ Top.pos \in Nat
           /\ space \in Nat /\ (Needy(Top) => space >= 1)
           /\ Placed(Top) /\ (~Needy(Top) => Top \in Calm)
           /\ out \in Seq(Letters) /\ scratch \in Seq(Letters)
<1>1. calls # <<>> /\ space \in Nat BY DEF IInv, TypeOK, OutputInBuffer
<1>2. Top \in Able /\ (Needy(Top) => space >= 1) BY <1>1 DEF IInv
<1>3. Top \in Gens /\ Placed(Top) /\ (~Needy(Top) => Top \in Calm)
  BY <1>2 DEF Able, Calm
<1>4. out \in Seq(Letters) /\ scratch \in Seq(Letters)
  BY DEF IInv, TypeOK, Letters
<1> QED BY <1>1, <1>2, <1>3, <1>4 DEF Gens

\* Text may be written.
LEMMA CharsAreLetters == Seq(Char) \subseteq Seq(Letters)
BY DEF Letters

\* A text of which only a part fits,
LEMMA Split ==
    ASSUME NEW text \in Seq(Char), NEW n \in Nat, n < Len(text)
    PROVE  /\ First(text, n) \in Seq(Letters) /\ Len(First(text, n)) = n
           /\ After(text, n) \in Seq(Char)
<1>1. Len(text) \in Nat /\ n <= Len(text) BY DEF Letters
<1>2. After(text, n) \in Seq(Char) BY FirstAfter
<1>3. First(text, n) \in Seq(Char) /\ Len(First(text, n)) = n
  BY <1>1, FirstAfter
<1> QED BY <1>2, <1>3, CharsAreLetters

\* and one behind a backslash.
LEMMA Backslashed ==
    ASSUME NEW text \in Seq(Char)
    PROVE  /\ <<"bs">> \o text \in Seq(Letters)
           /\ Len(<<"bs">> \o text) = Len(text) + 1
<1>1. "bs" \in Char BY DEF Char
<1>2. <<"bs">> \o text \in Seq(Char) /\ Len(<<"bs">> \o text) = Len(text) + 1
  BY <1>1
<1> QED BY <1>2, CharsAreLetters

\* What is written if there is room for it.
LEMMA Written ==
    ASSUME IInv, phase = "generating", NEW s \in Seq(Letters), Emit(s)
    PROVE  /\ out' \in Seq(Letters) /\ space' = space - Len(s)
           /\ Len(s) \in Nat
           /\ space' \in Int
           /\ Len(s) <= space => space' \in Nat
<1>1. out \in Seq(Letters) /\ space \in Nat /\ Len(s) \in Nat BY TopIs
<1> QED BY <1>1 DEF Emit

\* A single character.
LEMMA WrittenOne ==
    ASSUME IInv, phase = "generating", NEW c \in Char, Emit(<<c>>), space >= 1
    PROVE  out' \in Seq(Letters) /\ space' \in Nat
<1>1. <<c>> \in Seq(Letters) /\ Len(<<c>>) = 1 BY DEF Letters
<1>2. space \in Nat BY TopIs
<1> QED BY <1>1, <1>2, Written

\* A calm generator of neither an array nor a struct is calm with another text
LEMMA TextKept ==
    ASSUME NEW a \in Calm, a.fn \notin {"array", "struct"},
           NEW text \in Seq(Char)
    PROVE  [a EXCEPT !.text = text] \in Calm
<1> DEFINE b == [a EXCEPT !.text = text]
<1>1. b \in Gens /\ b.fn = a.fn BY DEF Calm, Able, Gens
<1>2. a.fn # "value" BY DEF Calm, Needy
<1> HIDE DEF b
<1>3. Placed(b) /\ ~Needy(b) BY <1>1, <1>2 DEF Placed, Needy
<1>4. b \in Calm BY <1>1, <1>3 DEF Calm, Able
<1> QED BY <1>4 DEF b

\* and at another position.
LEMMA PosKept ==
    ASSUME NEW a \in Calm, a.fn \notin {"array", "struct"}, NEW n \in Nat
    PROVE  [a EXCEPT !.pos = n] \in Calm
<1> DEFINE b == [a EXCEPT !.pos = n]
<1>1. b \in Gens /\ b.fn = a.fn BY DEF Calm, Able, Gens
<1>2. a.fn # "value" BY DEF Calm, Needy
<1> HIDE DEF b
<1>3. Placed(b) /\ ~Needy(b) BY <1>1, <1>2 DEF Placed, Needy
<1>4. b \in Calm BY <1>1, <1>3 DEF Calm, Able
<1> QED BY <1>4 DEF b

\* The generators that others start or become.
LEMMA NewGens ==
    ASSUME NEW v \in Values, NEW text \in Seq(Char), NEW n \in Nat
    PROVE  /\ Generate(v) \in Able
           /\ Fixed(v, text) \in Calm /\ Escape(v, text) \in Calm
           /\ [Gen("number", v, "TEXT") EXCEPT !.pos = n] \in Calm
<1>1. Generate(v) \in Able BY NewAble DEF Generate, Fns
<1>2. /\ Gen("fixed", v, "TEXT") \in Calm /\ Gen("escape", v, "TEXT") \in Calm
      /\ Gen("number", v, "TEXT") \in Calm
  BY NewAble DEF Fns
<1>3. /\ Gen("fixed", v, "TEXT").fn = "fixed"
      /\ Gen("escape", v, "TEXT").fn = "escape"
      /\ Gen("number", v, "TEXT").fn = "number"
  BY DEF Gen
<1>4. Fixed(v, text) \in Calm /\ Escape(v, text) \in Calm
  BY <1>2, <1>3, TextKept DEF Fixed, Escape
<1>5. [Gen("number", v, "TEXT") EXCEPT !.pos = n] \in Calm
  BY <1>2, <1>3, PosKept
<1> QED BY <1>1, <1>4, <1>5

\* The same values as in a generator's step, in all that are not numbers.
Plain == phase = "generating" /\ UNCHANGED <<root, fromNew, scratch>>

\* Calm generators are not needy.
LEMMA CalmIs == ASSUME NEW a \in Calm PROVE a \in Able /\ ~Needy(a)
BY DEF Calm

\* A generator that finds the buffer full and saves itself,
LEMMA PausesFull ==
    ASSUME IInv, Plain, Pause(Top), Silent, space = 0, ~Needy(Top)
    PROVE  Steady
<1>1. Top \in Calm /\ out' \in Seq(Letters) /\ scratch' \in Seq(Letters)
  BY TopIs DEF Plain, Silent
<1> QED BY <1>1 DEF Steady, Shaped, Away, Plain, Silent

\* goes on with what it needs
LEMMA GoesOn ==
    ASSUME IInv, Plain, NEW a \in Able, GoOn(a), out' \in Seq(Letters),
           space' \in Nat, Needy(a) => space' >= 1
    PROVE  Steady
<1>1. scratch' \in Seq(Letters) BY TopIs DEF Plain
<1> QED BY <1>1 DEF Steady, Shaped, Onward, Plain

\* or is through.
LEMMA Returns ==
    ASSUME IInv, Plain, Return, out' \in Seq(Letters), space' \in Nat
    PROVE  Steady
<1>1. scratch' \in Seq(Letters) BY TopIs DEF Plain
<1> QED BY <1>1 DEF Steady, Shaped, Back, Return, Reserve, Plain

\* A fixed text, as much of it as fits.
LEMMA FixedGenSteady ==
    ASSUME IInv, Plain, NEW text \in Seq(Char), FixedGen(text)
    PROVE  Steady
<1>1. /\ phase = "generating" /\ space \in Nat /\ Top.value \in Values
      /\ Len(text) \in Nat
  BY TopIs DEF Plain
<1>2. CASE space >= Len(text)
  <2>1. Emit(text) /\ Return BY <1>2 DEF FixedGen
  <2>2. out' \in Seq(Letters) /\ space' \in Nat
    BY <1>1, <1>2, <2>1, CharsAreLetters, Written
  <2> QED BY <2>1, <2>2, Returns
<1>3. CASE space < Len(text)
  <2> DEFINE a == Fixed(Top.value, After(text, space))
  <2>1. Emit(First(text, space)) /\ Pause(a) BY <1>1, <1>3 DEF FixedGen
  <2>2. /\ First(text, space) \in Seq(Letters) /\ Len(First(text, space)) = space
        /\ After(text, space) \in Seq(Char)
    BY <1>1, <1>3, Split
  <2>3. out' \in Seq(Letters) /\ space' = 0 BY <1>1, <2>1, <2>2, Written
  <2>4. a \in Calm BY <1>1, <2>2, NewGens
  <2>5. scratch' \in Seq(Letters) BY TopIs DEF Plain
  <2> HIDE DEF a
  <2> QED BY <2>1, <2>3, <2>4, <2>5 DEF Steady, Shaped, Away, Plain
<1> QED BY <1>1, <1>2, <1>3

\* The initial frame.
LEMMA InitialSteady == IInv /\ Initial => Steady
<1> SUFFICES ASSUME IInv, Initial PROVE Steady OBVIOUS
<1>1. Plain /\ Silent /\ Top.fn = "initial"
  BY DEF Initial, Generating, Running, Plain
<1>2. /\ Top \in Calm /\ space \in Nat /\ Top.value \in Values
      /\ out' \in Seq(Letters) /\ scratch' \in Seq(Letters)
  BY <1>1, TopIs DEF Plain, Silent, Needy
<1>3. CASE space = 0
  <2>1. Reinstate(Top) BY <1>3 DEF Initial
  <2> QED BY <1>1, <1>2, <1>3, <2>1 DEF Steady, Shaped, Again, Plain, Silent
<1>4. CASE space # 0
  <2>1. GoOn(Generate(Top.value)) BY <1>4 DEF Initial
  <2>2. Generate(Top.value) \in Able
    <3>1. <<>> \in Seq(Char) OBVIOUS
    <3> QED BY <1>2, <3>1, NewGens
  <2>3. space' \in Nat /\ space' >= 1 BY <1>1, <1>2, <1>4 DEF Silent
  <2> QED BY <1>1, <1>2, <2>1, <2>2, <2>3, GoesOn
<1> QED BY <1>3, <1>4

\* Texts that are fixed and their rest.
LEMMA FixedSteady == IInv /\ (FixedValue \/ FixedResume) => Steady
<1> SUFFICES ASSUME IInv, FixedValue \/ FixedResume PROVE Steady OBVIOUS
<1>1. Plain BY DEF FixedValue, FixedResume, Generating, Running, Plain
<1>2. Of.chars \in Seq(Char) /\ Top.text \in Seq(Char)
  BY <1>1, TopIs, ShapeOf DEF Plain, Of
<1> QED BY <1>1, <1>2, FixedGenSteady DEF FixedValue, FixedResume

\* The opening quote of a string.
LEMMA StringSteady == IInv /\ StringGenerate => Steady
<1> SUFFICES ASSUME IInv, StringGenerate PROVE Steady OBVIOUS
<1>1. /\ Plain /\ Top.fn = "value" /\ Emit(<<"quote">>)
      /\ GoOn(Escape(Top.value, Of.chars))
  BY DEF StringGenerate, Generating, Running, Plain
<1>2. /\ Top.value \in Values /\ Of.chars \in Seq(Char) /\ space >= 1
  <2>1. Top.value \in Values /\ Needy(Top) BY <1>1, TopIs DEF Plain, Needy
  <2>2. space >= 1 BY <1>1, <2>1, TopIs DEF Plain
  <2> QED BY <2>1, <2>2, ShapeOf DEF Of
<1>3. Escape(Top.value, Of.chars) \in Calm /\ 0 \in Nat BY <1>2, NewGens
<1>4. "quote" \in Char BY DEF Char
<1>5. out' \in Seq(Letters) /\ space' \in Nat
  BY <1>1, <1>2, <1>4, WrittenOne DEF Plain
<1> QED BY <1>1, <1>3, <1>5, CalmIs, GoesOn

\* An escape sequence has at least one character behind its backslash.
LEMMA EscapedIs ==
    ASSUME NEW c \in Char
    PROVE  Escaped(c) \in Seq(Char) /\ Len(Escaped(c)) \in Nat
<1>1. {"u", "0", "1"} \subseteq Char BY DEF Char
<1>2. CASE c = "ctrl" BY <1>1, <1>2 DEF Escaped
<1>3. CASE c # "ctrl"
  <2>1. Escaped(c) = <<c>> BY <1>3 DEF Escaped
  <2> QED BY <2>1
<1> QED BY <1>2, <1>3

\* eu_escape
LEMMA EuEscapeSteady == IInv /\ EuEscape => Steady
<1> SUFFICES ASSUME IInv, EuEscape PROVE Steady OBVIOUS
<1>1. Plain /\ Top.fn = "escape" /\ phase = "generating"
  BY DEF EuEscape, Generating, Running, Plain
<1>2. /\ Top \in Calm /\ ~Needy(Top) /\ Top \in Gens /\ space \in Nat
      /\ Top.text \in Seq(Char) /\ Top.value \in Values
      /\ scratch' \in Seq(Letters)
  BY <1>1, TopIs DEF Needy, Plain
<1>3. CASE space = 0 /\ Pause(Top) /\ Silent BY <1>1, <1>2, <1>3, PausesFull
<1>4. CASE space # 0 /\ Emit(<<"quote">>) /\ Return
  <2>1. "quote" \in Char BY DEF Char
  <2>2. out' \in Seq(Letters) /\ space' \in Nat
    BY <1>1, <1>2, <1>4, <2>1, WrittenOne
  <2> QED BY <1>1, <1>4, <2>2, Returns
<1>5. CASE Top.text # <<>> /\ EscapeChar
  <2> DEFINE c == Head(Top.text)
             rest == [Top EXCEPT !.text = Tail(@)]
             e == Escaped(c)
             n == space - 1
  <2>1. c \in Char /\ Tail(Top.text) \in Seq(Char) BY <1>2, <1>5, HeadTail
  <2>2. e \in Seq(Char) /\ Len(e) \in Nat BY <2>1, EscapedIs
  <2>3. rest \in Gens /\ rest.fn = "escape" BY <1>1, <1>2, <2>1 DEF Gens
  <2>4. rest \in Calm BY <2>3 DEF Calm, Able, Needy, Placed
  <2>5. CASE space > 0 /\ Emit(<<c>>) /\ GoOn(rest)
    <3>1. out' \in Seq(Letters) /\ space' \in Nat
      BY <1>1, <1>2, <2>1, <2>5, WrittenOne
    <3> HIDE DEF c, rest
    <3> QED BY <1>1, <2>4, <2>5, <3>1, CalmIs, GoesOn
  <2>6. CASE space > Len(e) /\ Emit(<<"bs">> \o e) /\ GoOn(rest)
    <3> HIDE DEF e, rest
    <3>1. <<"bs">> \o e \in Seq(Letters) /\ Len(<<"bs">> \o e) = Len(e) + 1
      BY <2>2, Backslashed
    <3>2. out' \in Seq(Letters) /\ space' \in Nat
      <4>1. space' = space - Len(<<"bs">> \o e) /\ out' \in Seq(Letters)
        BY <1>1, <2>6, <3>1, Written
      <4>2. space > Len(e) BY <2>6
      <4> QED BY <1>2, <2>2, <3>1, <4>1, <4>2
    <3> QED BY <1>1, <2>4, <2>6, <3>2, CalmIs, GoesOn
  <2>7. CASE /\ space \in 1 .. Len(e)
             /\ Emit(<<"bs">> \o First(e, n))
             /\ Pause([rest EXCEPT !.fn = "escaping", !.buf = After(e, n)])
    <3> DEFINE a == [rest EXCEPT !.fn = "escaping", !.buf = After(e, n)]
    <3>1. n \in Nat /\ n <= Len(e) BY <1>2, <2>2, <2>7
    <3>2. /\ First(e, n) \in Seq(Char) /\ Len(First(e, n)) = n
          /\ After(e, n) \in Seq(Char)
      <4> HIDE DEF e, n
      <4> QED BY <2>2, <3>1, FirstAfter
    <3>3. a \in Gens /\ a.fn = "escaping"
      <4> HIDE DEF rest, e, n
      <4> QED BY <2>3, <3>2 DEF Gens, Fns
    <3>4. a \in Calm
      <4> HIDE DEF a
      <4> QED BY <3>3 DEF Calm, Able, Needy, Placed
    <3>5. /\ <<"bs">> \o First(e, n) \in Seq(Letters)
          /\ Len(<<"bs">> \o First(e, n)) = n + 1
      <4> HIDE DEF e, n
      <4> HIDE DEF First
      <4> QED BY <3>2, Backslashed
    <3>6. out' \in Seq(Letters) /\ space' = 0
      <4>1. /\ space' = space - Len(<<"bs">> \o First(e, n))
            /\ out' \in Seq(Letters)
        <5> HIDE DEF e, n
        <5> QED BY <1>1, <2>7, <3>5, Written
      <4> QED BY <1>2, <3>5, <4>1
    <3> HIDE DEF a, rest, e, n
    <3> QED BY <1>1, <1>2, <2>7, <3>4, <3>6 DEF Steady, Shaped, Away, Plain, a
  <2> QED BY <1>3, <1>5, <2>5, <2>6, <2>7 DEF EscapeChar
<1> QED BY <1>3, <1>4, <1>5 DEF EuEscape, EscapeEnd

\* The rest of an escape sequence.
LEMMA EscapingSteady == IInv /\ EscapingResume => Steady
<1> SUFFICES ASSUME IInv, EscapingResume PROVE Steady OBVIOUS
<1>1. Plain /\ Top.fn = "escaping" /\ phase = "generating"
  BY DEF EscapingResume, Generating, Running, Plain
<1>2. /\ Top \in Gens /\ space \in Nat /\ Top.buf \in Seq(Char)
      /\ Top.text \in Seq(Char) /\ Top.value \in Values
      /\ Len(Top.buf) \in Nat /\ scratch' \in Seq(Letters)
  BY <1>1, TopIs DEF Plain
<1>3. CASE space >= Len(Top.buf)
  <2>1. Emit(Top.buf) /\ GoOn(Escape(Top.value, Top.text))
    BY <1>3 DEF EscapingResume
  <2>2. out' \in Seq(Letters) /\ space' \in Nat
    BY <1>1, <1>2, <1>3, <2>1, CharsAreLetters, Written
  <2>3. 0 \in Nat /\ Escape(Top.value, Top.text) \in Calm BY <1>2, NewGens
  <2> QED BY <1>1, <2>1, <2>2, <2>3, CalmIs, GoesOn
<1>4. CASE space < Len(Top.buf)
  <2> DEFINE a == [Top EXCEPT !.buf = After(@, space)]
  <2>1. Emit(First(Top.buf, space)) /\ Reinstate(a)
    BY <1>2, <1>4 DEF EscapingResume
  <2>2. /\ First(Top.buf, space) \in Seq(Letters)
        /\ Len(First(Top.buf, space)) = space
        /\ After(Top.buf, space) \in Seq(Char)
    BY <1>2, <1>4, Split
  <2>3. out' \in Seq(Letters) /\ space' = 0 BY <1>1, <1>2, <2>1, <2>2, Written
  <2>4. a \in Gens /\ a.fn = "escaping" BY <1>1, <1>2, <2>2 DEF Gens
  <2> HIDE DEF a
  <2>5. a \in Calm BY <2>4 DEF Calm, Able, Needy, Placed
  <2> QED BY <1>1, <1>2, <2>1, <2>3, <2>5 DEF Steady, Shaped, Again, Plain
<1> QED BY <1>2, <1>3, <1>4

\* The unused bytes of the scratch area.
LEMMA JunkIs == ASSUME NEW n \in Nat PROVE Junk(n) \in Seq(Letters)
BY DEF Junk, Letters

\* Text that is written behind a sign, as far as it fits.
LEMMA OutputScratchSteady ==
    ASSUME IInv, phase = "generating", UNCHANGED <<root, fromNew>>,
           NEW sign \in Seq(Char), NEW pos \in Nat, NEW text \in Seq(Char),
           Len(sign) <= space, OutputScratch(sign, pos, text)
    PROVE  Steady
<1> DEFINE n == space - Len(sign)
<1>1. /\ n \in Nat /\ space \in Nat /\ Len(text) \in Nat /\ Len(sign) \in Nat
      /\ scratch \in Seq(Letters) /\ Top.value \in Values
  BY TopIs
<1>2. CASE n >= Len(text)
  <2>1. /\ Emit(sign \o text) /\ Leave /\ Reserve /\ UNCHANGED scratch
    BY <1>2 DEF OutputScratch
  <2>2. /\ sign \o text \in Seq(Letters)
        /\ Len(sign \o text) = Len(sign) + Len(text)
    BY CharsAreLetters
  <2>3. out' \in Seq(Letters) /\ space' = space - Len(sign \o text)
    BY <2>1, <2>2, Written
  <2>4. space' \in Nat BY <1>1, <1>2, <2>2, <2>3
  <2> QED BY <1>1, <2>1, <2>3, <2>4 DEF Steady, Shaped, Back
<1>3. CASE n < Len(text)
  <2> DEFINE a == [Gen("number", Top.value, "TEXT") EXCEPT !.pos = pos + n]
  <2> HIDE DEF n
  <2>1. /\ Emit(sign \o First(text, n)) /\ Pause(a)
        /\ scratch' = Junk(pos) \o text
    BY <1>1, <1>3 DEF OutputScratch, n
  <2>2. /\ First(text, n) \in Seq(Char) /\ Len(First(text, n)) = n
    <3>1. n <= Len(text) BY <1>1, <1>3
    <3> QED BY <1>1, <3>1, FirstAfter
  <2>3. /\ sign \o First(text, n) \in Seq(Letters)
        /\ Len(sign \o First(text, n)) = Len(sign) + n
    <3> HIDE DEF First
    <3> QED BY <2>2, CharsAreLetters
  <2>4. out' \in Seq(Letters) /\ space' = space - Len(sign \o First(text, n))
    BY <2>1, <2>3, Written
  <2>5. space' = 0 BY <1>1, <2>3, <2>4 DEF n
  <2>6. scratch' \in Seq(Letters) BY <2>1, JunkIs, CharsAreLetters
  <2>7. a \in Calm
    <3>1. pos + n \in Nat BY <1>1
    <3>2. <<>> \in Seq(Char) OBVIOUS
    <3> QED BY <1>1, <3>1, <3>2, NewGens
  <2> HIDE DEF a
  <2> QED BY <2>1, <2>4, <2>5, <2>6, <2>7 DEF Steady, Shaped, Away
<1> QED BY <1>1, <1>2, <1>3

\* Integers
LEMMA IntegerSteady == IInv /\ IntegerGenerate => Steady
<1> SUFFICES ASSUME IInv, IntegerGenerate PROVE Steady OBVIOUS
<1>1. /\ phase = "generating" /\ UNCHANGED <<root, fromNew>>
      /\ Top.fn = "value" /\ Of.kind = "integer"
  BY DEF IntegerGenerate, Running
<1>2. Top.value \in Values /\ space \in Nat /\ space >= 1
  <2>1. Needy(Top) BY <1>1 DEF Needy
  <2> QED BY <1>1, <2>1, TopIs
<1>3. Of.chars \in Seq(Char) /\ Len(Of.chars) \in 1 .. IntegerRoom
  BY <1>1, <1>2, ShapeOf, RoomAssumption DEF Of
<1>4. CASE Of.chars = <<"0">>
  <2>1. Emit(<<"0">>) /\ Return /\ UNCHANGED scratch
    BY <1>4 DEF IntegerGenerate
  <2>2. "0" \in Char BY DEF Char
  <2>3. out' \in Seq(Letters) /\ space' \in Nat
    BY <1>1, <1>2, <2>1, <2>2, WrittenOne
  <2> QED BY <1>1, <2>1, <2>3, Returns DEF Plain
<1>5. CASE Of.chars # <<"0">>
  <2> DEFINE sign == IF Of.negative THEN <<"-">> ELSE <<>>
             pos == IntegerRoom - Len(Of.chars)
  <2>1. OutputScratch(sign, pos, Of.chars) BY <1>5 DEF IntegerGenerate
  <2>2. sign \in Seq(Char) /\ Len(sign) <= 1
    <3>1. "-" \in Char BY DEF Char
    <3> QED BY <3>1
  <2>3. pos \in Nat BY <1>3, RoomAssumption
  <2>4. Len(sign) <= space BY <1>2, <2>2
  <2> HIDE DEF sign, pos
  <2> QED BY <1>1, <1>3, <2>1, <2>2, <2>3, <2>4, OutputScratchSteady
<1> QED BY <1>4, <1>5

\* and numbers that are none.
LEMMA NumberSteady == IInv /\ NumberGenerate => Steady
<1> SUFFICES ASSUME IInv, NumberGenerate PROVE Steady OBVIOUS
<1>1. /\ phase = "generating" /\ UNCHANGED <<root, fromNew>>
      /\ Top.fn = "value"
  BY DEF NumberGenerate, Running
<1>2. /\ Top.value \in Values /\ space \in Nat
      /\ out \in Seq(Letters) /\ scratch \in Seq(Letters)
  BY <1>1, TopIs
<1>3. Of.chars \in Seq(Char) BY <1>2, ShapeOf DEF Of
<1>4. CASE Fail /\ Silent /\ UNCHANGED scratch
  BY <1>1, <1>2, <1>4 DEF Steady, Shaped, Over, Silent
<1>5. CASE /\ Of.kind = "double" /\ space >= DoubleRoom
           /\ Emit(Of.chars) /\ Return /\ UNCHANGED scratch
  <2>1. Len(Of.chars) \in 1 .. DoubleRoom - 1 /\ DoubleRoom \in Nat
    BY <1>2, <1>5, RoomAssumption DEF Of
  <2>2. Len(Of.chars) <= space BY <1>2, <1>5, <2>1
  <2>3. out' \in Seq(Letters) /\ space' \in Nat
    BY <1>1, <1>3, <1>5, <2>2, CharsAreLetters, Written
  <2> QED BY <1>1, <1>5, <2>3, Returns DEF Plain
<1>6. CASE OutputScratch(<<>>, 0, Of.chars)
  <2>1. <<>> \in Seq(Char) /\ 0 \in Nat /\ Len(<<>>) <= space BY <1>2
  <2> QED BY <1>1, <1>3, <1>6, <2>1, OutputScratchSteady
<1> QED BY <1>4, <1>5, <1>6 DEF NumberGenerate

\* The rest of a number's text.
LEMMA NumberResumeSteady == IInv /\ NumberResume => Steady
<1> SUFFICES ASSUME IInv, NumberResume PROVE Steady OBVIOUS
<1> DEFINE text == After(scratch, Top.pos)
<1>1. /\ phase = "generating" /\ UNCHANGED <<root, fromNew>>
      /\ Top.fn = "number"
  BY DEF NumberResume, Running
<1>2. /\ Top \in Calm /\ space \in Nat /\ Top.pos \in Nat
      /\ scratch \in Seq(Letters)
  BY <1>1, TopIs DEF Needy
<1>3. text \in Seq(Letters) /\ Len(text) \in Nat
  <2>1. text \in Seq(Letters) BY <1>2, FirstAfter
  <2> HIDE DEF text
  <2> QED BY <2>1
<1>4. CASE space >= Len(text)
  <2>1. Emit(text) /\ Return /\ scratch' = <<>> BY <1>4 DEF NumberResume
  <2> HIDE DEF text
  <2>2. out' \in Seq(Letters) /\ space' \in Nat
    BY <1>1, <1>3, <1>4, <2>1, Written
  <2>3. scratch' \in Seq(Letters) BY <2>1
  <2> QED BY <1>1, <2>1, <2>2, <2>3 DEF Steady, Shaped, Back, Return, Reserve
<1>5. CASE space < Len(text)
  <2> DEFINE a == [Top EXCEPT !.pos = @ + space]
  <2>1. Emit(First(text, space)) /\ UNCHANGED scratch /\ Reinstate(a)
    BY <1>2, <1>3, <1>5 DEF NumberResume
  <2>2. a \in Calm
    <3>1. Top.pos + space \in Nat BY <1>2
    <3> QED BY <1>1, <1>2, <3>1, PosKept
  <2> HIDE DEF text, a
  <2>3. First(text, space) \in Seq(Letters) /\ Len(First(text, space)) = space
    <3>1. space <= Len(text) BY <1>2, <1>3, <1>5
    <3> QED BY <1>2, <1>3, <3>1, FirstAfter
  <2>4. out' \in Seq(Letters) /\ space' = 0
    <3>1. out' \in Seq(Letters) /\ space' = space - Len(First(text, space))
      BY <1>1, <2>1, <2>3, Written
    <3> QED BY <1>2, <2>3, <3>1
  <2> QED BY <1>1, <1>2, <2>1, <2>2, <2>4 DEF Steady, Shaped, Again
<1> QED BY <1>2, <1>3, <1>4, <1>5

\* A generator that calls another.
LEMMA CallsOn ==
    ASSUME IInv, Plain, NEW a \in Calm, NEW b \in Able, Call(a, b),
           out' \in Seq(Letters), space' \in Nat, Needy(b) => space' >= 1
    PROVE  Steady
<1>1. scratch' \in Seq(Letters) BY TopIs DEF Plain
<1> QED BY <1>1 DEF Steady, Shaped, Inward, Plain

\* The buffer is as it was.
LEMMA Unwritten ==
    ASSUME IInv, phase = "generating", Silent
    PROVE  out' \in Seq(Letters) /\ space' \in Nat /\ space' = space
BY TopIs DEF Silent

\* The generator of an array that has elements.
LEMMA NewArray ==
    ASSUME NEW v \in Values, Shape[v].items # <<>>
    PROVE  Gen("array", v, "COMMA") \in Calm
<1> DEFINE a == Gen("array", v, "COMMA")
<1>1. <<>> \in Seq(Char) OBVIOUS
<1>2. a \in Gens BY <1>1 DEF Gen, Gens, States, Fns
<1>3. a.fn = "array" /\ a.value = v /\ a.i = 1 BY DEF Gen
<1>4. Len(Shape[v].items) \in Nat \ {0} BY ShapeOf
<1> HIDE DEF a
<1>5. Placed(a) /\ ~Needy(a) BY <1>3, <1>4 DEF Placed, Needy
<1>6. a \in Calm BY <1>2, <1>5 DEF Calm, Able
<1> QED BY <1>6 DEF a

\* array_generate
LEMMA ArrayGenerateSteady == IInv /\ ArrayGenerate => Steady
<1> SUFFICES ASSUME IInv, ArrayGenerate PROVE Steady OBVIOUS
<1>1. Plain /\ Top.fn = "value" /\ phase = "generating"
  BY DEF ArrayGenerate, Generating, Running, Plain
<1>2. Top.value \in Values /\ space >= 1
  <2>1. Needy(Top) BY <1>1 DEF Needy
  <2> QED BY <1>1, <2>1, TopIs
<1>3. {"[", "]"} \subseteq Char BY DEF Char
<1>4. CASE Of.items = <<>>
  <2>1. <<"[", "]">> \in Seq(Char) BY <1>3
  <2> QED BY <1>1, <1>4, <2>1, FixedGenSteady DEF ArrayGenerate
<1>5. CASE Of.items # <<>>
  <2>1. Emit(<<"[">>) /\ GoOn(Gen("array", Top.value, "COMMA"))
    BY <1>5 DEF ArrayGenerate
  <2>2. Gen("array", Top.value, "COMMA") \in Calm
    BY <1>2, <1>5, NewArray DEF Of
  <2>3. out' \in Seq(Letters) /\ space' \in Nat
    BY <1>1, <1>2, <1>3, <2>1, WrittenOne
  <2> QED BY <1>1, <2>1, <2>2, <2>3, CalmIs, GoesOn
<1> QED BY <1>4, <1>5

\* A generator in another state,
LEMMA AtIs ==
    ASSUME Top \in Gens, NEW s \in States
    PROVE  /\ At(s) \in Gens /\ At(s).fn = Top.fn /\ At(s).value = Top.value
           /\ At(s).i = Top.i /\ At(s).part = Top.part
           /\ At(s).ahead = Top.ahead /\ At(s).state = s
BY DEF At, Gens

\* at another entry
LEMMA IndexIs ==
    ASSUME NEW a \in Gens, NEW n \in Nat
    PROVE  LET b == [a EXCEPT !.i = n]
           IN  /\ b \in Gens /\ b.fn = a.fn /\ b.value = a.value /\ b.i = n
               /\ b.part = a.part /\ b.state = a.state
               /\ b.ahead = a.ahead
BY DEF Gens

\* and with another prefix.
LEMMA PrefixIs ==
    ASSUME NEW a \in Gens, NEW c \in {"{", ","}
    PROVE  LET b == [a EXCEPT !.prefix = c]
           IN  /\ b \in Gens /\ b.fn = a.fn /\ b.value = a.value /\ b.i = a.i
               /\ b.part = a.part /\ b.state = a.state
               /\ b.ahead = a.ahead
BY DEF Gens

\* The element that an array has come to.
LEMMA ElementIs ==
    ASSUME IInv, phase = "generating", Top.fn = "array"
    PROVE  /\ Top.i \in 1 .. Len(Of.items) /\ Len(Of.items) \in Nat
           /\ Of.items[Top.i].value \in Values
<1>1. Top.value \in Values /\ Placed(Top) BY TopIs
<1>2. Of.items \in Seq(Item) BY <1>1, ShapeOf DEF Of
<1>3. Top.i \in 1 .. Len(Of.items) BY <1>1 DEF Placed, Of
<1>4. Of.items[Top.i] \in Item BY <1>2, <1>3
<1> QED BY <1>2, <1>3, <1>4 DEF Item

\* An array before an element
LEMMA ArrayCommaSteady == IInv /\ ArrayComma => Steady
<1> SUFFICES ASSUME IInv, ArrayComma PROVE Steady OBVIOUS
<1> DEFINE a == At("ELEMENT")
<1>1. Plain /\ Top.fn = "array" /\ phase = "generating" /\ Silent
  BY DEF ArrayComma, Generating, Running, Plain
<1>2. Top \in Gens /\ space \in Nat /\ ~Needy(Top) BY <1>1, TopIs DEF Needy
<1>3. CASE space = 0 BY <1>1, <1>2, <1>3, PausesFull DEF ArrayComma
<1>4. CASE space # 0
  <2>1. Call(a, Generate(Of.items[Top.i].value)) BY <1>4 DEF ArrayComma
  <2>2. /\ a \in Gens /\ a.fn = "array"
        /\ a.value = Top.value /\ a.i = Top.i
    BY <1>1, <1>2, AtIs DEF States
  <2> HIDE DEF a
  <2>3. a \in Calm
    <3>1. Placed(a) BY <1>1, <2>2, ElementIs DEF Placed, Of
    <3> QED BY <2>2, <3>1 DEF Calm, Able, Needy
  <2>4. Generate(Of.items[Top.i].value) \in Able
    <3>1. <<>> \in Seq(Char) /\ 0 \in Nat OBVIOUS
    <3> QED BY <1>1, <3>1, ElementIs, NewGens
  <2>5. out' \in Seq(Letters) /\ space' \in Nat /\ space' >= 1
    BY <1>1, <1>2, <1>4, Unwritten
  <2> QED BY <1>1, <2>1, <2>3, <2>4, <2>5, CallsOn
<1> QED BY <1>3, <1>4

\* and behind it.
LEMMA ArrayElementSteady == IInv /\ ArrayElement => Steady
<1> SUFFICES ASSUME IInv, ArrayElement PROVE Steady OBVIOUS
<1>1. Plain /\ Top.fn = "array" /\ phase = "generating"
  BY DEF ArrayElement, Generating, Running, Plain
<1>2. Top \in Gens /\ space \in Nat /\ ~Needy(Top) BY <1>1, TopIs DEF Needy
<1>3. {",", "]"} \subseteq Char BY DEF Char
<1>4. CASE space = 0 /\ Pause(Top) /\ Silent
  BY <1>1, <1>2, <1>4, PausesFull
<1> DEFINE b == At("COMMA")
           a == [b EXCEPT !.i = b.i + 1]
<1>5. CASE /\ space > 0 /\ Top.i < Len(Of.items) /\ Emit(<<",">>)
           /\ GoOn(a)
  <2>1. space > 0 /\ Top.i < Len(Of.items) BY <1>5
  <2>2. /\ b \in Gens /\ b.fn = "array"
        /\ b.value = Top.value /\ b.i = Top.i
    BY <1>1, <1>2, AtIs DEF States
  <2>3. Top.i \in 1 .. Len(Of.items) /\ Len(Of.items) \in Nat
    BY <1>1, ElementIs
  <2> HIDE DEF b
  <2>4. a \in Gens /\ a.fn = "array" /\ a.value = Top.value /\ a.i = Top.i + 1
    <3>1. b.i + 1 \in Nat BY <2>2, <2>3
    <3> QED BY <2>2, <3>1, IndexIs
  <2> HIDE DEF a
  <2>5. a \in Calm
    <3>1. Top.i + 1 \in 1 .. Len(Of.items) BY <2>3, <2>1
    <3>2. Placed(a) BY <2>4, <3>1 DEF Placed, Of
    <3> QED BY <2>4, <3>2 DEF Calm, Able, Needy
  <2>6. out' \in Seq(Letters) /\ space' \in Nat
    <3>1. space >= 1 BY <1>2, <2>1
    <3> QED BY <1>1, <1>3, <1>5, <3>1, WrittenOne
  <2> QED BY <1>1, <1>5, <2>5, <2>6, CalmIs, GoesOn
<1>6. CASE space > 0 /\ Emit(<<"]">>) /\ Return
  <2>1. space >= 1 BY <1>2, <1>6
  <2>2. out' \in Seq(Letters) /\ space' \in Nat
    BY <1>1, <1>3, <1>6, <2>1, WrittenOne
  <2> QED BY <1>1, <1>6, <2>2, Returns
<1> QED BY <1>4, <1>5, <1>6 DEF ArrayElement

\* The generator of a struct
LEMMA NewStruct ==
    ASSUME NEW v \in Values
    PROVE  Gen("struct", v, "LOOP") \in Able
<1> DEFINE a == Gen("struct", v, "LOOP")
<1>1. <<>> \in Seq(Char) OBVIOUS
<1>2. a \in Gens BY <1>1 DEF Gen, Gens, States, Fns
<1>3. a.fn = "struct" /\ a.i = 1 /\ a.ahead = 0 /\ a.state = "LOOP" BY DEF Gen
<1> HIDE DEF a
<1>4. Placed(a) BY <1>3 DEF Placed
<1>5. a \in Able BY <1>2, <1>4 DEF Able
<1> QED BY <1>5 DEF a

\* and what is able in one.
LEMMA InStruct ==
    ASSUME NEW a \in Gens, a.fn = "struct", a.i >= 1, a.ahead >= 0,
           a.state # "LOOP" => a.i <= Len(EntriesOf(a)),
           a.state \notin {"LOOP", "PREFIX"} => IndexOf(a) <= Len(EntriesOf(a))
    PROVE  a \in Able /\ (a.state # "LOOP" => a \in Calm)
<1>1. Placed(a) BY DEF Placed
<1>2. a.state # "LOOP" => ~Needy(a) BY DEF Needy
<1> QED BY <1>1, <1>2 DEF Able, Calm

\* inline_struct_generate
LEMMA StructGenerateSteady == IInv /\ StructGenerate => Steady
<1> SUFFICES ASSUME IInv, StructGenerate PROVE Steady OBVIOUS
<1>1. /\ Plain /\ Top.fn = "value" /\ phase = "generating" /\ Silent
      /\ GoOn(Gen("struct", Top.value, "LOOP"))
  BY DEF StructGenerate, Generating, Running, Plain
<1>2. Top.value \in Values /\ space >= 1
  <2>1. Needy(Top) BY <1>1 DEF Needy
  <2> QED BY <1>1, <2>1, TopIs
<1>3. out' \in Seq(Letters) /\ space' \in Nat /\ space' >= 1
  BY <1>1, <1>2, Unwritten
<1>4. Gen("struct", Top.value, "LOOP") \in Able BY <1>2, NewStruct
<1> QED BY <1>1, <1>3, <1>4, GoesOn

\* The members and the extras of a struct, and the one it has come to.
LEMMA EntriesAre ==
    ASSUME IInv, phase = "generating", Top.fn = "struct"
    PROVE  /\ Entries = EntriesOf(Top) /\ Entries \in Seq(Item)
           /\ Len(Entries) \in Nat /\ Top.i >= 1 /\ Top.i \in Nat
           /\ Top.ahead >= 0 /\ Top.ahead \in Int
           /\ Top.state # "LOOP" => Top.i <= Len(Entries)
           /\ Top.state \notin {"LOOP", "PREFIX"} => Index <= Len(Entries)
           /\ Index = IndexOf(Top) /\ Index \in Nat
           /\ Index <= Len(Entries) => /\ Entry.name \in Seq(Char)
                                       /\ Entry.value \in Values
<1>1. /\ Top.value \in Values /\ Placed(Top) /\ Top.i \in Nat
      /\ Top.ahead \in Int
  BY TopIs
<1>2. Entries = EntriesOf(Top) /\ Entries \in Seq(Item)
  BY <1>1, ShapeOf DEF Entries, EntriesOf, Of
<1>3. Index = IndexOf(Top) BY DEF Index, IndexOf
<1>4. /\ Top.i >= 1 /\ Top.ahead >= 0
      /\ Top.state # "LOOP" => Top.i <= Len(Entries)
      /\ Top.state \notin {"LOOP", "PREFIX"} => Index <= Len(Entries)
  BY <1>1, <1>2, <1>3 DEF Placed
<1>5. Index \in Nat /\ Index >= 1 BY <1>1, <1>4 DEF Index
<1>6. ASSUME Index <= Len(Entries)
      PROVE  Entry.name \in Seq(Char) /\ Entry.value \in Values
  <2>1. Entries[Index] \in Item BY <1>2, <1>5, <1>6
  <2> QED BY <2>1 DEF Entry, Item
<1>7. Len(Entries) \in Nat BY <1>2
<1> QED BY <1>1, <1>2, <1>3, <1>4, <1>5, <1>6, <1>7

\* Between two entries
LEMMA StructLoopSteady == IInv /\ StructLoop => Steady
<1> SUFFICES ASSUME IInv, StructLoop PROVE Steady OBVIOUS
<1> DEFINE b == At("PREFIX")
           next == [b EXCEPT !.prefix = ","]
           skip == [Top EXCEPT !.i = @ + 1]
           extras == [Top EXCEPT !.part = "EXTRAS", !.i = 1]
<1>1. Plain /\ Top.fn = "struct" /\ phase = "generating" /\ Top.state = "LOOP"
  BY DEF StructLoop, Generating, Running, Plain
<1>2. Top \in Gens /\ space >= 1 /\ Top.prefix \in {"{", ","}
  <2>1. Needy(Top) BY <1>1 DEF Needy
  <2> QED BY <1>1, <2>1, TopIs DEF Gens
<1>3. {"{", "}", ","} \subseteq Char BY DEF Char
<1>4. /\ Entries = EntriesOf(Top) /\ Len(Entries) \in Nat
      /\ Top.i >= 1 /\ Top.i \in Nat /\ Top.ahead >= 0 /\ Top.ahead \in Int
  BY <1>1, EntriesAre
<1>5. CASE Top.i <= Len(Entries) /\ Emit(<<Top.prefix>>) /\ GoOn(next)
  <2>1. /\ b \in Gens /\ b.fn = "struct" /\ b.value = Top.value
        /\ b.i = Top.i /\ b.part = Top.part /\ b.state = "PREFIX"
        /\ b.ahead = Top.ahead
    BY <1>1, <1>2, AtIs DEF States
  <2> HIDE DEF b
  <2>2. /\ next \in Gens /\ next.fn = "struct" /\ next.value = Top.value
        /\ next.i = Top.i /\ next.part = Top.part /\ next.state = "PREFIX"
        /\ next.ahead = Top.ahead
    BY <2>1, PrefixIs
  <2> HIDE DEF next
  <2>3. Top.i <= Len(Entries) BY <1>5
  <2>4. EntriesOf(next) = Entries BY <1>4, <2>2 DEF EntriesOf
  <2>5. next \in Calm BY <1>4, <2>2, <2>3, <2>4, InStruct
  <2>6. out' \in Seq(Letters) /\ space' \in Nat
    BY <1>1, <1>2, <1>3, <1>5, WrittenOne
  <2> QED BY <1>1, <1>5, <2>5, <2>6, CalmIs, GoesOn
<1>6. CASE Silent /\ GoOn(skip)
  <2>1. Top.i + 1 \in Nat /\ Top.i + 1 >= 1 BY <1>4
  <2>2. /\ skip \in Gens /\ skip.fn = "struct" /\ skip.i = Top.i + 1
        /\ skip.state = "LOOP" /\ skip.ahead = Top.ahead
    BY <1>1, <1>2, <2>1, IndexIs
  <2> HIDE DEF skip
  <2>3. skip \in Able BY <1>4, <2>1, <2>2, InStruct
  <2>4. out' \in Seq(Letters) /\ space' \in Nat /\ space' >= 1
    BY <1>1, <1>2, <1>6, Unwritten
  <2> QED BY <1>1, <1>6, <2>3, <2>4, GoesOn
<1>7. CASE Silent /\ GoOn(extras)
  <2>1. /\ extras \in Gens /\ extras.fn = "struct" /\ extras.i = 1
        /\ extras.state = "LOOP" /\ extras.ahead = Top.ahead
    BY <1>1, <1>2 DEF Gens
  <2> HIDE DEF extras
  <2>2. extras \in Able BY <1>4, <2>1, InStruct
  <2>3. out' \in Seq(Letters) /\ space' \in Nat /\ space' >= 1
    BY <1>1, <1>2, <1>7, Unwritten
  <2> QED BY <1>1, <1>7, <2>2, <2>3, GoesOn
<1>8. CASE FixedGen(<<"{", "}">>)
  <2>1. "{" \in Char /\ "}" \in Char BY DEF Char
  <2>2. <<"{", "}">> \in Seq(Char) BY <2>1, PairIs
  <2> QED BY <1>1, <1>8, <2>2, FixedGenSteady
<1>9. CASE Emit(<<"}">>) /\ Return
  <2>1. out' \in Seq(Letters) /\ space' \in Nat
    BY <1>1, <1>2, <1>3, <1>9, WrittenOne
  <2> QED BY <1>1, <1>9, <2>1, Returns
<1> QED BY <1>5, <1>6, <1>7, <1>8, <1>9 DEF StructLoop

\* The state that follows within an entry, one of the struct's.
LEMMA StillInStruct ==
    ASSUME IInv, phase = "generating", Top.fn = "struct", Top.state # "LOOP",
           Index <= Len(Entries), NEW s \in States \ {"LOOP"}
    PROVE  At(s) \in Calm
<1> DEFINE b == At(s)
<1>1. /\ Top \in Gens /\ Top.i >= 1 /\ Top.i <= Len(EntriesOf(Top))
      /\ Top.ahead >= 0 /\ IndexOf(Top) <= Len(EntriesOf(Top))
  BY TopIs, EntriesAre
<1>2. /\ b \in Gens /\ b.fn = "struct" /\ b.value = Top.value
      /\ b.i = Top.i /\ b.part = Top.part /\ b.state # "LOOP"
      /\ b.ahead = Top.ahead
  BY <1>1, AtIs
<1> HIDE DEF b
<1>3. EntriesOf(b) = EntriesOf(Top) /\ IndexOf(b) = IndexOf(Top)
  BY <1>2 DEF EntriesOf, IndexOf
<1>4. b \in Calm BY <1>1, <1>2, <1>3, InStruct
<1> QED BY <1>4 DEF b

\* and within one.
LEMMA InEntrySteady ==
    IInv /\ (StructPrefix \/ StructMemberName \/ StructColon) => Steady
<1> SUFFICES ASSUME IInv, StructPrefix \/ StructMemberName \/ StructColon
             PROVE  Steady
  OBVIOUS
<1>1. /\ Plain /\ Top.fn = "struct" /\ phase = "generating"
      /\ Top.state \in {"PREFIX", "MEMBER_NAME", "COLON"}
  BY DEF StructPrefix, StructMemberName, StructColon, Generating, Running,
         Plain
<1>2. /\ ~Needy(Top) /\ space \in Nat /\ Top.value \in Values
      /\ 0 \in Nat /\ <<>> \in Seq(Char)
  BY <1>1, TopIs DEF Needy
<1>3. ASSUME Index <= Len(Entries)
      PROVE  /\ Entry.name \in Seq(Char) /\ Entry.value \in Values
             /\ At("MEMBER_NAME") \in Calm /\ At("COLON") \in Calm
             /\ At("MEMBER_VALUE") \in Calm
  <2>1. Entry.name \in Seq(Char) /\ Entry.value \in Values
    BY <1>1, <1>3, EntriesAre
  <2>2. Top.state # "LOOP" BY <1>1
  <2> QED BY <1>1, <1>3, <2>1, <2>2, StillInStruct DEF States
<1>4. Top.state # "PREFIX" => Index <= Len(Entries) BY <1>1, EntriesAre
<1>5. "quote" \in Char /\ ":" \in Char BY DEF Char
<1>6. CASE space = 0 /\ Pause(Top) /\ Silent
  BY <1>1, <1>2, <1>6, PausesFull
<1>7. CASE /\ space > 0 /\ Index <= Len(Entries) /\ Emit(<<"quote">>)
           /\ Call(At("MEMBER_NAME"), Escape(Top.value, Entry.name))
  <2>1. /\ Escape(Top.value, Entry.name) \in Calm
        /\ At("MEMBER_NAME") \in Calm
    BY <1>2, <1>3, <1>7, NewGens
  <2>2. space >= 1 BY <1>2, <1>7
  <2>3. out' \in Seq(Letters) /\ space' \in Nat
    BY <1>1, <1>5, <1>7, <2>2, WrittenOne
  <2> QED BY <1>1, <1>7, <2>1, <2>3, CalmIs, CallsOn
<1>8. CASE /\ space > 0 /\ Top.state # "PREFIX" /\ Emit(<<":">>)
           /\ GoOn(At("COLON"))
  <2>1. space >= 1 BY <1>2, <1>8
  <2>2. out' \in Seq(Letters) /\ space' \in Nat
    BY <1>1, <1>5, <1>8, <2>1, WrittenOne
  <2>3. At("COLON") \in Calm BY <1>3, <1>4, <1>8
  <2> QED BY <1>1, <1>8, <2>2, <2>3, CalmIs, GoesOn
<1>9. CASE /\ space # 0 /\ Top.state # "PREFIX" /\ Silent
           /\ Call(At("MEMBER_VALUE"), Generate(Entry.value))
  <2>1. Generate(Entry.value) \in Able /\ At("MEMBER_VALUE") \in Calm
    BY <1>2, <1>3, <1>4, <1>9, NewGens
  <2>2. space >= 1 BY <1>2, <1>9
  <2>3. out' \in Seq(Letters) /\ space' \in Nat /\ space' >= 1
    BY <1>1, <1>9, <2>2, Unwritten
  <2> QED BY <1>1, <1>9, <2>1, <2>3, CallsOn
<1>10. CASE space > 0 /\ Emit(<<"quote">>) /\ Stray
  <2>1. space >= 1 BY <1>2, <1>10
  <2>2. out' \in Seq(Letters) /\ space' \in Nat
    BY <1>1, <1>5, <1>10, <2>1, WrittenOne
  <2>3. scratch' \in Seq(Letters) BY <1>1, TopIs DEF Plain
  <2> QED BY <1>1, <1>10, <2>2, <2>3 DEF Steady, Shaped, Over, Plain
<1>11. CASE StructPrefix BY <1>6, <1>7, <1>10, <1>11 DEF StructPrefix
<1>12. CASE StructMemberName
  BY <1>6, <1>8, <1>12 DEF StructMemberName, Generating, Running
<1>13. CASE StructColon
  BY <1>6, <1>9, <1>13 DEF StructColon, Generating, Running
<1> QED BY <1>11, <1>12, <1>13

\* Behind an entry.
LEMMA StructMemberValueSteady == IInv /\ StructMemberValue => Steady
<1> SUFFICES ASSUME IInv, StructMemberValue PROVE Steady OBVIOUS
<1> DEFINE b == At("LOOP")
           a == [b EXCEPT !.i = b.i + 1]
<1>1. Plain /\ Top.fn = "struct" /\ phase = "generating" /\ Silent
      /\ Top.state = "MEMBER_VALUE"
  BY DEF StructMemberValue, Generating, Running, Plain
<1>2. /\ ~Needy(Top) /\ space \in Nat /\ Top \in Gens /\ Top.i \in Nat
      /\ Top.ahead >= 0
  BY <1>1, TopIs, EntriesAre DEF Needy
<1>3. CASE space = 0 BY <1>1, <1>2, <1>3, PausesFull DEF StructMemberValue
<1>4. CASE space # 0
  <2>1. GoOn(a) BY <1>4 DEF StructMemberValue
  <2>2. /\ b \in Gens /\ b.fn = "struct" /\ b.i = Top.i /\ b.state = "LOOP"
        /\ b.ahead = Top.ahead
    BY <1>1, <1>2, AtIs DEF States
  <2> HIDE DEF b
  <2>3. b.i + 1 \in Nat /\ b.i + 1 >= 1 BY <1>2, <2>2
  <2>4. /\ a \in Gens /\ a.fn = "struct" /\ a.i = b.i + 1
        /\ a.state = "LOOP" /\ a.ahead = Top.ahead
    BY <2>2, <2>3, IndexIs
  <2> HIDE DEF a
  <2>5. a \in Able BY <1>2, <2>3, <2>4, InStruct
  <2>6. out' \in Seq(Letters) /\ space' \in Nat /\ space' >= 1
    BY <1>1, <1>2, <1>4, Unwritten
  <2> QED BY <1>1, <2>1, <2>5, <2>6, GoesOn
<1> QED BY <1>3, <1>4

\* Every generator's step is of one of the shapes.
LEMMA GeneratorsSteady == IInv /\ Generators => Steady
BY InitialSteady, FixedSteady, StringSteady, EuEscapeSteady, EscapingSteady,
   IntegerSteady, NumberSteady, NumberResumeSteady, ArrayGenerateSteady,
   ArrayCommaSteady, ArrayElementSteady, StructGenerateSteady,
   StructLoopSteady, InEntrySteady, StructMemberValueSteady
   DEF Generators, Struct

-----------------------------------------------------------------------------
(***************************************************************************)
(* The invariant holds.                                                    *)
(***************************************************************************)
\* At first there is the frame of initial_gen_resume.
LEMMA InitIInv == Init => IInv
<1> SUFFICES ASSUME Init PROVE IInv OBVIOUS
<1>1. /\ root \in Values /\ base = <<Gen("initial", root, "START")>>
      /\ calls = <<>> /\ fresh = <<>> /\ fromNew = FALSE
      /\ space = 0 /\ scratch = <<>> /\ out = <<>> /\ phase = "idle"
  BY DEF Init
<1>2. Gen("initial", root, "START") \in Calm BY <1>1, NewAble DEF Fns
<1>3. base \in Seq(Calm) /\ fresh \in Seq(Calm)
  <2> HIDE DEF Gen
  <2> QED BY <1>1, <1>2
<1>4. base \in Seq(Gens) /\ fresh \in Seq(Gens) BY <1>3, CalmIsAble
<1>5. TypeOK
  <2>1. calls \in Seq(Gens) /\ scratch \in Seq(Letters) /\ out \in Seq(Letters)
    BY <1>1
  <2>2. phase \in Phases /\ fromNew \in BOOLEAN BY <1>1 DEF Phases
  <2>3. space \in Int BY <1>1
  <2>4. calls = <<>> /\ phase \notin {"generating", "pausing"} BY <1>1
  <2> QED BY <1>1, <1>4, <2>1, <2>2, <2>3, <2>4 DEF TypeOK, Letters
<1>6. OutputInBuffer /\ FillsBuffer BY <1>1 DEF OutputInBuffer, FillsBuffer
<1> QED BY <1>1, <1>3, <1>5, <1>6 DEF IInv

\* What holds between the steps of generators.
LEMMA Between ==
    ASSUME IInv
    PROVE  /\ root \in Values /\ fromNew \in BOOLEAN /\ space \in Nat
           /\ out \in Seq(Letters) /\ scratch \in Seq(Letters)
           /\ fresh \in Seq(Calm) /\ base \in Seq(Calm)
           /\ calls # <<>> <=> phase \in {"generating", "pausing"}
BY DEF IInv, TypeOK, OutputInBuffer, Letters

\* A frame is calm when its generator is resumed.
LEMMA RestoredCalm == ASSUME NEW f \in Calm PROVE Restored(f) \in Calm
<1>1. f \in Gens /\ Placed(f) /\ ~Needy(f) BY DEF Calm, Able
<1>2. CASE f.fn # "struct"
  <2>1. Restored(f) = f BY <1>2 DEF Restored
  <2> QED BY <2>1
<1>3. CASE f.fn = "struct"
  <2> DEFINE n == IF f.part = "MEMBERS" THEN f.i - 1 ELSE 0
             a == [f EXCEPT !.ahead = n]
  <2>1. /\ f.i \in Nat /\ f.i >= 1 /\ f.state # "LOOP"
        /\ f.i <= Len(EntriesOf(f)) /\ f.part \in {"MEMBERS", "EXTRAS"}
    BY <1>1, <1>3 DEF Placed, Needy, Gens
  <2>2. n \in Int /\ n >= 0 /\ (f.part # "MEMBERS" => n = 0) BY <2>1
  <2> HIDE DEF n
  <2>3. /\ a \in Gens /\ a.fn = "struct" /\ a.i = f.i /\ a.ahead = n
        /\ a.part = f.part /\ a.value = f.value /\ a.state = f.state
    BY <1>1, <1>3, <2>2 DEF Gens
  <2>4. Restored(f) = a BY <1>3 DEF Restored, n
  <2> HIDE DEF a
  <2>5. EntriesOf(a) = EntriesOf(f) BY <2>3 DEF EntriesOf
  <2>6. IndexOf(a) = f.i BY <2>1, <2>2, <2>3 DEF IndexOf
  <2>7. a \in Calm BY <2>1, <2>2, <2>3, <2>5, <2>6, InStruct
  <2> QED BY <2>4, <2>7
<1> QED BY <1>2, <1>3

\* The frame on top is resumed.
LEMMA PopIInv == IInv /\ (PopFresh \/ PopBase) => IInv'
<1> SUFFICES ASSUME IInv, PopFresh \/ PopBase PROVE IInv' OBVIOUS
<1> DEFINE f == IF fresh # <<>> THEN Head(fresh) ELSE Head(base)
           a == Restored(f)
<1>1. /\ root \in Values /\ space \in Nat /\ fresh \in Seq(Calm)
      /\ out \in Seq(Letters) /\ scratch \in Seq(Letters) /\ base \in Seq(Calm)
  BY Between
<1>2. /\ calls' = <<a>> /\ phase' = "generating"
      /\ UNCHANGED <<root, space, scratch, out>> /\ fromNew' \in BOOLEAN
  BY DEF PopFresh, PopBase, Resume
<1>3. f \in Calm /\ fresh' \in Seq(Calm) /\ base' \in Seq(Calm)
  <2>1. CASE fresh # <<>>
    BY <1>1, <2>1, HeadTail DEF PopFresh, PopBase
  <2>2. CASE fresh = <<>>
    BY <1>1, <2>2, HeadTail DEF PopFresh, PopBase
  <2> QED BY <2>1, <2>2
<1> HIDE DEF f
<1>4. a \in Able /\ ~Needy(a) BY <1>3, RestoredCalm, CalmIs
<1> HIDE DEF a
<1>5. <<>> \in Seq(Calm) /\ calls' = <<a>> \o <<>> /\ calls' # <<>>
  BY <1>2
<1> QED BY <1>1, <1>2, <1>3, <1>4, <1>5, BusyIInv

\* A caller saves itself behind those it called.
LEMMA SaveCallerIInv == IInv /\ SaveCaller => IInv'
<1> SUFFICES ASSUME IInv, SaveCaller PROVE IInv' OBVIOUS
<1>1. /\ root \in Values /\ fromNew \in BOOLEAN /\ fresh \in Seq(Calm)
      /\ out \in Seq(Letters) /\ scratch \in Seq(Letters) /\ base \in Seq(Calm)
  BY Between
<1>2. /\ phase = "pausing" /\ Unwind /\ fresh' = Append(fresh, Top)
      /\ UNCHANGED <<root, base, fromNew, space, scratch, out>>
  BY DEF SaveCaller
<1>3. calls # <<>> /\ space = 0 BY <1>2, Between DEF IInv
<1>4. Top \in Calm /\ Tail(calls) \in Seq(Calm)
  BY <1>2, <1>3 DEF IInv, Calm
<1>5. fresh' \in Seq(Calm) BY <1>1, <1>2, <1>4, Joined
<1>6. /\ calls' = Tail(calls)
      /\ phase' = IF Tail(calls) = <<>> THEN "idle" ELSE "pausing"
  BY <1>2 DEF Unwind
<1>7. space' \in Nat /\ space' = 0 BY <1>2, <1>3
<1> QED BY <1>1, <1>2, <1>4, <1>5, <1>6, <1>7, UnwindIInv

\* A call of eu_generate begins
LEMMA CallIInv ==
    ASSUME IInv, NEW len \in 0 .. MaxBuffer, EuGenerate(len)
    PROVE  IInv'
<1>1. /\ phase = "idle" /\ space' = len /\ phase' = "running"
      /\ UNCHANGED <<root, calls, fresh, base, fromNew, scratch, out>>
  BY DEF EuGenerate
<1>2. len \in Nat BY RoomAssumption
<1>3. calls' = <<>> BY <1>1, Between
<1> QED BY <1>1, <1>2, <1>3, Between, FreeIInv

\* or ends with everything generated.
LEMMA RunOkIInv == IInv /\ RunOk => IInv'
<1> SUFFICES ASSUME IInv, RunOk PROVE IInv' OBVIOUS
<1>1. /\ phase = "running" /\ phase' = "idle" /\ fresh = <<>> /\ base = <<>>
      /\ UNCHANGED <<root, calls, fresh, base, fromNew, space, scratch, out>>
  BY DEF RunOk
<1>2. calls' = <<>> /\ fresh' \o base' = <<>> BY <1>1, Between
<1> QED BY <1>1, <1>2, Between, FreeIInv

\* Each step keeps the invariant.
LEMMA NextIInv == IInv /\ [Next]_vars => IInv'
<1> SUFFICES ASSUME IInv, [Next]_vars PROVE IInv' OBVIOUS
<1>1. CASE UNCHANGED vars
  <2>1. UNCHANGED <<root, calls, fresh, base, fromNew, space, scratch, out,
                    phase>>
    BY <1>1 DEF vars
  <2> QED BY <2>1 DEF IInv, TypeOK, OutputInBuffer, FillsBuffer, Top, Needy
<1>2. ASSUME NEW len \in 0 .. MaxBuffer, EuGenerate(len) PROVE IInv'
  BY <1>2, CallIInv
<1>3. CASE Ended BY <1>1, <1>3 DEF Ended
<1>4. CASE Generators BY <1>4, GeneratorsSteady, SteadyIInv
<1> QED BY <1>1, <1>2, <1>3, <1>4, PopIInv, SaveCallerIInv, RunOkIInv DEF Next

\* In every behaviour.
LEMMA Invariance == Spec => []IInv
BY InitIInv, NextIInv, PTL DEF Spec

\* Every variable has its type, and generators are on the C stack exactly
\* while one of them generates or they save themselves.
THEOREM TypeCorrect == Spec => []TypeOK
<1>1. IInv => TypeOK BY DEF IInv
<1> QED BY <1>1, Invariance, PTL

\* Nothing is written behind output_end, with buffers of any size: whatever
\* writes without a look at it finds at least one byte.
THEOREM StaysInBuffer == Spec => []OutputInBuffer
<1>1. IInv => OutputInBuffer BY DEF IInv
<1> QED BY <1>1, Invariance, PTL

\* eu_generate returns with a buffer that is not full only when all is
\* generated or it failed.
THEOREM FillsTheBuffer == Spec => []FillsBuffer
<1>1. IInv => FillsBuffer BY DEF IInv
<1> QED BY <1>1, Invariance, PTL
=============================================================================
