---------------------------- MODULE EuParseProofs ----------------------------
(***************************************************************************)
(* What holds of EuParse for all types, literals, depths and texts.        *)
(***************************************************************************)
EXTENDS EuParse, TLAPS

\* The innermost parser and those it returns to.
LEMMA HeadTail ==
    ASSUME NEW S, NEW s \in Seq(S), s # <<>>
    PROVE  /\ Head(s) \in S /\ Tail(s) \in Seq(S)
           /\ s = <<Head(s)>> \o Tail(s)
OBVIOUS

\* A parser put in front of others.
LEMMA Pushed ==
    ASSUME NEW S, NEW s \in Seq(S), NEW a \in S
    PROVE  /\ <<a>> \o s \in Seq(S) /\ <<a>> \o s # <<>>
           /\ Head(<<a>> \o s) = a /\ Tail(<<a>> \o s) = s
OBVIOUS

\* Consolidation: fresh frames in front of earlier ones.
LEMMA Joined ==
    ASSUME NEW S, NEW s \in Seq(S), NEW t \in Seq(S)
    PROVE  /\ s \o t \in Seq(S)
           /\ s # <<>> => Tail(s \o t) = Tail(s) \o t
           /\ s = <<>> => s \o t = t
           /\ t = <<>> => s \o t = s
           /\ s \o t = <<>> => s = <<>> /\ t = <<>>
OBVIOUS

\* What is behind a parser put in front of the fresh frames.
LEMMA PushedJoined ==
    ASSUME NEW S, NEW s \in Seq(S), NEW t \in Seq(S), NEW a \in S
    PROVE  Tail((<<a>> \o s) \o t) = s \o t
<1>1. /\ <<a>> \o s \in Seq(S) /\ <<a>> \o s # <<>>
      /\ Tail(<<a>> \o s) = s
  BY Pushed
<1> DEFINE u == <<a>> \o s
<1>2. u \in Seq(S) /\ u # <<>> /\ Tail(u) = s BY <1>1
<1> HIDE DEF u
<1>3. Tail(u \o t) = Tail(u) \o t BY <1>2, Joined
<1> QED BY <1>2, <1>3 DEF u

\* eu_stack_alloc: a frame behind the fresh ones.
LEMMA Appended ==
    ASSUME NEW S, NEW s \in Seq(S), NEW a \in S
    PROVE  /\ Append(s, a) \in Seq(S) /\ Append(s, a) # <<>>
           /\ s # <<>> => Tail(Append(s, a)) = Append(Tail(s), a)
OBVIOUS

\* The parsers of two sequences wait if those of their concatenation do ...
LEMMA WaitJoined ==
    ASSUME NEW s \in Seq(Parsers), NEW t \in Seq(Parsers)
    PROVE  AllWait(s \o t) <=> AllWait(s) /\ AllWait(t)
<1>1. ASSUME AllWait(s), AllWait(t) PROVE AllWait(s \o t)
  BY <1>1 DEF AllWait
<1>2. ASSUME AllWait(s \o t) PROVE AllWait(s) /\ AllWait(t)
  <2>1. ASSUME NEW i \in DOMAIN s PROVE Waits(s[i])
    <3>1. i \in DOMAIN (s \o t) /\ (s \o t)[i] = s[i] OBVIOUS
    <3> QED BY <1>2, <3>1 DEF AllWait
  <2>2. ASSUME NEW i \in DOMAIN t PROVE Waits(t[i])
    <3>1. i + Len(s) \in DOMAIN (s \o t) /\ (s \o t)[i + Len(s)] = t[i] OBVIOUS
    <3> QED BY <1>2, <3>1 DEF AllWait
  <2> QED BY <2>1, <2>2 DEF AllWait
<1> QED BY <1>1, <1>2

\* ... and it is the same with one parser taken from the front,
LEMMA WaitTail ==
    ASSUME NEW s \in Seq(Parsers), s # <<>>, AllWait(s)
    PROVE  Waits(Head(s)) /\ AllWait(Tail(s))
<1>1. 1 \in DOMAIN s /\ s[1] = Head(s) OBVIOUS
<1>2. ASSUME NEW i \in DOMAIN Tail(s) PROVE Waits(Tail(s)[i])
  <2>1. i + 1 \in DOMAIN s /\ Tail(s)[i] = s[i + 1] OBVIOUS
  <2> QED BY <2>1 DEF AllWait
<1> QED BY <1>1, <1>2 DEF AllWait

\* put at the front
LEMMA WaitPushed ==
    ASSUME NEW s \in Seq(Parsers), NEW a \in Parsers, AllWait(s), Waits(a)
    PROVE  AllWait(<<a>> \o s)
BY DEF AllWait

\* or put at the end.
LEMMA WaitAppended ==
    ASSUME NEW s \in Seq(Parsers), NEW a \in Parsers, AllWait(s), Waits(a)
    PROVE  AllWait(Append(s, a))
BY DEF AllWait

\* Where there is no parser, all wait.
LEMMA WaitEmpty == AllWait(<<>>)
BY DEF AllWait

-----------------------------------------------------------------------------
(***************************************************************************)
(* Parsers that are in an escape sequence only where text is read.         *)
(***************************************************************************)
Escaping == {"IN_MEMBER_NAME", "RESERVE", "FINISH_ESCAPE", "TEXT", "TORN"}
Sane == {a \in Parsers : a.esc # None => a.state \in Escaping}

Typed == /\ TypeOK
         /\ calls \in Seq(Sane) /\ fresh \in Seq(Sane) /\ base \in Seq(Sane)

\* A parser where it starts is sane,
LEMMA NewSane ==
    ASSUME NEW fn \in Fns, NEW t \in AllTypes \cup {None}, NEW s \in States,
           NEW u \in AllTypes \cup {None}
    PROVE  Parser(fn, t, s, u) \in Sane
BY DEF Parser, Sane, Parsers, Escapes, None

\* so is the one that is called for a value,
LEMMA ParserOfSane ==
    ASSUME NEW t \in AllTypes \cup {None}
    PROVE  /\ ParserOf(t) \in Sane
           /\ ParserOf(t).fn \in {"number", "value"}
<1>1. ParserOf(t) \in Sane
  BY NewSane DEF ParserOf, Fns, States, NumberStates
<1>2. ParserOf(t).fn \in {"number", "value"}
  BY DEF ParserOf, Parser
<1> QED BY <1>1, <1>2

\* and a sane parser stays so in another state
LEMMA StateSane ==
    ASSUME NEW a \in Sane, NEW s \in States, a.esc = None \/ s \in Escaping
    PROVE  /\ [a EXCEPT !.state = s] \in Sane
           /\ [a EXCEPT !.state = s].fn = a.fn
           /\ [a EXCEPT !.state = s].state = s
BY DEF Sane, Parsers

\* or further on in an escape sequence.
LEMMA EscapeSane ==
    ASSUME NEW a \in Sane, NEW s \in Escaping, NEW e \in Escapes
    PROVE  /\ [a EXCEPT !.esc = e, !.state = s] \in Sane
           /\ [a EXCEPT !.esc = e, !.state = s].fn = a.fn
           /\ [a EXCEPT !.esc = e, !.state = s].state = s
BY DEF Sane, Parsers, Escaping, States

\* The types of members and elements are types.
LEMMA ChildTypesAre ==
    ASSUME NEW t PROVE ChildTypes(t) \subseteq AllTypes
BY TypesAssumption DEF ChildTypes, AllTypes

\* White space is no part of an escape sequence.
LEMMA BlankIsBad == ASSUME NEW e PROVE Escaped(e, "ws") = "bad"
BY Zenon DEF Escaped, Hex, Digits

\* A number's states lead to such states, and never back to its start.
LEMMA NumberStaysNumber ==
    ASSUME NEW s, NEW c PROVE NumberMoves(s, c) \subseteq NumberStates \ {"START"}
BY Zenon DEF NumberMoves, NumberStates, Digits, Complete

\* The parsers that a first character calls for, by their kind.
LEMMA StartedIs ==
    ASSUME NEW t, NEW c, NEW a \in Started(t, c)
    PROVE  \/ a = Parser("struct", t, "OPEN", None) /\ t \in {"struct", "variant"}
           \/ /\ t \in {"array", "variant"}
              /\ \E u \in ChildTypes(t) : a = Parser("array", t, "OPEN", u)
           \/ a = Parser("string", None, "TEXT", None)
           \/ \E n \in LiteralRest :
                 a = [Parser("expect", None, "LETTERS", None) EXCEPT !.left = n]
BY Zenon DEF Started

-----------------------------------------------------------------------------
(***************************************************************************)
(* The shapes of a parser's step: it goes on, calls another parser,        *)
(* returns, fails, pauses, or has its frame put back.  All actions of      *)
(* parsers are of one of these shapes but those of a struct that finishes  *)
(* an escape sequence, which is Entering.  A number that is Starting reads *)
(* *p whether there is input or not: its parser is called where there is.  *)
(***************************************************************************)
Resumable == {"initial", "string_resume", "number_resume"}
Entering(a) == a.fn = "struct" /\ a.state \in {"RESERVE", "FINISH_ESCAPE"}

Digital == {"number", "number_resume"}
Starting(a) == a.fn \in Digital /\ a.state = "START"

Onward == \E a \in Sane, c \in BOOLEAN :
             /\ ~Entering(a)
             /\ c \/ p # End
             /\ Starting(a) => a.fn = "number" /\ ~c
             /\ a.fn \in Resumable => Top.fn = a.fn
             /\ Advance(a, c) /\ Reserve
Inward == /\ p # End
          /\ \E a \in Sane, t \in AllTypes \cup {None} : Waits(a) /\ Call(a, t)
Back == \E c \in BOOLEAN : (c \/ p # End) /\ Leave(c) /\ Reserve
Away == \E a \in Sane : /\ a.fn # "number"
                        /\ a.fn = "number_resume" => Top.fn \in Digital
                        /\ Pause(a)
Again == /\ Top.fn \in Resumable \ Digital
         /\ \E a \in Sane : a.fn = Top.fn /\ Reinstate(a)

Shaped == Onward \/ Inward \/ Back \/ Fail \/ Away \/ Again
Steady == /\ phase = "parsing" /\ p # None
          /\ UNCHANGED <<fromNew, closing>>
          /\ Shaped
Aborting == phase = "parsing" /\ UNCHANGED <<fromNew, closing>> /\ Abort

\* The innermost parser is a sane one.
LEMMA TopSane ==
    ASSUME Typed, phase = "parsing"
    PROVE  /\ calls # <<>> /\ Top \in Sane /\ Tail(calls) \in Seq(Sane)
           /\ Top.fn \in Fns /\ Top.state \in States
           /\ Top.type \in AllTypes \cup {None}
           /\ Top.child \in AllTypes \cup {None}
           /\ Top.left \in Nat /\ Top.esc \in Escapes
           /\ Top.esc # None => Top.state \in Escaping
<1>1. calls # <<>> /\ calls \in Seq(Sane) BY DEF Typed, TypeOK
<1>2. Top \in Sane /\ Tail(calls) \in Seq(Sane) BY <1>1, HeadTail DEF Top
<1> QED BY <1>1, <1>2 DEF Sane, Parsers

\* Going on within the chunk, with the stack left alone.
LEMMA Onwards ==
    ASSUME NEW a \in Sane, NEW c \in BOOLEAN, ~Entering(a), c \/ p # End,
           Starting(a) => a.fn = "number" /\ ~c,
           a.fn \in Resumable => Top.fn = a.fn, GoOn(a, c)
    PROVE  Onward
BY DEF Onward, GoOn, Reserve

\* In the same state,
LEMMA Stays ==
    ASSUME Typed, phase = "parsing",
           ~Entering(Top), ~Starting(Top), GoOn(Top, TRUE)
    PROVE  Onward
BY TopSane, Onwards

\* in another one,
LEMMA MovesOn ==
    ASSUME Typed, phase = "parsing",
           NEW s \in States \ {"START"}, Top.esc = None \/ s \in Escaping,
           Top.fn = "struct" => s \notin {"RESERVE", "FINISH_ESCAPE"},
           GoOn(At(s), TRUE)
    PROVE  Onward
<1>1. At(s) \in Sane /\ At(s).fn = Top.fn /\ At(s).state = s
  BY TopSane, StateSane DEF At
<1> QED BY <1>1, Onwards DEF Entering, Starting, Digital

\* in an escape sequence that starts,
LEMMA EscapeStarts ==
    ASSUME Typed, phase = "parsing", ~Entering(Top), Top.state \in Escaping
    PROVE  LET a == [Top EXCEPT !.esc = "BACKSLASH"]
           IN  /\ a \in Sane /\ ~Entering(a) /\ ~Starting(a)
               /\ a.fn \in Resumable => Top.fn = a.fn
<1> DEFINE a == [Top EXCEPT !.esc = "BACKSLASH"]
<1>1. /\ a \in Sane /\ a.fn = Top.fn /\ a.state = Top.state
  BY TopSane DEF Sane, Parsers, Escapes
<1> QED BY <1>1 DEF Entering, Starting, Escaping, Digital

\* or goes on, or is over.
LEMMA Unescapes ==
    ASSUME Typed, phase = "parsing", NEW s \in Escaping, Unescape(s),
           ~Entering(Top), Top.fn = "struct" => s = "IN_MEMBER_NAME"
    PROVE  Onward
<1>1. PICK e \in {"U", "UX", "UXX", "UXXX", None} :
         /\ InEscape(e)
         /\ GoOn([Top EXCEPT !.esc = e, !.state = IF e = None THEN s ELSE @], TRUE)
  BY DEF Unescape
<1> DEFINE n == IF e = None THEN s ELSE Top.state
           a == [Top EXCEPT !.esc = e, !.state = n]
<1>2. e \in Escapes BY DEF Escapes
<1>3. n \in Escaping BY <1>1, TopSane DEF InEscape
<1>4. GoOn(a, TRUE)
  <2>1. [Top EXCEPT !.esc = e, !.state = IF e = None THEN s ELSE @] = a
    BY TopSane DEF Sane, Parsers
  <2> QED BY <1>1, <2>1
<1>5. a \in Sane /\ a.fn = Top.fn /\ a.state = n
  <2>1. Top \in Sane BY TopSane
  <2> HIDE DEF n
  <2> QED BY <1>2, <1>3, <2>1, EscapeSane, ZenonT(60)
<1>6. ~Entering(a) /\ ~Starting(a)
  <2>1. ~Entering(a) BY <1>5 DEF Entering
  <2>2. ~Starting(a)
    <3> HIDE DEF a, n
    <3> QED BY <1>3, <1>5 DEF Starting, Escaping, Digital
  <2> QED BY <2>1, <2>2
<1> HIDE DEF a, n
<1> QED BY <1>4, <1>5, <1>6, Onwards

\* Going to eu_parse's caller with a frame on the stack.
LEMMA Pauses ==
    ASSUME Typed, phase = "parsing", Top.fn # "number", Pause(Top)
    PROVE  Away
BY TopSane DEF Away, Digital

-----------------------------------------------------------------------------
(***************************************************************************)
(* Each parser's actions are of these shapes.                              *)
(***************************************************************************)
\* A parser that is not where text is read is in no escape sequence.
LEMMA NoEscape ==
    ASSUME Typed, phase = "parsing", Top.state \notin Escaping
    PROVE  Top.esc = None /\ ~Entering(Top)
BY TopSane DEF Entering, Escaping

\* The initial frame.
LEMMA InitialSteady == Typed /\ Initial => Steady
<1> SUFFICES ASSUME Typed, Initial PROVE Steady OBVIOUS
<1>1. /\ phase = "parsing" /\ p # None /\ UNCHANGED <<fromNew, closing>>
      /\ Top.fn = "initial"
  BY DEF Initial, Parsing, Looking
<1>2. CASE p = End
  <2>1. Reinstate(Top) BY <1>2 DEF Initial
  <2> QED BY <1>1, <2>1, TopSane DEF Steady, Shaped, Again, Resumable, Digital
<1>3. CASE p # End
  <2>1. GoOn(ParserOf(Top.type), FALSE) BY <1>3 DEF Initial
  <2>2. ParserOf(Top.type) \in Sane /\ ParserOf(Top.type).fn \in {"number", "value"}
    BY <1>1, TopSane, ParserOfSane
  <2>3. /\ ~Entering(ParserOf(Top.type)) /\ ParserOf(Top.type).fn \notin Resumable
        /\ Starting(ParserOf(Top.type)) => ParserOf(Top.type).fn = "number"
    BY <2>2 DEF Entering, Resumable, Starting, Digital
  <2>4. Onward BY <1>3, <2>1, <2>2, <2>3, Onwards
  <2> QED BY <1>1, <2>4 DEF Steady, Shaped
<1> QED BY <1>2, <1>3

\* The parser that a first character calls for is a sane one.
LEMMA StartedSane ==
    ASSUME NEW t \in AllTypes \cup {None}, NEW c, NEW a \in Started(t, c)
    PROVE  a \in Sane /\ ~Entering(a) /\ ~Starting(a) /\ a.fn \notin Resumable
<1>1. CASE a = Parser("struct", t, "OPEN", None)
  <2>1. a \in Sane BY <1>1, NewSane DEF Fns, States
  <2> QED BY <1>1, <2>1 DEF Parser, Entering, Starting, Resumable, Digital
<1>2. CASE \E u \in ChildTypes(t) : a = Parser("array", t, "OPEN", u)
  <2>1. PICK u \in ChildTypes(t) : a = Parser("array", t, "OPEN", u) BY <1>2
  <2>2. u \in AllTypes \cup {None} BY ChildTypesAre
  <2>3. a \in Sane BY <2>1, <2>2, NewSane DEF Fns, States
  <2> QED BY <2>1, <2>3 DEF Parser, Entering, Starting, Resumable, Digital
<1>3. CASE a = Parser("string", None, "TEXT", None)
  <2>1. a \in Sane BY <1>3, NewSane DEF Fns, States
  <2> QED BY <1>3, <2>1 DEF Parser, Entering, Starting, Resumable, Digital
<1>4. CASE \E n \in LiteralRest :
              a = [Parser("expect", None, "LETTERS", None) EXCEPT !.left = n]
  <2>1. PICK n \in LiteralRest :
           a = [Parser("expect", None, "LETTERS", None) EXCEPT !.left = n]
    BY <1>4
  <2>2. n \in Nat BY LiteralAssumption
  <2>3. Parser("expect", None, "LETTERS", None) \in Sane
    BY NewSane DEF Fns, States
  <2>4. a \in Sane /\ a.fn = "expect"
    BY <2>1, <2>2, <2>3 DEF Sane, Parsers, Parser
  <2> QED BY <2>4 DEF Entering, Starting, Resumable, Digital
<1> QED BY <1>1, <1>2, <1>3, <1>4, StartedIs

\* Where a value starts.
LEMMA ValueStartSteady == Typed /\ ValueStart => Steady
<1> SUFFICES ASSUME Typed, ValueStart PROVE Steady OBVIOUS
<1>1. /\ phase = "parsing" /\ p # None /\ UNCHANGED <<fromNew, closing>>
      /\ Top.fn = "value"
  BY DEF ValueStart, Parsing, Looking
<1>2. ~Entering(Top) /\ ~Starting(Top) BY <1>1 DEF Entering, Starting, Digital
<1>3. CASE Pause(Top)
  BY <1>1, <1>3, Pauses DEF Steady, Shaped
<1>4. CASE GoOn(Top, TRUE)
  BY <1>1, <1>2, <1>4, Stays DEF Steady, Shaped
<1>5. CASE \E a \in Started(Top.type, p) : GoOn(a, TRUE)
  <2>1. PICK a \in Started(Top.type, p) : GoOn(a, TRUE) BY <1>5
  <2>2. a \in Sane /\ ~Entering(a) /\ ~Starting(a) /\ a.fn \notin Resumable
    BY <1>1, TopSane, StartedSane
  <2> QED BY <1>1, <2>1, <2>2, Onwards DEF Steady, Shaped
<1>6. CASE /\ p # End
           /\ GoOn(Parser("number", Top.type, "START", None), FALSE)
  <2> DEFINE a == Parser("number", Top.type, "START", None)
  <2>1. a \in Sane BY <1>1, TopSane, NewSane DEF Fns, States, NumberStates
  <2>2. ~Entering(a) /\ a.fn \notin Resumable /\ a.fn = "number"
    BY DEF Parser, Entering, Resumable
  <2> HIDE DEF a
  <2> QED BY <1>1, <1>6, <2>1, <2>2, Onwards DEF Steady, Shaped, a
<1>7. CASE Fail BY <1>1, <1>7 DEF Steady, Shaped
<1>8. StartsNumber(Top.type, p) => p # End
  BY DEF StartsNumber, Digits, End
<1> QED BY <1>3, <1>4, <1>5, <1>6, <1>7, <1>8 DEF ValueStart

\* The letters of a literal, ...
LEMMA ExpectSteady == Typed /\ Expect => Steady
<1> SUFFICES ASSUME Typed, Expect PROVE Steady OBVIOUS
<1>1. /\ phase = "parsing" /\ p # None /\ UNCHANGED <<fromNew, closing>>
      /\ Top.fn = "expect"
  BY DEF Expect, Parsing, Looking
<1>2. CASE Pause(Top)
  BY <1>1, <1>2, Pauses DEF Steady, Shaped
<1>3. CASE Return(TRUE)
  BY <1>1, <1>3 DEF Steady, Shaped, Back, Return, Reserve
<1>4. CASE Top.left > 1 /\ GoOn([Top EXCEPT !.left = @ - 1], TRUE)
  <2> DEFINE a == [Top EXCEPT !.left = Top.left - 1]
  <2>1. Top.left - 1 \in Nat BY <1>1, <1>4, TopSane
  <2>2. a \in Sane /\ a.fn = "expect" BY <1>1, <2>1, TopSane DEF Sane, Parsers
  <2>3. ~Entering(a) /\ ~Starting(a) /\ a.fn \notin Resumable
    BY <2>2 DEF Entering, Starting, Resumable, Digital
  <2>4. GoOn(a, TRUE) BY <1>4
  <2> HIDE DEF a
  <2> QED BY <1>1, <2>2, <2>3, <2>4, Onwards DEF Steady, Shaped
<1>5. CASE Fail BY <1>1, <1>5 DEF Steady, Shaped
<1> QED BY <1>2, <1>3, <1>4, <1>5 DEF Expect

\* States of objects and arrays.
Plain == States \ {"RESERVE", "FINISH_ESCAPE", "START"}

\* The part of a struct's actions that all of them share.
LEMMA ContainerSteady ==
    ASSUME Typed, phase = "parsing", p # None, UNCHANGED <<fromNew, closing>>,
           Top.fn \in {"struct", "array"}, Top.state \notin Escaping,
           \/ Pause(Top) \/ GoOn(Top, TRUE) \/ Return(TRUE) \/ Fail
           \/ \E s \in Plain : GoOn(At(s), TRUE)
    PROVE  Steady
<1>1. Top.esc = None /\ ~Entering(Top) /\ ~Starting(Top) BY NoEscape DEF Starting, Digital
<1>2. CASE Pause(Top) BY <1>2, Pauses DEF Steady, Shaped
<1>3. CASE GoOn(Top, TRUE) BY <1>1, <1>3, Stays DEF Steady, Shaped
<1>4. CASE Return(TRUE) BY <1>4 DEF Steady, Shaped, Back, Return, Reserve
<1>5. CASE Fail BY <1>5 DEF Steady, Shaped
<1>6. CASE \E s \in Plain : GoOn(At(s), TRUE)
  <2>1. PICK s \in Plain : GoOn(At(s), TRUE)
    BY <1>6
  <2>2. Onward BY <1>1, <2>1, MovesOn DEF Plain
  <2> QED BY <2>2 DEF Steady, Shaped
<1> QED BY <1>2, <1>3, <1>4, <1>5, <1>6

\* The states of an object but for the member's name and the call.
StructPlain == StructOpen \/ StructMemberName \/ StructMemberValue \/ StructComma

\* Objects, ...
LEMMA StructPlainSteady == Typed /\ StructPlain => Steady
<1> SUFFICES ASSUME Typed, StructPlain PROVE Steady OBVIOUS
<1>1. /\ phase = "parsing" /\ p # None /\ UNCHANGED <<fromNew, closing>>
      /\ Top.fn = "struct" /\ Top.state \notin Escaping
  BY DEF StructPlain, StructOpen, StructMemberName, StructMemberValue,
         StructComma, Parsing, Looking, Escaping
<1>2. \/ Pause(Top) \/ GoOn(Top, TRUE) \/ Return(TRUE) \/ Fail
      \/ \E s \in {"IN_MEMBER_NAME", "COLON", "COMMA"} : GoOn(At(s), TRUE)
  BY DEF StructPlain, StructOpen, StructMemberName, StructMemberValue, StructComma
<1>3. {"IN_MEMBER_NAME", "COLON", "COMMA"} \subseteq Plain BY DEF Plain, States
<1> QED BY <1>1, <1>2, <1>3, ContainerSteady

\* The call of a member's parser, by a struct that waits for it then.
LEMMA StructColonSteady == Typed /\ StructColon => Steady
<1> SUFFICES ASSUME Typed, StructColon PROVE Steady OBVIOUS
<1>1. /\ phase = "parsing" /\ p # None /\ UNCHANGED <<fromNew, closing>>
      /\ Top.fn = "struct" /\ Top.state = "COLON"
  BY DEF StructColon, Parsing, Looking
<1>2. CASE Pause(Top) BY <1>1, <1>2, Pauses DEF Steady, Shaped
<1>3. CASE p # End /\ Call([At("MEMBER_VALUE") EXCEPT !.child = None], Top.child)
  <2> DEFINE a == [At("MEMBER_VALUE") EXCEPT !.child = None]
  <2>1. Top.esc = None BY <1>1, NoEscape DEF Escaping
  <2>2. At("MEMBER_VALUE") \in Sane /\ At("MEMBER_VALUE").fn = "struct"
        /\ At("MEMBER_VALUE").state = "MEMBER_VALUE"
    BY <1>1, <2>1, TopSane, StateSane DEF At, States
  <2>3. a \in Sane /\ a.fn = "struct" /\ a.state = "MEMBER_VALUE"
    BY <2>2 DEF Sane, Parsers
  <2>4. Waits(a) BY <2>3 DEF Waits
  <2>5. Top.child \in AllTypes \cup {None} BY <1>1, TopSane
  <2> HIDE DEF a
  <2>6. Inward
    BY <1>3, <2>3, <2>4, <2>5 DEF Inward, a
  <2> QED BY <1>1, <2>6 DEF Steady, Shaped
<1> QED BY <1>2, <1>3 DEF StructColon

\* A member's name, read or unescaped.
LEMMA StructInMemberNameSteady == Typed /\ StructInMemberName => Steady
<1> SUFFICES ASSUME Typed, StructInMemberName PROVE Steady OBVIOUS
<1>1. /\ phase = "parsing" /\ p # None /\ UNCHANGED <<fromNew, closing>>
      /\ Top.fn = "struct" /\ Top.state = "IN_MEMBER_NAME"
  BY DEF StructInMemberName, Parsing, Looking
<1>2. ~Entering(Top) /\ ~Starting(Top) /\ "IN_MEMBER_NAME" \in Escaping
  BY <1>1 DEF Entering, Starting, Escaping, Digital
<1>3. CASE Pause(Top) BY <1>1, <1>3, Pauses DEF Steady, Shaped
<1>4. CASE Unescape("IN_MEMBER_NAME")
  BY <1>1, <1>2, <1>4, Unescapes DEF Steady, Shaped
<1>5. CASE Fail BY <1>1, <1>5 DEF Steady, Shaped
<1>6. CASE Advance([Top EXCEPT !.esc = "BACKSLASH"], TRUE) /\ Reserve
  <2> DEFINE a == [Top EXCEPT !.esc = "BACKSLASH"]
  <2>1. /\ a \in Sane /\ ~Entering(a) /\ ~Starting(a)
        /\ a.fn \in Resumable => Top.fn = a.fn
    BY <1>1, <1>2, EscapeStarts
  <2>2. Advance(a, TRUE) /\ Reserve BY <1>6
  <2> HIDE DEF a
  <2>3. Onward BY <2>1, <2>2 DEF Onward
  <2> QED BY <1>1, <2>3 DEF Steady, Shaped
<1>7. CASE /\ Top.esc = None
           /\ \E t \in ChildTypes(Top.type) :
                 GoOn([At("MEMBER_NAME") EXCEPT !.child = t], TRUE)
  <2>1. PICK t \in ChildTypes(Top.type) :
           GoOn([At("MEMBER_NAME") EXCEPT !.child = t], TRUE)
    BY <1>7
  <2> DEFINE a == [At("MEMBER_NAME") EXCEPT !.child = t]
  <2>2. t \in AllTypes BY ChildTypesAre
  <2>3. At("MEMBER_NAME") \in Sane /\ At("MEMBER_NAME").fn = "struct"
        /\ At("MEMBER_NAME").state = "MEMBER_NAME"
    BY <1>1, <1>7, TopSane, StateSane DEF At, States
  <2>4. a \in Sane /\ a.fn = "struct" /\ a.state = "MEMBER_NAME"
    BY <2>2, <2>3 DEF Sane, Parsers
  <2>5. ~Entering(a) /\ ~Starting(a) /\ a.fn \notin Resumable
    BY <2>4 DEF Entering, Starting, Resumable, Digital
  <2>6. GoOn(a, TRUE) BY <2>1
  <2> HIDE DEF a
  <2>7. Onward BY <2>4, <2>5, <2>6, Onwards
  <2> QED BY <1>1, <2>7 DEF Steady, Shaped
<1>8. CASE GoOn(Top, TRUE) BY <1>1, <1>2, <1>8, Stays DEF Steady, Shaped
<1> QED BY <1>3, <1>4, <1>5, <1>6, <1>7, <1>8 DEF StructInMemberName

\* Arrays.
LEMMA ArraySteady == Typed /\ Array => Steady
<1> SUFFICES ASSUME Typed, Array PROVE Steady OBVIOUS
<1>1. /\ phase = "parsing" /\ p # None /\ UNCHANGED <<fromNew, closing>>
      /\ Top.fn = "array" /\ Top.state \notin Escaping
  BY DEF Array, ArrayOpen, ArrayElement, ArrayComma, Parsing, Looking, Escaping
<1>2. \/ Pause(Top) \/ GoOn(Top, TRUE) \/ Return(TRUE) \/ Fail
      \/ \E s \in {"COMMA"} : GoOn(At(s), TRUE)
      \/ p # End /\ Call(At("ELEMENT"), Top.child)
  BY DEF Array, ArrayOpen, ArrayElement, ArrayComma
<1>3. CASE p # End /\ Call(At("ELEMENT"), Top.child)
  <2>1. Top.esc = None BY <1>1, NoEscape
  <2>2. At("ELEMENT") \in Sane /\ Waits(At("ELEMENT"))
    BY <1>1, <2>1, TopSane, StateSane DEF At, States, Waits
  <2>3. Top.child \in AllTypes \cup {None} BY <1>1, TopSane
  <2>4. Inward BY <1>3, <2>2, <2>3 DEF Inward
  <2> QED BY <1>1, <2>4 DEF Steady, Shaped
<1>4. {"COMMA"} \subseteq Plain BY DEF Plain, States
<1> QED BY <1>1, <1>2, <1>3, <1>4, ContainerSteady

\* A string whose frame is put back, whatever the frame says then.
LEMMA PutBackSteady ==
    ASSUME Typed, phase = "parsing", p # None, UNCHANGED <<fromNew, closing>>,
           Top.fn = "string_resume", NEW a \in Sane, a.fn = Top.fn, Reinstate(a)
    PROVE  Steady
BY DEF Steady, Shaped, Again, Resumable, Digital

\* What reading text is made of, in a new string and in a resumed one.
LEMMA TextSteady ==
    ASSUME Typed, phase = "parsing", p # None, UNCHANGED <<fromNew, closing>>,
           Top.fn \in {"string", "string_resume"}, Top.state \in Escaping,
           \/ Unescape("TEXT") \/ Fail \/ Return(TRUE) \/ GoOn(Top, TRUE)
           \/ GoOn([Top EXCEPT !.esc = "BACKSLASH"], TRUE)
    PROVE  Steady
<1>1. ~Entering(Top) /\ ~Starting(Top) /\ "TEXT" \in Escaping
  BY DEF Entering, Starting, Escaping, Digital
<1>2. CASE Unescape("TEXT") BY <1>1, <1>2, Unescapes DEF Steady, Shaped
<1>3. CASE Fail BY <1>3 DEF Steady, Shaped
<1>4. CASE Return(TRUE) BY <1>4 DEF Steady, Shaped, Back, Return, Reserve
<1>5. CASE GoOn(Top, TRUE) BY <1>1, <1>5, Stays DEF Steady, Shaped
<1>6. CASE GoOn([Top EXCEPT !.esc = "BACKSLASH"], TRUE)
  <2> DEFINE a == [Top EXCEPT !.esc = "BACKSLASH"]
  <2>1. /\ a \in Sane /\ ~Entering(a) /\ ~Starting(a)
        /\ a.fn \in Resumable => Top.fn = a.fn
    BY <1>1, EscapeStarts
  <2>2. GoOn(a, TRUE) BY <1>6
  <2> HIDE DEF a
  <2>3. Onward BY <2>1, <2>2, Onwards
  <2> QED BY <2>3 DEF Steady, Shaped
<1> QED BY <1>2, <1>3, <1>4, <1>5, <1>6

\* A string in another place of it.
LEMMA OtherEscape ==
    ASSUME Typed, phase = "parsing", Top.fn = "string_resume",
           NEW s \in Escaping, NEW e \in Escapes
    PROVE  LET a == [Top EXCEPT !.esc = e, !.state = s]
           IN  /\ a \in Sane /\ a.fn = "string_resume"
               /\ GoOn(a, TRUE) => Onward
<1> DEFINE a == [Top EXCEPT !.esc = e, !.state = s]
<1>1. Top \in Sane BY TopSane
<1>2. a \in Sane /\ a.fn = Top.fn BY <1>1, EscapeSane
<1> HIDE DEF a
<1>3. ~Entering(a) /\ ~Starting(a) BY <1>2 DEF Entering, Starting, Digital
<1>4. GoOn(a, TRUE) => Onward BY <1>2, <1>3, Onwards
<1> QED BY <1>2, <1>4 DEF a

\* Strings.
LEMMA StringSteady == Typed /\ String => Steady
<1> SUFFICES ASSUME Typed, String PROVE Steady OBVIOUS
<1>1. /\ phase = "parsing" /\ p # None /\ UNCHANGED <<fromNew, closing>>
      /\ Top.fn \in {"string", "string_resume"} /\ Top.state \in Escaping
  BY DEF String, StringParse, StringFinishEscape, StringResume, StringTorn,
         Parsing, Looking, Escaping
<1>2. Top \in Sane BY <1>1, TopSane
<1>3. CASE \/ Unescape("TEXT") \/ Fail \/ Return(TRUE) \/ GoOn(Top, TRUE)
           \/ GoOn([Top EXCEPT !.esc = "BACKSLASH"], TRUE)
  BY <1>1, <1>3, TextSteady
<1>4. CASE Pause([Top EXCEPT !.fn = "string_resume"])
  <2>1. /\ [Top EXCEPT !.fn = "string_resume"] \in Sane
        /\ [Top EXCEPT !.fn = "string_resume"].fn = "string_resume"
    BY <1>2 DEF Sane, Parsers, Fns
  <2> QED BY <1>1, <1>4, <2>1 DEF Steady, Shaped, Away, Digital
<1>5. CASE Top.fn = "string_resume" /\ Reinstate(At("TEXT"))
  <2>1. At("TEXT") \in Sane /\ At("TEXT").fn = Top.fn
    BY <1>2, StateSane DEF At, Escaping, States
  <2> QED BY <1>1, <1>5, <2>1, PutBackSteady
<1>6. CASE Top.fn = "string_resume" /\ Reinstate(Top)
  BY <1>1, <1>2, <1>6, PutBackSteady
<1>7. CASE Top.fn = "string_resume" /\ Reinstate([Top EXCEPT !.esc = None])
  <2>1. /\ [Top EXCEPT !.esc = None] \in Sane
        /\ [Top EXCEPT !.esc = None].fn = Top.fn
    BY <1>2 DEF Sane, Parsers, Escapes
  <2> QED BY <1>1, <1>7, <2>1, PutBackSteady
<1>8. CASE /\ Top.fn = "string_resume"
           /\ \E e \in {"BACKSLASH", None}, s \in {Top.state, "TORN"} :
                 GoOn([Top EXCEPT !.esc = e, !.state = s], TRUE)
  <2>1. PICK e \in {"BACKSLASH", None}, s \in {Top.state, "TORN"} :
           GoOn([Top EXCEPT !.esc = e, !.state = s], TRUE)
    BY <1>8
  <2>2. e \in Escapes /\ s \in Escaping BY <1>1 DEF Escapes, Escaping
  <2>3. Onward BY <1>1, <1>8, <2>1, <2>2, OtherEscape
  <2> QED BY <1>1, <2>3 DEF Steady, Shaped
<1>9. CASE StringParse
  BY <1>3, <1>4, <1>9 DEF StringParse
<1>10. CASE StringFinishEscape
  BY <1>3, <1>5, <1>10 DEF StringFinishEscape, Parsing, Looking
<1>11. CASE StringResume
  <2>1. Top.fn = "string_resume" BY <1>11 DEF StringResume, Parsing, Looking
  <2>2. CASE GoOn([At("TORN") EXCEPT
                      !.esc = IF p = "bs" THEN "BACKSLASH" ELSE None], TRUE)
    <3> DEFINE e == IF p = "bs" THEN "BACKSLASH" ELSE None
    <3>1. [At("TORN") EXCEPT !.esc = e] = [Top EXCEPT !.esc = e, !.state = "TORN"]
      BY <1>2 DEF At, Sane, Parsers
    <3>2. GoOn([Top EXCEPT !.esc = e, !.state = "TORN"], TRUE) BY <2>2, <3>1
    <3>3. e \in {"BACKSLASH", None} OBVIOUS
    <3> HIDE DEF e
    <3> QED BY <1>8, <2>1, <3>2, <3>3
  <2> QED BY <1>3, <1>6, <1>11, <2>1, <2>2 DEF StringResume
<1>12. CASE StringTorn
  <2>1. Top.fn = "string_resume" /\ Top.state = "TORN"
    BY <1>12 DEF StringTorn, Parsing, Looking
  <2>2. CASE GoOn([Top EXCEPT !.esc = IF p = "bs" /\ @ = None
                                      THEN "BACKSLASH" ELSE None], TRUE)
    <3> DEFINE e == IF p = "bs" /\ Top.esc = None THEN "BACKSLASH" ELSE None
    <3>1. [Top EXCEPT !.esc = e] = [Top EXCEPT !.esc = e, !.state = "TORN"]
      BY <1>2, <2>1 DEF Sane, Parsers
    <3>2. GoOn([Top EXCEPT !.esc = e, !.state = "TORN"], TRUE) BY <2>2, <3>1
    <3>3. e \in {"BACKSLASH", None} OBVIOUS
    <3> HIDE DEF e
    <3> QED BY <1>8, <2>1, <3>2, <3>3
  <2> QED BY <1>3, <1>7, <1>12, <2>1, <2>2 DEF StringTorn
<1> QED BY <1>9, <1>10, <1>11, <1>12 DEF String

\* Numbers.
LEMMA NumberSteady == Typed /\ Number => Steady \/ Aborting
<1> SUFFICES ASSUME Typed, Number PROVE Steady \/ Aborting OBVIOUS
<1>1. /\ phase = "parsing" /\ p # None /\ UNCHANGED <<fromNew, closing>>
      /\ Top.fn \in {"number", "number_resume"} /\ Top.state \in NumberStates
  BY DEF Number, ParsingNumber, Parsing, Looking
<1>2. Top.state \notin Escaping BY <1>1 DEF NumberStates, Escaping
<1>3. Top \in Sane /\ Top.esc = None BY <1>1, <1>2, TopSane, NoEscape
<1>4. CASE \E s \in NumberMoves(Top.state, p) : GoOn(At(s), TRUE)
  <2>1. PICK s \in NumberMoves(Top.state, p) : GoOn(At(s), TRUE) BY <1>4
  <2>2. s \in States \ {"START"} BY <2>1, NumberStaysNumber DEF States
  <2>3. Onward BY <1>1, <1>3, <2>1, <2>2, MovesOn
  <2> QED BY <1>1, <2>3 DEF Steady, Shaped
<1>5. CASE Pause([Top EXCEPT !.fn = "number_resume",
                             !.state = IF @ = "SKIP" THEN "START" ELSE @])
  <2> DEFINE s == IF Top.state = "SKIP" THEN "START" ELSE Top.state
             a == [Top EXCEPT !.fn = "number_resume", !.state = s]
  <2>1. s \in States BY <1>1 DEF States, NumberStates
  <2>2. Pause(a)
    <3>1. [Top EXCEPT !.fn = "number_resume",
                      !.state = IF @ = "SKIP" THEN "START" ELSE @] = a
      BY <1>3 DEF Sane, Parsers
    <3> QED BY <1>5, <3>1
  <2> HIDE DEF s
  <2>3. a \in Sane /\ a.fn = "number_resume" BY <1>3, <2>1 DEF Sane, Parsers, Fns
  <2> HIDE DEF a
  <2> QED BY <1>1, <2>2, <2>3 DEF Steady, Shaped, Away, Digital
<1>6. CASE NumberEnds /\ Leave(FALSE) /\ Reserve
  BY <1>1, <1>6 DEF Steady, Shaped, Back, NumberEnds
<1>7. CASE Fail BY <1>1, <1>7 DEF Steady, Shaped
<1>8. CASE Abort BY <1>1, <1>8 DEF Aborting
<1>9. CASE NumberReads BY <1>4, <1>9 DEF NumberReads
<1>10. CASE NumberPause BY <1>5, <1>10 DEF NumberPause
<1>11. CASE NumberInteger
  BY <1>6, <1>11 DEF NumberInteger, Return, Reserve
<1>12. CASE NumberConverted
  BY <1>6, <1>7, <1>8, <1>12 DEF NumberConverted, Converts, Return, Reserve
<1>13. CASE NumberError BY <1>7, <1>13 DEF NumberError
<1> QED BY <1>9, <1>10, <1>11, <1>12, <1>13 DEF Number

\* A struct that finishes an escape sequence, the parser that is not Steady.
StructEscape == StructReserve \/ StructFinishEscape

\* Its steps have these shapes.
LEMMA StructEscapeIs ==
    ASSUME Typed, StructEscape
    PROVE  /\ phase = "parsing" /\ UNCHANGED <<fromNew, closing>>
           /\ Top.fn = "struct" /\ Entering(Top)
           /\ \/ /\ StructReserve
                 /\ At("FINISH_ESCAPE") \in Sane
                 /\ At("FINISH_ESCAPE").fn = "struct"
                 /\ At("FINISH_ESCAPE").state = "FINISH_ESCAPE"
                 /\ Advance(At("FINISH_ESCAPE"), FALSE) /\ Reserve
              \/ /\ p \notin {None, End, "ws"}
                 /\ \E a \in Sane : a.fn = "struct" /\ GoOn(a, TRUE)
              \/ Fail
              \/ p = End /\ \E a \in Sane : a.fn = "struct" /\ PauseUnconsolidated(a)
<1>1. /\ phase = "parsing" /\ UNCHANGED <<fromNew, closing>> /\ Top.fn = "struct"
      /\ Top.state \in {"RESERVE", "FINISH_ESCAPE"}
  BY DEF StructEscape, StructReserve, StructFinishEscape, Parsing, Looking
<1>2. Top \in Sane BY <1>1, TopSane
<1>3. {"FINISH_ESCAPE", "IN_MEMBER_NAME"} \subseteq Escaping \cap States
  BY DEF Escaping, States
<1>4. CASE StructReserve
  <2>1. /\ At("FINISH_ESCAPE") \in Sane /\ At("FINISH_ESCAPE").fn = "struct"
        /\ At("FINISH_ESCAPE").state = "FINISH_ESCAPE"
    BY <1>1, <1>2, <1>3, StateSane DEF At
  <2>2. Advance(At("FINISH_ESCAPE"), FALSE) /\ Reserve BY <1>4 DEF StructReserve
  <2> QED BY <1>1, <1>4, <2>1, <2>2 DEF Entering
<1>5. CASE p = End /\ PauseUnconsolidated(At("IN_MEMBER_NAME"))
  <2>1. At("IN_MEMBER_NAME") \in Sane /\ At("IN_MEMBER_NAME").fn = "struct"
    BY <1>1, <1>2, <1>3, StateSane DEF At
  <2> QED BY <1>1, <1>5, <2>1 DEF Entering
<1>6. CASE StructFinishEscape /\ Unescape("IN_MEMBER_NAME")
  <2>1. PICK e \in {"U", "UX", "UXX", "UXXX", None} :
           /\ InEscape(e)
           /\ GoOn([Top EXCEPT !.esc = e,
                               !.state = IF e = None THEN "IN_MEMBER_NAME" ELSE @],
                   TRUE)
    BY <1>6 DEF Unescape
  <2> DEFINE n == IF e = None THEN "IN_MEMBER_NAME" ELSE Top.state
             a == [Top EXCEPT !.esc = e, !.state = n]
  <2>2. e \in Escapes /\ n \in Escaping BY <1>1 DEF Escapes, Escaping
  <2>3. GoOn(a, TRUE)
    <3>1. [Top EXCEPT !.esc = e,
                      !.state = IF e = None THEN "IN_MEMBER_NAME" ELSE @] = a
      BY <1>2 DEF Sane, Parsers
    <3> QED BY <2>1, <3>1
  <2> HIDE DEF n
  <2>4. a \in Sane /\ a.fn = "struct" BY <1>1, <1>2, <2>2, EscapeSane
  <2> HIDE DEF a
  <2>5. p \notin {End, "ws"}
    <3>1. p # End /\ Escaped(Top.esc, p) = e BY <2>1 DEF InEscape
    <3>2. e # "bad" BY DEF None
    <3> QED BY <3>1, <3>2, BlankIsBad
  <2>6. p # None BY <1>6 DEF StructFinishEscape, Parsing, Looking
  <2> QED BY <1>1, <2>3, <2>4, <2>5, <2>6 DEF Entering
<1>7. CASE Fail BY <1>1, <1>7 DEF Entering
<1> QED BY <1>4, <1>5, <1>6, <1>7 DEF StructEscape, StructFinishEscape

-----------------------------------------------------------------------------
(***************************************************************************)
(* Types.                                                                  *)
(***************************************************************************)
\* What is to be shown of a step that keeps the types.
LEMMA TypedFrom ==
    ASSUME calls' \in Seq(Sane), fresh' \in Seq(Sane), base' \in Seq(Sane),
           fromNew' \in BOOLEAN, p' \in Chars \cup {None, End},
           scratch' \in Scratches,
           closing' \in {"no", "space", "end"}, phase' \in Phases,
           calls' # <<>> <=> phase' \in {"parsing", "pausing"},
           p' # None => phase' \in {"parsing", "running", "trailing"}
    PROVE  Typed'
<1>1. Seq(Sane) \subseteq Seq(Parsers) BY DEF Sane
<1> QED BY <1>1 DEF Typed, TypeOK

\* Reserving room and consolidating leave sane frames.
LEMMA ReserveTyped ==
    ASSUME Typed, Reserve
    PROVE  fresh' \in Seq(Sane) /\ base' \in Seq(Sane)
<1>1. fresh \in Seq(Sane) /\ base \in Seq(Sane) BY DEF Typed
<1>2. fresh \o base \in Seq(Sane) /\ <<>> \in Seq(Sane) BY <1>1, Joined
<1> QED BY <1>1, <1>2 DEF Reserve, Keep, Consolidate

\* A parser's step keeps the types, whatever its shape.
LEMMA ShapeTyped ==
    ASSUME Typed, phase = "parsing", UNCHANGED <<fromNew, closing>>,
           scratch' \in Scratches,
           \/ \E a \in Sane, c \in BOOLEAN : Advance(a, c) /\ Reserve
           \/ Inward
           \/ \E c \in BOOLEAN : Leave(c) /\ Reserve
           \/ Fail \/ Abort
           \/ \E a \in Sane : Pause(a) \/ PauseUnconsolidated(a) \/ Reinstate(a)
    PROVE  Typed'
<1>1. /\ calls # <<>> /\ Tail(calls) \in Seq(Sane)
      /\ calls \in Seq(Sane) /\ fresh \in Seq(Sane) /\ base \in Seq(Sane)
      /\ fromNew' \in BOOLEAN /\ closing' \in {"no", "space", "end"}
      /\ p \in Chars \cup {None, End} /\ scratch' \in Scratches
  BY TopSane DEF Typed, TypeOK
<1>2. CASE \E a \in Sane, c \in BOOLEAN : Advance(a, c) /\ Reserve
  <2>1. PICK a \in Sane, c \in BOOLEAN : Advance(a, c) /\ Reserve BY <1>2
  <2>2. calls' \in Seq(Sane) /\ calls' # <<>> BY <1>1, <2>1, Pushed DEF Advance
  <2>3. /\ phase' = "parsing" /\ p' \in Chars \cup {None, End}
    BY <1>1, <2>1 DEF Advance
  <2> QED BY <1>1, <2>1, <2>2, <2>3, ReserveTyped, TypedFrom DEF Phases
<1>3. CASE Inward
  <2>1. PICK a \in Sane, t \in AllTypes \cup {None} : Call(a, t) BY <1>3 DEF Inward
  <2>2. ParserOf(t) \in Sane BY ParserOfSane
  <2>3. calls' = <<ParserOf(t), a>> \o Tail(calls) BY <2>1 DEF Call
  <2>4. calls' \in Seq(Sane) /\ calls' # <<>> BY <1>1, <2>2, <2>3
  <2>5. fresh' = fresh /\ base' = base /\ phase' = "parsing" /\ p' = p
    BY <2>1 DEF Call, Keep
  <2> QED BY <1>1, <2>4, <2>5, TypedFrom DEF Phases
<1>4. CASE \E c \in BOOLEAN : Leave(c) /\ Reserve
  <2>1. /\ calls' = Tail(calls) /\ p' \in {None, p} /\ Reserve
        /\ phase' = IF Tail(calls) = <<>> THEN "running" ELSE "parsing"
    BY <1>4 DEF Leave
  <2> QED BY <1>1, <2>1, ReserveTyped, TypedFrom DEF Phases
<1>5. CASE Fail \/ Abort
  <2>1. /\ calls' = <<>> /\ p' = None /\ phase' \in {"failed", "aborted"}
        /\ fresh' = fresh /\ base' = base
    BY <1>5 DEF Fail, Abort, Keep
  <2> QED BY <1>1, <2>1, TypedFrom DEF Phases
<1>6. CASE \E a \in Sane : Pause(a) \/ PauseUnconsolidated(a) \/ Reinstate(a)
  <2>1. PICK a \in Sane : Pause(a) \/ PauseUnconsolidated(a) \/ Reinstate(a)
    BY <1>6
  <2>2. /\ calls' = Tail(calls) /\ p' = None
        /\ phase' = IF Tail(calls) = <<>> THEN "idle" ELSE "pausing"
    BY <2>1 DEF Pause, PauseUnconsolidated, Reinstate, Unwind
  <2>3. fresh' \in Seq(Sane) /\ base' \in Seq(Sane)
    <3>1. /\ <<a>> \in Seq(Sane) /\ Append(fresh, a) \in Seq(Sane)
          /\ <<a>> \o fresh \in Seq(Sane) /\ <<a>> \o base \in Seq(Sane)
          /\ fresh \o base \in Seq(Sane)
      BY <1>1, Pushed, Appended, Joined
    <3> QED BY <1>1, <2>1, <3>1 DEF Pause, PauseUnconsolidated, Reinstate
  <2> QED BY <1>1, <2>2, <2>3, TypedFrom DEF Phases
<1> QED BY <1>2, <1>3, <1>4, <1>5, <1>6

\* A frame resumes as a parser of its own function; one that waits for a value
\* is not in an escape sequence.
LEMMA ResumedSane ==
    ASSUME NEW a \in Sane
    PROVE  /\ Resumed(a) \in Sane /\ Resumed(a).fn = a.fn
           /\ Waits(a) => ~Entering(Resumed(a))
<1>1. CASE a.esc = None
  BY <1>1 DEF Resumed, Waits, Entering
<1>2. CASE a.esc # None
  <2> DEFINE s == IF a.fn = "struct" THEN "RESERVE" ELSE "FINISH_ESCAPE"
  <2>1. s \in Escaping /\ s \in States BY DEF Escaping, States
  <2>2. Resumed(a) = [a EXCEPT !.state = s] BY <1>2 DEF Resumed
  <2>3. Resumed(a) \in Sane /\ Resumed(a).fn = a.fn /\ Resumed(a).state = s
    <3> HIDE DEF s
    <3> QED BY <2>1, <2>2, StateSane
  <2>4. ~Waits(a) BY <1>2 DEF Waits, Sane, Escaping
  <2> QED BY <2>3, <2>4 DEF Entering
<1> QED BY <1>1, <1>2

\* The steps of the innermost parser.
OtherSteps == Initial \/ ValueStart \/ Expect \/ Struct \/ Array \/ String
ParserSteps == OtherSteps \/ Number

\* The actions of all parsers but those of numbers, by shape.
LEMMA OtherStepsAre == Typed /\ OtherSteps => Steady \/ StructEscape
<1> SUFFICES ASSUME Typed, OtherSteps PROVE Steady \/ StructEscape OBVIOUS
<1>1. CASE Struct
  BY <1>1, StructPlainSteady, StructColonSteady, StructInMemberNameSteady
     DEF Struct, StructPlain, StructEscape
<1>2. CASE Initial \/ ValueStart \/ Expect \/ Array \/ String
  BY <1>2, InitialSteady, ValueStartSteady, ExpectSteady, ArraySteady,
     StringSteady
<1> QED BY <1>1, <1>2 DEF OtherSteps

\* The actions of all parsers.
LEMMA ParserStepsAre ==
    Typed /\ ParserSteps => Steady \/ StructEscape \/ Aborting
BY OtherStepsAre, NumberSteady DEF ParserSteps

\* What the parsers do to the scratch text.
LEMMA ParserScratch ==
    ASSUME scratch \in Scratches, ParserSteps PROVE scratch' \in Scratches
<1>1. {"none", "own", "left", "signed", "broken"} \subseteq Scratches
  BY DEF Scratches
<1>2. CASE Initial \/ ValueStart \/ Expect \/ Array \/ String
  BY <1>2 DEF Initial, ValueStart, Expect, Array, ArrayOpen, ArrayElement,
     ArrayComma, String, StringParse, StringFinishEscape, StringResume,
     StringTorn, Parsing
<1>3. CASE Struct
  BY <1>1, <1>3 DEF Struct, StructOpen, StructInMemberName, StructReserve,
     StructFinishEscape, StructMemberName, StructColon, StructMemberValue,
     StructComma, Parsing
<1>4. CASE Number
  BY <1>1, <1>4 DEF Number, NumberReads, NumberPause, TextCut, NumberInteger,
     NumberConverted, NumberError
<1> QED BY <1>2, <1>3, <1>4 DEF ParserSteps, OtherSteps

\* A step of a parser keeps the types.
LEMMA ParserStepsTyped == Typed /\ ParserSteps => Typed'
<1> SUFFICES ASSUME Typed, ParserSteps PROVE Typed' OBVIOUS
<1>3. scratch' \in Scratches BY ParserScratch DEF Typed, TypeOK
<1>1. CASE Steady
  <2>1. phase = "parsing" /\ UNCHANGED <<fromNew, closing>> /\ Shaped
    BY <1>1 DEF Steady
  <2> QED BY <1>3, <2>1, ShapeTyped DEF Shaped, Onward, Back, Away, Again, Digital
<1>2. CASE StructEscape
  <2>1. Keep => Reserve BY DEF Reserve
  <2> QED BY <1>2, <1>3, <2>1, StructEscapeIs, ShapeTyped DEF GoOn
<1>4. CASE Aborting BY <1>3, <1>4, ShapeTyped DEF Aborting
<1> QED BY <1>1, <1>2, <1>4, ParserStepsAre

\* eu_parse_create's frame is typed.
LEMMA InitTyped == Init => Typed
<1> SUFFICES ASSUME Init PROVE Typed OBVIOUS
<1>1. PICK t \in Types : base = <<Parser("initial", t, "START", None)>> BY DEF Init
<1>2. t \in AllTypes \cup {None} /\ None \in AllTypes \cup {None}
  BY TypesAssumption
<1>3. Parser("initial", t, "START", None) \in Sane
  BY <1>2, NewSane DEF Fns, States, NumberStates
<1>4. base \in Seq(Sane) /\ <<>> \in Seq(Sane) BY <1>1, <1>3
<1>5. Seq(Sane) \subseteq Seq(Parsers) BY DEF Sane
<1> QED BY <1>4, <1>5 DEF Init, Typed, TypeOK, Phases, Scratches

\* Every step keeps the types.
LEMMA NextTyped == Typed /\ [Next]_vars => Typed'
<1> SUFFICES ASSUME Typed, [Next]_vars PROVE Typed' OBVIOUS
<1>1. /\ calls \in Seq(Sane) /\ fresh \in Seq(Sane) /\ base \in Seq(Sane)
      /\ fromNew \in BOOLEAN /\ p \in Chars \cup {None, End}
      /\ closing \in {"no", "space", "end"} /\ phase \in Phases
      /\ calls # <<>> <=> phase \in {"parsing", "pausing"}
      /\ p # None => phase \in {"parsing", "running", "trailing"}
      /\ scratch \in Scratches
  BY DEF Typed, TypeOK
<1>2. CASE EuParse BY <1>1, <1>2, TypedFrom DEF EuParse, Phases
<1>3. ASSUME NEW a \in Sane, Resume(a), fromNew' \in BOOLEAN, phase = "running",
             fresh' \in Seq(Sane), base' \in Seq(Sane)
      PROVE  Typed'
  <2>1. calls' = <<Resumed(a)>> /\ phase' = "parsing" /\ p' = p /\ closing' = closing
        /\ scratch' = scratch
    BY <1>3 DEF Resume
  <2>2. calls' \in Seq(Sane) /\ calls' # <<>> BY <1>3, <2>1, ResumedSane
  <2> QED BY <1>1, <1>3, <2>1, <2>2, TypedFrom DEF Phases
<1>4. CASE PopFresh
  <2>1. Head(fresh) \in Sane /\ Tail(fresh) \in Seq(Sane)
    BY <1>1, <1>4, HeadTail DEF PopFresh
  <2> QED BY <1>1, <1>3, <1>4, <2>1 DEF PopFresh
<1>5. CASE PopBase
  <2>1. Head(base) \in Sane /\ Tail(base) \in Seq(Sane)
    BY <1>1, <1>5, HeadTail DEF PopBase
  <2> QED BY <1>1, <1>3, <1>5, <2>1 DEF PopBase
<1>6. CASE RunOk BY <1>1, <1>6, TypedFrom DEF RunOk, Phases
<1>7. CASE Trailing
  <2>1. phase' \in {"idle", "trailing", "failed"} /\ phase = "trailing"
    BY <1>7 DEF Trailing
  <2> QED BY <1>1, <1>7, <2>1, TypedFrom DEF Trailing, Phases
<1>8. CASE SaveCaller
  <2>1. calls # <<>> BY <1>1, <1>8 DEF SaveCaller
  <2>2. Top \in Sane /\ Tail(calls) \in Seq(Sane) BY <1>1, <2>1, HeadTail DEF Top
  <2>3. Append(fresh, Top) \in Seq(Sane) BY <1>1, <2>2, Appended
  <2>4. /\ calls' = Tail(calls) /\ p' = None
        /\ phase' = IF Tail(calls) = <<>> THEN "idle" ELSE "pausing"
        /\ fresh' \in Seq(Sane) /\ base' = base
        /\ fromNew' = fromNew /\ closing' = closing /\ scratch' = scratch
    BY <1>8, <2>3 DEF SaveCaller, PauseUnconsolidated, Unwind
  <2> QED BY <1>1, <2>2, <2>4, TypedFrom DEF Phases
<1>9. CASE Finish
  <2>1. /\ phase' \in {"accepted", "running"} /\ phase = "idle"
        /\ closing' \in {"end", "space"}
    BY <1>9 DEF Finish
  <2> QED BY <1>1, <1>9, <2>1, TypedFrom DEF Finish, Phases
<1>10. CASE FinishResult
  <2>1. phase' \in {"accepted", "incomplete"} /\ phase = "idle"
    BY <1>10 DEF FinishResult
  <2> QED BY <1>1, <1>10, <2>1, TypedFrom DEF FinishResult, Phases
<1>11. CASE LookAhead
  <2>1. p' \in Chars \cup {None, End} /\ closing' \in {"no", "space", "end"}
    BY <1>1, <1>11 DEF LookAhead, NextInput, Chars
  <2> QED BY <1>1, <1>11, <2>1, TypedFrom DEF LookAhead
<1>12. CASE ParserSteps BY <1>12, ParserStepsTyped
<1>13. CASE UNCHANGED vars BY <1>1, <1>13, TypedFrom DEF vars
<1> QED BY <1>2, <1>4, <1>5, <1>6, <1>7, <1>8, <1>9, <1>10, <1>11, <1>12, <1>13
        DEF Next, ParserSteps, OtherSteps, Finished

\* Every variable keeps its type, and parsers are on the C stack exactly while
\* one of them parses or they save themselves.
THEOREM TypeCorrect == Spec => []TypeOK
<1>1. Typed => TypeOK BY DEF Typed
<1> QED BY <1>1, InitTyped, NextTyped, PTL DEF Spec

-----------------------------------------------------------------------------
(***************************************************************************)
(* Frames stay in the order of nesting.  The frames that are resumed when  *)
(* eu_parse_finish's space is read wait for a value, so that the end after *)
(* it is not seen within an escape sequence.                               *)
(***************************************************************************)
IInv ==
    /\ Typed
    /\ InnermostFirst
    /\ phase = "parsing" =>
          /\ Top.fn \in Resumable => Tail(calls) = <<>>
          /\ ~fromNew => fresh = <<>>
          /\ Entering(Top) =>
                /\ p # End
                /\ closing = "end" => Top.state = "FINISH_ESCAPE" /\ p = "ws"
    /\ phase = "pausing" => fresh # <<>>
    /\ phase = "running" =>
          /\ p # End
          /\ closing = "end" => AllWait(fresh \o base)

\* Parsers that wait, in frames, still do so when these are consolidated.
LEMMA ReserveWaits ==
    ASSUME Typed, AllWait(fresh \o base), Reserve
    PROVE  /\ AllWait(fresh' \o base')
           /\ fresh = <<>> => fresh' = <<>>
<1>1. fresh \in Seq(Sane) /\ base \in Seq(Sane) BY DEF Typed
<1>2. CASE Keep BY <1>2 DEF Keep
<1>3. CASE Consolidate
  <2>1. fresh' = <<>> /\ base' = fresh \o base BY <1>3 DEF Consolidate
  <2>2. fresh' \o base' = fresh \o base BY <1>1, <2>1
  <2> QED BY <2>1, <2>2
<1> QED BY <1>2, <1>3 DEF Reserve

\* The rest of parsers that all wait.
LEMMA WaitRest ==
    ASSUME NEW s \in Seq(Sane), AllWait(s), s # <<>>
    PROVE  Waits(Head(s)) /\ AllWait(Tail(s)) /\ Tail(s) \in Seq(Sane)
<1>1. s \in Seq(Parsers) BY DEF Sane
<1> QED BY <1>1, WaitTail, HeadTail

\* A parser that waits is neither resumed from the input's start nor Entering.
LEMMA WaitingIs ==
    ASSUME NEW a, Waits(a) PROVE a.fn \notin Resumable /\ ~Entering(a)
BY DEF Waits, Resumable, Entering

\* What is to be shown of a step to a state that parses,
LEMMA ParsingIInv ==
    ASSUME Typed', phase' = "parsing",
           AllWait(Tail(calls')), AllWait(fresh' \o base'),
           Head(calls').fn \in Resumable => Tail(calls') = <<>>,
           ~fromNew' => fresh' = <<>>,
           Entering(Head(calls')) =>
              /\ p' # End
              /\ closing' = "end" => /\ Head(calls').state = "FINISH_ESCAPE"
                                     /\ p' = "ws"
    PROVE  IInv'
BY DEF IInv, InnermostFirst, Top

\* that pauses,
LEMMA PausingIInv ==
    ASSUME Typed', phase' = "pausing", AllWait(calls'),
           AllWait(Tail(fresh') \o base'), fresh' # <<>>
    PROVE  IInv'
BY DEF IInv, InnermostFirst

\* or in which no parser is on the C stack.
LEMMA SettledIInv ==
    ASSUME Typed', phase' \notin {"parsing", "pausing"},
           fresh' \o base' # <<>> => AllWait(Tail(fresh' \o base')),
           phase' = "running" => /\ p' # End
                                 /\ closing' = "end" => AllWait(fresh' \o base')
    PROVE  IInv'
BY DEF IInv, InnermostFirst

\* A step of a parser that is not within a member name's escape sequence
\* keeps the order of the frames.
LEMMA SteadyIInv == IInv /\ Typed' /\ Steady => IInv'
<1> SUFFICES ASSUME IInv, Typed', Steady PROVE IInv' OBVIOUS
<1>1. /\ phase = "parsing" /\ p # None /\ fromNew' = fromNew /\ closing' = closing
      /\ Shaped
  BY DEF Steady
<1>2. /\ Typed /\ AllWait(Tail(calls)) /\ AllWait(fresh \o base)
      /\ Top.fn \in Resumable => Tail(calls) = <<>>
      /\ ~fromNew => fresh = <<>>
  BY <1>1 DEF IInv, InnermostFirst
<1>3. /\ calls # <<>> /\ Tail(calls) \in Seq(Sane)
      /\ fresh \in Seq(Sane) /\ base \in Seq(Sane)
      /\ fresh \o base \in Seq(Sane)
  BY <1>1, <1>2, TopSane, Joined DEF Typed
<1>4. fresh \o base # <<>> => AllWait(Tail(fresh \o base))
  BY <1>2, <1>3, WaitRest
<1>5. CASE Onward
  <2>1. PICK a \in Sane, c \in BOOLEAN :
           /\ ~Entering(a) /\ (a.fn \in Resumable => Top.fn = a.fn)
           /\ Advance(a, c) /\ Reserve
    BY <1>5 DEF Onward
  <2>2. calls' = <<a>> \o Tail(calls) /\ phase' = "parsing"
    BY <1>1, <2>1 DEF Advance
  <2>3. Head(calls') = a /\ Tail(calls') = Tail(calls) BY <1>3, <2>2, Pushed
  <2> QED BY <1>1, <1>2, <2>1, <2>2, <2>3, ReserveWaits, ParsingIInv
<1>6. CASE Inward
  <2>1. PICK a \in Sane, t \in AllTypes \cup {None} : Waits(a) /\ Call(a, t)
    BY <1>6 DEF Inward
  <2>2. /\ calls' = <<ParserOf(t), a>> \o Tail(calls) /\ phase' = "parsing"
        /\ fresh' = fresh /\ base' = base
    BY <1>1, <2>1 DEF Call, Keep
  <2>3. ParserOf(t) \in Sane /\ ParserOf(t).fn \in {"number", "value"}
    BY ParserOfSane
  <2>4. Head(calls') = ParserOf(t) /\ Tail(calls') = <<a>> \o Tail(calls)
    BY <1>3, <2>1, <2>2, <2>3
  <2>5. AllWait(Tail(calls'))
    <3>1. a \in Parsers /\ Tail(calls) \in Seq(Parsers)
      BY <1>3 DEF Sane
    <3> QED BY <1>2, <2>1, <2>4, <3>1, WaitPushed
  <2>6. Head(calls').fn \notin Resumable /\ ~Entering(Head(calls'))
    BY <2>3, <2>4 DEF Resumable, Entering
  <2> QED BY <1>1, <1>2, <2>2, <2>5, <2>6, ParsingIInv
<1>7. CASE Back
  <2>1. PICK c \in BOOLEAN : (c \/ p # End) /\ Leave(c) /\ Reserve
    BY <1>7 DEF Back
  <2>2. /\ calls' = Tail(calls)
        /\ p' = IF c THEN None ELSE p
        /\ phase' = IF Tail(calls) = <<>> THEN "running" ELSE "parsing"
    BY <1>1, <2>1 DEF Leave
  <2>3. AllWait(fresh' \o base') /\ (fresh = <<>> => fresh' = <<>>)
    BY <1>2, <2>1, ReserveWaits
  <2>4. CASE Tail(calls) = <<>>
    <3>1. p' # End BY <2>1, <2>2 DEF End, None
    <3>2. fresh' \o base' \in Seq(Sane) BY Joined DEF Typed
    <3>3. fresh' \o base' # <<>> => AllWait(Tail(fresh' \o base'))
      BY <2>3, <3>2, WaitRest
    <3> QED BY <2>2, <2>3, <2>4, <3>1, <3>3, SettledIInv
  <2>5. CASE Tail(calls) # <<>>
    <3>1. Waits(Head(calls')) /\ AllWait(Tail(calls'))
      BY <1>2, <1>3, <2>2, <2>5, WaitRest
    <3> QED BY <1>1, <1>2, <2>2, <2>3, <2>5, <3>1, WaitingIs, ParsingIInv
  <2> QED BY <2>4, <2>5
<1>8. CASE Fail
  BY <1>4, <1>8, SettledIInv DEF Fail, Keep
<1>9. CASE Away
  <2>1. PICK a \in Sane : Pause(a) BY <1>9 DEF Away, Digital
  <2>2. /\ calls' = Tail(calls)
        /\ phase' = IF Tail(calls) = <<>> THEN "idle" ELSE "pausing"
        /\ fresh' = <<a>> /\ base' = fresh \o base
    BY <2>1 DEF Pause, Unwind
  <2>3. /\ Tail(fresh') \o base' = fresh \o base
        /\ Tail(fresh' \o base') = fresh \o base
        /\ fresh' # <<>>
    BY <1>3, <2>1, <2>2
  <2> QED BY <1>2, <2>2, <2>3, PausingIInv, SettledIInv
<1>10. CASE Again
  <2>1. PICK a \in Sane : Reinstate(a) BY <1>10 DEF Again, Digital
  <2>2. Tail(calls) = <<>> BY <1>2, <1>10 DEF Again, Digital
  <2>3. phase' = "idle" BY <2>1, <2>2 DEF Reinstate, Unwind
  <2>4. \/ fresh' = <<a>> \o fresh /\ base' = base
        \/ fresh' = fresh /\ fresh = <<>> /\ base' = <<a>> \o base
    BY <1>2, <2>1 DEF Reinstate
  <2>5. Tail(fresh' \o base') = fresh \o base
    <3>1. CASE fresh' = <<a>> \o fresh /\ base' = base
      <4>1. Tail((<<a>> \o fresh) \o base) = fresh \o base
        BY <1>3, <2>1, PushedJoined
      <4> QED BY <3>1, <4>1
    <3>2. CASE fresh' = fresh /\ fresh = <<>> /\ base' = <<a>> \o base
      <4>1. <<a>> \o base \in Seq(Sane) /\ Tail(<<a>> \o base) = base
        BY <1>3, <2>1, Pushed
      <4>2. fresh' \o base' = <<a>> \o base BY <1>3, <3>2, <4>1, Joined
      <4>3. fresh \o base = base BY <1>3, <3>2, Joined
      <4> QED BY <4>1, <4>2, <4>3
    <3> QED BY <2>4, <3>1, <3>2
  <2> QED BY <1>2, <2>3, <2>5, SettledIInv
<1> QED BY <1>1, <1>5, <1>6, <1>7, <1>8, <1>9, <1>10 DEF Shaped

\* A number whose text strtod does not accept stops the program.
LEMMA AbortingIInv == IInv /\ Typed' /\ Aborting => IInv'
<1> SUFFICES ASSUME IInv, Typed', Aborting PROVE IInv' OBVIOUS
<1>1. AllWait(fresh \o base) BY DEF Aborting, IInv, InnermostFirst
<1>2. fresh \in Seq(Sane) /\ base \in Seq(Sane) BY DEF IInv, Typed
<1>3. fresh \o base \in Seq(Sane) BY <1>2, Joined
<1>4. fresh \o base # <<>> => AllWait(Tail(fresh \o base))
  BY <1>1, <1>3, WaitRest
<1> QED BY <1>4, SettledIInv DEF Aborting, Abort, Keep

\* A struct that finishes an escape sequence keeps it where the sequence is not
\* split twice.
LEMMA StructEscapeIInv == IInv /\ Typed' /\ StructEscape => IInv'
<1> SUFFICES ASSUME IInv, Typed', StructEscape PROVE IInv' OBVIOUS
<1>1. /\ Typed /\ phase = "parsing" /\ fromNew' = fromNew /\ closing' = closing
      /\ Top.fn = "struct" /\ Entering(Top)
  BY StructEscapeIs DEF IInv
<1>2. /\ AllWait(Tail(calls)) /\ AllWait(fresh \o base)
      /\ ~fromNew => fresh = <<>>
      /\ p # End
      /\ closing = "end" => Top.state = "FINISH_ESCAPE" /\ p = "ws"
  BY <1>1 DEF IInv, InnermostFirst
<1>3. /\ Tail(calls) \in Seq(Sane) /\ fresh \in Seq(Sane) /\ base \in Seq(Sane)
      /\ fresh \o base \in Seq(Sane)
  BY <1>1, TopSane, Joined DEF Typed
<1>4. CASE /\ StructReserve
           /\ At("FINISH_ESCAPE") \in Sane /\ At("FINISH_ESCAPE").fn = "struct"
           /\ Advance(At("FINISH_ESCAPE"), FALSE) /\ Reserve
  <2> DEFINE a == At("FINISH_ESCAPE")
  <2>1. a \in Sane /\ a.fn = "struct" BY <1>4
  <2>2. calls' = <<a>> \o Tail(calls) /\ phase' = "parsing" /\ p' = p
    BY <1>1, <1>4 DEF Advance
  <2> HIDE DEF a
  <2>3. Head(calls') = a /\ Tail(calls') = Tail(calls)
    BY <1>3, <2>1, <2>2, Pushed
  <2>4. closing # "end" BY <1>2, <1>4 DEF StructReserve
  <2> QED BY <1>1, <1>2, <1>4, <2>1, <2>2, <2>3, <2>4, ReserveWaits, ParsingIInv
          DEF Resumable
<1>5. CASE p \notin {None, End, "ws"} /\ \E a \in Sane : a.fn = "struct" /\ GoOn(a, TRUE)
  <2>1. PICK a \in Sane : a.fn = "struct" /\ GoOn(a, TRUE) BY <1>5
  <2>2. /\ calls' = <<a>> \o Tail(calls) /\ phase' = "parsing" /\ p' = None
        /\ fresh' = fresh /\ base' = base
    BY <1>1, <2>1 DEF GoOn, Advance, Keep
  <2>3. Head(calls') = a /\ Tail(calls') = Tail(calls) BY <1>3, <2>2, Pushed
  <2>4. closing # "end" /\ p' # End BY <1>2, <1>5, <2>2 DEF None, End
  <2> QED BY <1>1, <1>2, <2>1, <2>2, <2>3, <2>4, ParsingIInv DEF Resumable
<1>6. CASE Fail
  <2>1. fresh \o base # <<>> => AllWait(Tail(fresh \o base))
    BY <1>2, <1>3, WaitRest
  <2> QED BY <1>6, <2>1, SettledIInv DEF Fail, Keep
<1> QED BY <1>1, <1>2, <1>4, <1>5, <1>6, StructEscapeIs

\* A frame is resumed.
LEMMA ResumeIInv ==
    ASSUME IInv, Typed', phase = "running", NEW s \in Seq(Sane), s # <<>>,
           s = fresh \o base, Resume(Head(s)), fresh' \o base' = Tail(s),
           ~fromNew' => fresh' = <<>>
    PROVE  IInv'
<1>1. /\ s # <<>> => AllWait(Tail(s))
      /\ p # End
      /\ closing = "end" => AllWait(s)
  BY DEF IInv, InnermostFirst
<1>2. /\ calls' = <<Resumed(Head(s))>> /\ phase' = "parsing"
      /\ p' = p /\ closing' = closing
  BY DEF Resume
<1>3. Head(calls') = Resumed(Head(s)) /\ Tail(calls') = <<>> BY <1>2
<1>4. closing = "end" => ~Entering(Resumed(Head(s)))
  <2>1. Head(s) \in Sane BY HeadTail
  <2>2. closing = "end" => Waits(Head(s)) BY <1>1, WaitRest
  <2> QED BY <2>1, <2>2, ResumedSane
<1>5. AllWait(Tail(calls')) BY <1>3, WaitEmpty
<1>6. p' # End BY <1>1, <1>2
<1> QED BY <1>1, <1>2, <1>3, <1>4, <1>5, <1>6, ParsingIInv

\* The callers of a parser that paused save themselves.
LEMMA SaveCallerIInv == IInv /\ Typed' /\ SaveCaller => IInv'
<1> SUFFICES ASSUME IInv, Typed', SaveCaller PROVE IInv' OBVIOUS
<1>1. /\ phase = "pausing" /\ AllWait(calls) /\ AllWait(Tail(fresh) \o base)
      /\ fresh # <<>> /\ calls # <<>>
      /\ calls \in Seq(Sane) /\ fresh \in Seq(Sane) /\ base \in Seq(Sane)
  BY DEF SaveCaller, IInv, InnermostFirst, Typed, TypeOK
<1>2. /\ calls' = Tail(calls) /\ fresh' = Append(fresh, Top) /\ base' = base
      /\ phase' = IF Tail(calls) = <<>> THEN "idle" ELSE "pausing"
  BY <1>1 DEF SaveCaller, PauseUnconsolidated, Unwind
<1>3. Waits(Top) /\ AllWait(Tail(calls)) BY <1>1, WaitRest DEF Top
<1>4. /\ Top \in Sane /\ Tail(fresh) \in Seq(Sane)
      /\ fresh' \in Seq(Sane) /\ fresh' # <<>>
      /\ Tail(fresh') = Append(Tail(fresh), Top)
  BY <1>1, <1>2, HeadTail, Appended, SMTT(60) DEF Top
<1>5. AllWait(Tail(fresh') \o base')
  <2>1. /\ Tail(fresh) \in Seq(Parsers) /\ base \in Seq(Parsers)
        /\ Top \in Parsers
    BY <1>1, <1>4 DEF Sane
  <2>2. AllWait(Tail(fresh)) /\ AllWait(base) BY <1>1, <2>1, WaitJoined
  <2>3. /\ Append(Tail(fresh), Top) \in Seq(Parsers)
        /\ AllWait(Append(Tail(fresh), Top))
    BY <1>3, <2>1, <2>2, WaitAppended, Appended
  <2> QED BY <1>2, <1>4, <2>1, <2>2, <2>3, WaitJoined
<1>6. Tail(fresh' \o base') = Tail(fresh') \o base'
  <2>1. fresh' \in Seq(Sane) /\ base' \in Seq(Sane) /\ fresh' # <<>>
    BY <1>1, <1>2, <1>4
  <2> QED BY <2>1, Joined
<1> QED BY <1>2, <1>3, <1>4, <1>5, <1>6, PausingIInv, SettledIInv

\* The innermost frame is a fresh one if there is any.
LEMMA InnermostFrame ==
    ASSUME NEW S, NEW s \in Seq(S), NEW t \in Seq(S), s # <<>>
    PROVE  /\ s \o t # <<>> /\ Head(s \o t) = Head(s)
           /\ Tail(s \o t) = Tail(s) \o t
<1>1. s \o t # <<>> /\ Tail(s \o t) = Tail(s) \o t BY Joined
<1>2. s \o t \in Seq(S) /\ Head(s) = s[1] /\ Len(s) > 0 BY Joined
<1>3. (s \o t)[1] = s[1] BY <1>2
<1>4. Head(s \o t) = (s \o t)[1] BY <1>1, <1>2
<1> QED BY <1>1, <1>2, <1>3, <1>4

\* The next character or the end of the input is looked at.
LEMMA LookAheadIInv ==
    ASSUME "escape split twice" \in Avoid, IInv, Typed', LookAhead
    PROVE  IInv'
<1>1. /\ phase \in {"parsing", "trailing"} /\ p = None
      /\ phase = "parsing" => Top.state # "RESERVE"
      /\ calls' = calls /\ fresh' = fresh /\ base' = base /\ fromNew' = fromNew
      /\ phase' = phase
      /\ \/ closing = "no" /\ p' \in NextInput /\ closing' = closing
         \/ closing = "space" /\ p' = "ws" /\ closing' = "end"
         \/ closing = "end" /\ p' = End /\ closing' = closing
  BY DEF LookAhead
<1>2. Typed /\ InnermostFirst BY DEF IInv
<1>3. CASE phase = "trailing"
  BY <1>1, <1>2, <1>3, SettledIInv DEF InnermostFirst
<1>4. CASE phase = "parsing"
  <2>1. ASSUME Entering(Top)
        PROVE  /\ p' # End
               /\ closing' = "end" => Top.state = "FINISH_ESCAPE" /\ p' = "ws"
    <3>1. Top.fn = "struct" /\ Top.state = "FINISH_ESCAPE"
      BY <1>1, <1>4, <2>1 DEF Entering
    <3>2. closing = "end" => p = "ws" BY <1>4, <2>1 DEF IInv
    <3>3. closing # "end" BY <1>1, <3>2 DEF None
    <3>4. ~MayEnd BY <1>4, <3>1 DEF MayEnd
    <3>5. End \notin Chars BY DEF End, Chars, Digits
    <3>6. End \notin NextInput BY <3>4, <3>5 DEF NextInput
    <3> QED BY <1>1, <3>1, <3>3, <3>6 DEF End
  <2>2. /\ AllWait(Tail(calls)) /\ AllWait(fresh \o base)
        /\ Top.fn \in Resumable => Tail(calls) = <<>>
        /\ ~fromNew => fresh = <<>>
    BY <1>4 DEF IInv, InnermostFirst
  <2> QED BY <1>1, <1>4, <2>1, <2>2, ParsingIInv DEF Top
<1> QED BY <1>1, <1>3, <1>4

\* eu_parse_create establishes the invariant.
LEMMA InitIInv == Init => IInv
<1> SUFFICES ASSUME Init PROVE IInv OBVIOUS
<1>1. PICK t \in Types : base = <<Parser("initial", t, "START", None)>> BY DEF Init
<1>2. fresh = <<>> /\ phase = "idle" BY DEF Init
<1>3. Tail(fresh \o base) = <<>> BY <1>1, <1>2
<1> QED BY <1>2, <1>3, InitTyped, WaitEmpty DEF IInv, InnermostFirst

\* Every step preserves it where no chunk ends in such a sequence again.
LEMMA NextIInv ==
    ASSUME "escape split twice" \in Avoid PROVE IInv /\ [Next]_vars => IInv'
<1> SUFFICES ASSUME IInv, [Next]_vars PROVE IInv' OBVIOUS
<1>1. Typed /\ InnermostFirst /\ Typed' BY NextTyped DEF IInv
<1>2. /\ calls \in Seq(Sane) /\ fresh \in Seq(Sane) /\ base \in Seq(Sane)
      /\ phase \in Phases
      /\ p # None => phase \in {"parsing", "running", "trailing"}
      /\ fresh \o base \in Seq(Sane)
  BY <1>1, Joined DEF Typed, TypeOK
<1>3. phase \notin {"parsing", "pausing"} /\ fresh \o base # <<>> =>
         AllWait(Tail(fresh \o base))
  BY <1>1 DEF InnermostFirst
<1>4. CASE EuParse
  <2>1. p' # End BY <1>2, <1>4 DEF EuParse, None, End
  <2> QED BY <1>1, <1>3, <1>4, <2>1, SettledIInv DEF EuParse
<1>5. CASE PopFresh
  <2>1. /\ phase = "running" /\ fresh # <<>> /\ Resume(Head(fresh))
        /\ fresh' = Tail(fresh) /\ fromNew' = TRUE /\ base' = base
    BY <1>5 DEF PopFresh
  <2>2. /\ fresh \o base # <<>> /\ Head(fresh \o base) = Head(fresh)
        /\ Tail(fresh \o base) = fresh' \o base'
    BY <1>2, <2>1, InnermostFrame
  <2> QED BY <1>1, <1>2, <2>1, <2>2, ResumeIInv
<1>6. CASE PopBase
  <2>1. /\ phase = "running" /\ fresh = <<>> /\ base # <<>> /\ Resume(Head(base))
        /\ base' = Tail(base) /\ fresh' = fresh
    BY <1>6 DEF PopBase
  <2>2. base = fresh \o base BY <1>2, <2>1, Joined, ZenonT(60)
  <2>3. Tail(base) = fresh' \o base'
    <3>1. Tail(base) \in Seq(Sane) BY <1>2, <2>1, HeadTail
    <3>2. fresh \o Tail(base) = Tail(base) BY <1>2, <2>1, <3>1, Joined, ZenonT(60)
    <3> QED BY <2>1, <3>2
  <2> QED BY <1>1, <1>2, <2>1, <2>2, <2>3, ResumeIInv
<1>7. CASE RunOk BY <1>1, <1>3, <1>7, SettledIInv DEF RunOk
<1>8. CASE Trailing
  <2>1. /\ phase = "trailing" /\ phase' \in {"idle", "trailing", "failed"}
        /\ fresh' = fresh /\ base' = base
    BY <1>8 DEF Trailing
  <2> QED BY <1>1, <1>3, <2>1, SettledIInv
<1>9. CASE SaveCaller BY <1>1, <1>9, SaveCallerIInv
<1>10. CASE Finish
  <2>1. /\ phase = "idle" /\ fresh' = fresh /\ base' = base /\ p' = p
        /\ \/ phase' = "accepted"
           \/ phase' = "running" /\ closing' = "space"
    BY <1>10 DEF Finish
  <2>2. p' # End BY <1>2, <2>1 DEF None, End
  <2> QED BY <1>1, <1>3, <2>1, <2>2, SettledIInv
<1>11. CASE FinishResult
  <2>1. /\ phase = "idle" /\ phase' \in {"accepted", "incomplete"}
        /\ fresh' = fresh /\ base' = base
    BY <1>11 DEF FinishResult
  <2> QED BY <1>1, <1>3, <2>1, SettledIInv
<1>12. CASE LookAhead BY <1>1, <1>12, LookAheadIInv
<1>13. CASE ParserSteps
  BY <1>1, <1>13, ParserStepsAre, SteadyIInv, StructEscapeIInv, AbortingIInv
<1>14. CASE UNCHANGED vars
  BY <1>1, <1>14 DEF vars, IInv, InnermostFirst, Top
<1> QED BY <1>4, <1>5, <1>6, <1>7, <1>8, <1>9, <1>10, <1>11, <1>12, <1>13, <1>14
        DEF Next, ParserSteps, OtherSteps, Finished

\* Where no chunk ends within a member name's escape sequence that an earlier
\* chunk began, frames stay in the order of nesting: every parser but the
\* innermost waits for a value, and eu_stack_run resumes it when that value is
\* complete.
THEOREM ResumedInnermostFirst ==
    ASSUME "escape split twice" \in Avoid PROVE Spec => []InnermostFirst
<1>1. IInv => InnermostFirst BY DEF IInv
<1> QED BY <1>1, InitIInv, NextIInv, PTL DEF Spec

-----------------------------------------------------------------------------
(***************************************************************************)
(* Numbers are read within the chunk.  A number's parser is Starting only  *)
(* when it is called, which is done at a character, or resumed.  Then the  *)
(* chunk is not empty (which the environment has to see to), or it is the  *)
(* space of eu_parse_finish, behind which only parsers are resumed that    *)
(* wait for a value.                                                       *)
(***************************************************************************)
\* Frames of number parsers are those of number_resume.
Without(fn, s) == \A i \in DOMAIN s : s[i].fn # fn
Kept(s) == Without("number", s)

Numbers ==
    /\ Kept(fresh) /\ Kept(base)
    /\ phase = "parsing" /\ Starting(Top) =>
          /\ p # End
          /\ Top.fn = "number" \/ closing = "end" => p # None

\* No frames.
LEMMA WithoutEmpty == ASSUME NEW fn PROVE Without(fn, <<>>)
BY DEF Without

\* One frame.
LEMMA WithoutOne ==
    ASSUME NEW fn, NEW a \in Sane, a.fn # fn PROVE Without(fn, <<a>>)
BY DEF Without

\* Those of two pauses, an additional one, or all but the innermost.
LEMMA WithoutFrames ==
    ASSUME NEW fn, NEW s \in Seq(Sane), Without(fn, s)
    PROVE  /\ \A t \in Seq(Sane) : Without(fn, t) => Without(fn, s \o t)
           /\ \A a \in Sane : a.fn # fn =>
                 Without(fn, <<a>> \o s) /\ Without(fn, Append(s, a))
           /\ s # <<>> => Head(s).fn # fn /\ Without(fn, Tail(s))
<1>1. ASSUME NEW t \in Seq(Sane), Without(fn, t) PROVE Without(fn, s \o t)
  <2>1. ASSUME NEW i \in DOMAIN (s \o t) PROVE (s \o t)[i].fn # fn
    <3>1. \/ i \in DOMAIN s /\ (s \o t)[i] = s[i]
          \/ i - Len(s) \in DOMAIN t /\ (s \o t)[i] = t[i - Len(s)]
      BY <1>1
    <3> QED BY <1>1, <3>1 DEF Without
  <2> QED BY <2>1 DEF Without
<1>2. ASSUME NEW a \in Sane, a.fn # fn
      PROVE  Without(fn, <<a>> \o s) /\ Without(fn, Append(s, a))
  BY <1>2 DEF Without
<1>3. ASSUME s # <<>> PROVE Head(s).fn # fn /\ Without(fn, Tail(s))
  <2>1. 1 \in DOMAIN s /\ s[1] = Head(s) BY <1>3
  <2>2. ASSUME NEW i \in DOMAIN Tail(s) PROVE Tail(s)[i].fn # fn
    <3>1. i + 1 \in DOMAIN s /\ Tail(s)[i] = s[i + 1] BY <1>3
    <3> QED BY <3>1 DEF Without
  <2> QED BY <2>1, <2>2 DEF Without
<1> QED BY <1>1, <1>2, <1>3

\* A parser that waits for a value is not one of a number.
LEMMA WaitingIsNoNumber ==
    ASSUME NEW a, Waits(a) PROVE a.fn # "number" /\ ~Starting(a)
BY DEF Waits, Starting, Digital

\* Reserving room leaves the frames as they are.
LEMMA ReserveKept ==
    ASSUME Typed, Kept(fresh), Kept(base), Reserve
    PROVE  Kept(fresh') /\ Kept(base')
<1>1. fresh \in Seq(Sane) /\ base \in Seq(Sane) BY DEF Typed
<1>2. Kept(<<>>) /\ Kept(fresh \o base)
  BY <1>1, WithoutEmpty, WithoutFrames DEF Kept
<1> QED BY <1>2 DEF Reserve, Keep, Consolidate

\* A parser pauses, or has its frame put back.
LEMMA PauseKept ==
    ASSUME Typed, Kept(fresh), Kept(base), NEW a \in Sane, a.fn # "number",
           Pause(a) \/ PauseUnconsolidated(a) \/ Reinstate(a)
    PROVE  Numbers'
<1>1. fresh \in Seq(Sane) /\ base \in Seq(Sane) BY DEF Typed
<1>2. /\ Kept(<<a>>) /\ Kept(fresh \o base) /\ Kept(Append(fresh, a))
      /\ Kept(<<a>> \o fresh) /\ Kept(<<a>> \o base)
  BY <1>1, WithoutOne, WithoutFrames DEF Kept
<1>3. Kept(fresh') /\ Kept(base')
  BY <1>2 DEF Pause, PauseUnconsolidated, Reinstate
<1>4. phase' # "parsing"
  BY DEF Pause, PauseUnconsolidated, Reinstate, Unwind
<1> QED BY <1>3, <1>4 DEF Numbers

\* A step of a parser that is not within a member name's escape sequence.
LEMMA SteadyNumbers == IInv /\ Numbers /\ Steady => Numbers'
<1> SUFFICES ASSUME IInv, Numbers, Steady PROVE Numbers' OBVIOUS
<1>1. /\ phase = "parsing" /\ p # None /\ closing' = closing /\ Shaped
      /\ Typed /\ AllWait(Tail(calls)) /\ Kept(fresh) /\ Kept(base)
  BY DEF Steady, IInv, InnermostFirst, Numbers
<1>2. calls # <<>> /\ Tail(calls) \in Seq(Sane) BY <1>1, TopSane
<1>3. CASE Onward
  <2>1. PICK a \in Sane, c \in BOOLEAN :
           /\ c \/ p # End
           /\ Starting(a) => a.fn = "number" /\ ~c
           /\ Advance(a, c) /\ Reserve
    BY <1>3 DEF Onward
  <2>2. calls' = <<a>> \o Tail(calls) /\ p' = IF c THEN None ELSE p
    BY <2>1 DEF Advance
  <2>3. Head(calls') = a BY <1>2, <2>2, Pushed
  <2> QED BY <1>1, <2>1, <2>2, <2>3, ReserveKept DEF Numbers, Top
<1>4. CASE Inward
  BY <1>1, <1>4 DEF Inward, Call, Keep, Numbers
<1>5. CASE Back
  <2>1. PICK c \in BOOLEAN : Leave(c) /\ Reserve BY <1>5 DEF Back
  <2>2. /\ calls' = Tail(calls)
        /\ phase' = "parsing" => Tail(calls) # <<>>
    BY <2>1 DEF Leave
  <2>3. phase' = "parsing" => ~Starting(Head(calls'))
    BY <1>1, <1>2, <2>2, WaitRest, WaitingIsNoNumber
  <2> QED BY <1>1, <2>1, <2>3, ReserveKept DEF Numbers, Top
<1>6. CASE Fail BY <1>1, <1>6 DEF Fail, Keep, Numbers
<1>7. CASE Away BY <1>1, <1>7, PauseKept DEF Away, Digital
<1>8. CASE Again BY <1>1, <1>8, PauseKept DEF Again, Digital
<1> QED BY <1>1, <1>3, <1>4, <1>5, <1>6, <1>7, <1>8 DEF Shaped

\* A struct that finishes an escape sequence.
LEMMA StructEscapeNumbers == IInv /\ Numbers /\ StructEscape => Numbers'
<1> SUFFICES ASSUME IInv, Numbers, StructEscape PROVE Numbers' OBVIOUS
<1>1. Typed /\ phase = "parsing" /\ Kept(fresh) /\ Kept(base)
  BY StructEscapeIs DEF IInv, Numbers
<1>2. Tail(calls) \in Seq(Sane) BY <1>1, TopSane
<1>3. ASSUME NEW a \in Sane, a.fn = "struct", NEW c \in BOOLEAN,
             Advance(a, c), Reserve
      PROVE  Numbers'
  <2>1. calls' = <<a>> \o Tail(calls) BY <1>3 DEF Advance
  <2>2. Head(calls') = a BY <1>2, <1>3, <2>1, Pushed
  <2>3. ~Starting(Head(calls')) BY <1>3, <2>2 DEF Starting, Digital
  <2> QED BY <1>1, <1>3, <2>3, ReserveKept DEF Numbers, Top
<1>4. CASE \E a \in Sane : a.fn = "struct" /\ GoOn(a, TRUE)
  BY <1>3, <1>4 DEF GoOn, Reserve
<1>5. CASE Fail BY <1>1, <1>5 DEF Fail, Keep, Numbers
<1>6. CASE \E a \in Sane : a.fn = "struct" /\ PauseUnconsolidated(a)
  BY <1>1, <1>6, PauseKept
<1>7. CASE /\ At("FINISH_ESCAPE") \in Sane /\ At("FINISH_ESCAPE").fn = "struct"
           /\ Advance(At("FINISH_ESCAPE"), FALSE) /\ Reserve
  BY <1>3, <1>7
<1> QED BY <1>1, <1>4, <1>5, <1>6, <1>7, StructEscapeIs

\* A frame is resumed.
LEMMA ResumeNumbers ==
    ASSUME IInv, phase = "running", NEW s \in Seq(Sane), s # <<>>,
           s = fresh \o base, Resume(Head(s)), Head(s).fn # "number",
           Kept(fresh'), Kept(base')
    PROVE  Numbers'
<1>1. p # End /\ (closing = "end" => AllWait(s)) BY DEF IInv
<1>2. /\ calls' = <<Resumed(Head(s))>> /\ p' = p /\ closing' = closing
  BY DEF Resume
<1>3. Head(calls') = Resumed(Head(s)) BY <1>2
<1>4. Head(s) \in Sane BY HeadTail
<1>5. Resumed(Head(s)).fn = Head(s).fn BY <1>4, ResumedSane
<1>6. closing = "end" => ~Starting(Resumed(Head(s)))
  <2>1. closing = "end" => Waits(Head(s)) BY <1>1, WaitRest
  <2> QED BY <1>5, <2>1 DEF Waits, Starting, Digital
<1> QED BY <1>1, <1>2, <1>3, <1>5, <1>6 DEF Numbers, Top

\* Every step keeps it where chunks before a number are not empty.
LEMMA NextNumbers ==
    ASSUME "empty chunk before number" \in Avoid
    PROVE  IInv /\ Numbers /\ [Next]_vars => Numbers'
<1> SUFFICES ASSUME IInv, Numbers, [Next]_vars PROVE Numbers' OBVIOUS
<1>1. /\ Typed /\ Kept(fresh) /\ Kept(base)
      /\ calls \in Seq(Sane) /\ fresh \in Seq(Sane) /\ base \in Seq(Sane)
      /\ fresh \o base \in Seq(Sane)
  BY Joined DEF IInv, Typed, Numbers
<1>2. CASE EuParse \/ RunOk \/ Trailing \/ Finish \/ FinishResult
  BY <1>1, <1>2 DEF EuParse, RunOk, Trailing, Finish, FinishResult, Numbers
<1>3. CASE PopFresh
  <2>1. /\ phase = "running" /\ fresh # <<>> /\ Resume(Head(fresh))
        /\ fresh' = Tail(fresh) /\ base' = base
    BY <1>3 DEF PopFresh
  <2>2. fresh \o base # <<>> /\ Head(fresh \o base) = Head(fresh)
    BY <1>1, <2>1, InnermostFrame
  <2>3. Head(fresh).fn # "number" /\ Kept(fresh') BY <1>1, <2>1, WithoutFrames DEF Kept
  <2> QED BY <1>1, <2>1, <2>2, <2>3, ResumeNumbers
<1>4. CASE PopBase
  <2>1. /\ phase = "running" /\ fresh = <<>> /\ base # <<>> /\ Resume(Head(base))
        /\ base' = Tail(base) /\ fresh' = fresh
    BY <1>4 DEF PopBase
  <2>2. base = fresh \o base BY <1>1, <2>1, Joined, ZenonT(60)
  <2>3. Head(base).fn # "number" /\ Kept(base') BY <1>1, <2>1, WithoutFrames DEF Kept
  <2> QED BY <1>1, <2>1, <2>2, <2>3, ResumeNumbers
<1>5. CASE SaveCaller
  <2>1. phase = "pausing" /\ AllWait(calls) /\ calls # <<>>
    BY <1>1, <1>5 DEF SaveCaller, IInv, InnermostFirst, Typed, TypeOK
  <2>2. Top \in Sane /\ Waits(Top) BY <1>1, <2>1, HeadTail, WaitRest DEF Top
  <2> QED BY <1>1, <1>5, <2>2, WaitingIsNoNumber, PauseKept DEF SaveCaller
<1>6. CASE LookAhead
  <2>1. /\ p = None /\ phase' = phase /\ calls' = calls
        /\ fresh' = fresh /\ base' = base
        /\ \/ closing = "no" /\ p' \in NextInput
           \/ closing = "space" /\ p' = "ws"
           \/ closing = "end"
    BY <1>6 DEF LookAhead
  <2>2. ASSUME phase = "parsing", Starting(Top) PROVE p' \notin {End, None}
    <3>1. Top.fn # "number" /\ closing # "end" BY <2>1, <2>2 DEF Numbers
    <3>2. ~MayEnd BY <2>2, <3>1 DEF MayEnd, Starting, Digital
    <3>3. End \notin Chars /\ None \notin Chars BY DEF End, None, Chars, Digits
    <3>4. End \notin NextInput /\ None \notin NextInput
      BY <3>2, <3>3 DEF NextInput
    <3> QED BY <2>1, <3>1, <3>4 DEF End, None
  <2> QED BY <1>1, <2>1, <2>2 DEF Numbers, Top
<1>7. CASE ParserSteps
  <2>1. CASE Aborting BY <1>1, <2>1 DEF Aborting, Abort, Keep, Numbers
  <2> QED BY <1>1, <1>7, <2>1, ParserStepsAre, SteadyNumbers, StructEscapeNumbers
<1>8. CASE UNCHANGED vars BY <1>1, <1>8 DEF vars, Numbers, Top
<1> QED BY <1>2, <1>3, <1>4, <1>5, <1>6, <1>7, <1>8
        DEF Next, ParserSteps, OtherSteps, Finished

\* The number parser never reads *p at the end of the input, where no chunk is
\* empty that comes before a number, and no escape sequence is split twice.
THEOREM NumbersReadInput ==
    ASSUME "empty chunk before number" \in Avoid, "escape split twice" \in Avoid
    PROVE  Spec => []ReadsOnlyInput
<1>1. Init => Numbers
  <2> SUFFICES ASSUME Init PROVE Numbers OBVIOUS
  <2>1. PICK t \in Types : base = <<Parser("initial", t, "START", None)>> BY DEF Init
  <2>2. fresh = <<>> /\ phase = "idle" BY DEF Init
  <2> DEFINE a == Parser("initial", t, "START", None)
  <2>3. a \in Sane /\ a.fn # "number"
    <3>1. t \in AllTypes \cup {None} /\ None \in AllTypes \cup {None}
      BY TypesAssumption
    <3>2. a \in Sane BY <3>1, NewSane DEF Fns, States, NumberStates
    <3> QED BY <3>2 DEF Parser
  <2> HIDE DEF a
  <2>4. Kept(<<>>) BY WithoutEmpty DEF Kept
  <2>5. Kept(<<a>>) BY <2>3, WithoutOne DEF Kept
  <2>6. Kept(fresh) /\ Kept(base) BY <2>1, <2>2, <2>4, <2>5 DEF a
  <2> QED BY <2>2, <2>6 DEF Numbers
<1>2. Numbers => ReadsOnlyInput BY DEF Numbers, Starting, ReadsOnlyInput, Digital
<1> QED BY <1>1, <1>2, InitIInv, NextIInv, NextNumbers, PTL DEF Spec
-----------------------------------------------------------------------------
(***************************************************************************)
(* What strtod is given is the text of one number.  An integer that was    *)
(* cut leaves its text when it is complete, but then it is no longer on    *)
(* the C stack, and no frame is a number's: frames wait for values.  So a  *)
(* number that is resumed has no such text in front of its own unless it   *)
(* was paused in the space before it.                                      *)
(***************************************************************************)
Clean == scratch \in {"none", "own"}
Unresumed(s) == Without("number_resume", s)

Alone ==
    /\ scratch \notin {"signed", "broken"} /\ phase # "aborted"
    /\ closing = "end" \/ Clean \/ (Unresumed(fresh) /\ Unresumed(base))
    /\ phase = "parsing" =>
          /\ Top.fn = "number_resume" => Clean
          /\ Top.fn \in Digital /\ Top.state = "SKIP" /\ p = End =>
                closing = "end" \/ Clean

\* Frames that wait for a value are no numbers'.
LEMMA WaitingUnresumed ==
    ASSUME NEW s \in Seq(Sane), NEW t \in Seq(Sane), AllWait(s \o t)
    PROVE  Unresumed(s) /\ Unresumed(t)
<1>1. s \in Seq(Parsers) /\ t \in Seq(Parsers) BY DEF Sane
<1>2. AllWait(s) /\ AllWait(t) BY <1>1, WaitJoined
<1> QED BY <1>2 DEF Unresumed, Without, AllWait, Waits

\* The frames while a parser parses.
LEMMA ParsingUnresumed ==
    ASSUME IInv, phase = "parsing"
    PROVE  Typed /\ Unresumed(fresh) /\ Unresumed(base)
BY WaitingUnresumed DEF IInv, Typed, InnermostFirst

\* What is to be shown of a step to a state that parses,
LEMMA ParsingAlone ==
    ASSUME Unresumed(fresh'), Unresumed(base'), phase' = "parsing",
           scratch' \in {"none", "own", "left"},
           Head(calls').fn = "number_resume" => Clean',
           p' = End => Head(calls').fn \notin Digital
    PROVE  Alone'
BY DEF Alone, Top

\* or to one that does not.
LEMMA SettledAlone ==
    ASSUME phase' \notin {"parsing", "aborted"},
           scratch' \in {"none", "own", "left"},
           closing' = "end" \/ Clean' \/ (Unresumed(fresh') /\ Unresumed(base'))
    PROVE  Alone'
BY DEF Alone

\* Reserving room leaves the frames as they are.
LEMMA ReserveUnresumed ==
    ASSUME Typed, Unresumed(fresh), Unresumed(base), Reserve
    PROVE  Unresumed(fresh') /\ Unresumed(base')
<1>1. fresh \in Seq(Sane) /\ base \in Seq(Sane) BY DEF Typed
<1>2. Unresumed(<<>>) /\ Unresumed(fresh \o base)
  BY <1>1, WithoutEmpty, WithoutFrames DEF Unresumed
<1> QED BY <1>2 DEF Reserve, Keep, Consolidate

\* A parser that is not a number's pauses, or has its frame put back.
LEMMA PauseUnresumed ==
    ASSUME Typed, Unresumed(fresh), Unresumed(base),
           NEW a \in Sane, a.fn # "number_resume",
           Pause(a) \/ PauseUnconsolidated(a) \/ Reinstate(a)
    PROVE  Unresumed(fresh') /\ Unresumed(base')
<1>1. fresh \in Seq(Sane) /\ base \in Seq(Sane) BY DEF Typed
<1>2. /\ Unresumed(<<a>>) /\ Unresumed(fresh \o base)
      /\ Unresumed(Append(fresh, a))
      /\ Unresumed(<<a>> \o fresh) /\ Unresumed(<<a>> \o base)
  BY <1>1, WithoutOne, WithoutFrames DEF Unresumed
<1> QED BY <1>2 DEF Pause, PauseUnconsolidated, Reinstate

\* Going on, where only a resumed number does so as one.
LEMMA OnwardAlone ==
    ASSUME IInv, phase = "parsing", scratch' \in {"none", "own", "left"},
           Top.fn = "number_resume" => Clean', Onward
    PROVE  Alone'
<1>1. /\ Typed /\ Unresumed(fresh) /\ Unresumed(base)
      /\ Tail(calls) \in Seq(Sane)
  BY ParsingUnresumed, TopSane
<1>2. PICK a \in Sane, c \in BOOLEAN :
         /\ c \/ p # End
         /\ a.fn \in Resumable => Top.fn = a.fn
         /\ Advance(a, c) /\ Reserve
  BY DEF Onward
<1>3. /\ calls' = <<a>> \o Tail(calls) /\ p' = IF c THEN None ELSE p
      /\ phase' = "parsing"
  BY <1>2 DEF Advance
<1>4. Head(calls') = a BY <1>1, <1>2, <1>3, Pushed
<1>5. p' # End BY <1>2, <1>3 DEF None, End
<1>6. a.fn = "number_resume" => Clean' BY <1>2 DEF Resumable
<1>7. Unresumed(fresh') /\ Unresumed(base') BY <1>1, <1>2, ReserveUnresumed
<1> QED BY <1>3, <1>4, <1>5, <1>6, <1>7, ParsingAlone

\* Calling.
LEMMA InwardAlone ==
    ASSUME IInv, phase = "parsing", scratch' \in {"none", "own", "left"}, Inward
    PROVE  Alone'
<1>1. /\ Unresumed(fresh) /\ Unresumed(base) /\ Tail(calls) \in Seq(Sane)
  BY ParsingUnresumed, TopSane
<1>2. PICK a \in Sane, t \in AllTypes \cup {None} : p # End /\ Call(a, t)
  BY DEF Inward
<1>3. /\ calls' = <<ParserOf(t), a>> \o Tail(calls) /\ p' = p
      /\ phase' = "parsing" /\ fresh' = fresh /\ base' = base
  BY <1>2 DEF Call, Keep
<1>4. ParserOf(t) \in Sane /\ ParserOf(t).fn \in {"number", "value"}
  BY ParserOfSane
<1>5. Head(calls') = ParserOf(t) BY <1>1, <1>2, <1>3, <1>4
<1> QED BY <1>1, <1>2, <1>3, <1>4, <1>5, ParsingAlone

\* Returning.
LEMMA BackAlone ==
    ASSUME IInv, phase = "parsing", scratch' \in {"none", "own", "left"}, Back
    PROVE  Alone'
<1>1. /\ Typed /\ Unresumed(fresh) /\ Unresumed(base)
      /\ AllWait(Tail(calls)) /\ Tail(calls) \in Seq(Sane)
  BY ParsingUnresumed, TopSane DEF IInv, InnermostFirst
<1>2. PICK c \in BOOLEAN : (c \/ p # End) /\ Leave(c) /\ Reserve BY DEF Back
<1>3. /\ calls' = Tail(calls) /\ p' = IF c THEN None ELSE p
      /\ phase' = IF Tail(calls) = <<>> THEN "running" ELSE "parsing"
  BY <1>2 DEF Leave
<1>4. Unresumed(fresh') /\ Unresumed(base') BY <1>1, <1>2, ReserveUnresumed
<1>5. CASE Tail(calls) = <<>> BY <1>3, <1>4, <1>5, SettledAlone
<1>6. CASE Tail(calls) # <<>>
  <2>1. Waits(Head(calls')) BY <1>1, <1>3, <1>6, WaitRest
  <2>2. p' # End BY <1>2, <1>3 DEF None, End
  <2> QED BY <1>3, <1>4, <1>6, <2>1, <2>2, ParsingAlone DEF Waits
<1> QED BY <1>5, <1>6

\* The other parsers leave the scratch text alone, or it is their own, or they
\* reset it.
LEMMA OtherScratch ==
    ASSUME OtherSteps
    PROVE  scratch' \in {scratch, "own", "none"} /\ Top.fn \notin Digital
<1>1. CASE Initial \/ ValueStart \/ Expect \/ Array \/ String
  BY <1>1 DEF Initial, ValueStart, Expect, Array, ArrayOpen, ArrayElement,
     ArrayComma, String, StringParse, StringFinishEscape, StringResume,
     StringTorn, Parsing, Looking, Digital
<1>2. CASE Struct
  BY <1>2 DEF Struct, StructOpen, StructInMemberName, StructReserve,
     StructFinishEscape, StructMemberName, StructColon, StructMemberValue,
     StructComma, Parsing, Looking, Digital
<1> QED BY <1>1, <1>2 DEF OtherSteps

\* A step of one of them.
LEMMA OtherAlone == IInv /\ Alone /\ OtherSteps => Alone'
<1> SUFFICES ASSUME IInv, Alone, OtherSteps PROVE Alone' OBVIOUS
<1>1. scratch' \in {"none", "own", "left"} /\ Top.fn \notin Digital
  <2>1. scratch \in {"none", "own", "left"}
    BY DEF IInv, Typed, TypeOK, Scratches, Alone
  <2> QED BY <2>1, OtherScratch
<1>2. Typed BY DEF IInv
<1>3. phase = "parsing" BY <1>2, OtherStepsAre, StructEscapeIs DEF Steady
<1>4. Unresumed(fresh) /\ Unresumed(base) BY <1>3, ParsingUnresumed
<1>5. CASE Fail BY <1>1, <1>4, <1>5, SettledAlone DEF Fail, Keep
<1>6. ASSUME NEW a \in Sane, a.fn # "number_resume",
             Pause(a) \/ PauseUnconsolidated(a) \/ Reinstate(a)
      PROVE  Alone'
  <2>1. Unresumed(fresh') /\ Unresumed(base')
    BY <1>2, <1>4, <1>6, PauseUnresumed
  <2>2. phase' \notin {"parsing", "aborted"}
    BY <1>6 DEF Pause, PauseUnconsolidated, Reinstate, Unwind
  <2> QED BY <1>1, <2>1, <2>2, SettledAlone
<1>7. CASE Steady
  <2>1. CASE Onward BY <1>1, <1>3, <2>1, OnwardAlone DEF Digital
  <2>2. CASE Inward BY <1>1, <1>3, <2>2, InwardAlone
  <2>3. CASE Back BY <1>1, <1>3, <2>3, BackAlone
  <2>4. CASE Away \/ Again
    <3>1. PICK a \in Sane : a.fn # "number_resume" /\ (Pause(a) \/ Reinstate(a))
      BY <1>1, <2>4 DEF Away, Again, Digital
    <3> QED BY <1>6, <3>1
  <2> QED BY <1>5, <1>7, <2>1, <2>2, <2>3, <2>4 DEF Steady, Shaped
<1>8. CASE StructEscape
  <2>1. Tail(calls) \in Seq(Sane) BY <1>2, <1>3, TopSane
  <2>2. ASSUME NEW a \in Sane, a.fn = "struct", NEW c \in BOOLEAN,
               Advance(a, c), Reserve
        PROVE  Alone'
    <3>1. calls' = <<a>> \o Tail(calls) /\ phase' = "parsing"
      BY <1>3, <2>2 DEF Advance
    <3>2. Head(calls') = a BY <2>1, <2>2, <3>1, Pushed
    <3>3. Unresumed(fresh') /\ Unresumed(base')
      BY <1>2, <1>4, <2>2, ReserveUnresumed
    <3> QED BY <1>1, <2>2, <3>1, <3>2, <3>3, ParsingAlone DEF Digital
  <2>3. CASE \E a \in Sane : a.fn = "struct" /\ GoOn(a, TRUE)
    BY <2>2, <2>3 DEF GoOn, Reserve
  <2>4. CASE \E a \in Sane : a.fn = "struct" /\ PauseUnconsolidated(a)
    BY <1>6, <2>4
  <2>5. CASE /\ At("FINISH_ESCAPE") \in Sane /\ At("FINISH_ESCAPE").fn = "struct"
             /\ Advance(At("FINISH_ESCAPE"), FALSE) /\ Reserve
    BY <2>2, <2>5
  <2> QED BY <1>2, <1>5, <1>8, <2>3, <2>4, <2>5, StructEscapeIs
<1> QED BY <1>2, <1>7, <1>8, OtherStepsAre

\* A step of a number.
LEMMA NumberAlone == IInv /\ Alone /\ Number => Alone'
<1> SUFFICES ASSUME IInv, Alone, Number PROVE Alone' OBVIOUS
<1>1. /\ phase = "parsing" /\ p # None /\ closing' = closing
      /\ Top.fn \in Digital /\ Top.state \in NumberStates
  BY DEF Number, ParsingNumber, Looking, Digital
<1>2. /\ Typed /\ Unresumed(fresh) /\ Unresumed(base)
  BY <1>1, ParsingUnresumed
<1>3. /\ scratch \in {"none", "own", "left"}
      /\ IsResumed => Clean
      /\ Top.state = "SKIP" /\ p = End => closing = "end" \/ Clean
  BY <1>1, <1>2 DEF Typed, TypeOK, Scratches, Alone, IsResumed
<1>4. Top \in Sane /\ Tail(calls) \in Seq(Sane) BY <1>1, <1>2, TopSane
<1>5. CASE NumberReads
  <2>1. PICK s \in NumberMoves(Top.state, p) : GoOn(At(s), TRUE)
    BY <1>5 DEF NumberReads
  <2>2. scratch' = scratch BY <1>3, <1>5 DEF NumberReads, Clean
  <2>3. At(s) \in Sane /\ At(s).fn = Top.fn
    <3>1. s \in NumberStates BY <2>1, NumberStaysNumber
    <3>2. s \in States BY <3>1 DEF States
    <3>3. Top.esc = None BY <1>1, <1>2, NoEscape DEF NumberStates, Escaping
    <3> QED BY <1>4, <3>2, <3>3, StateSane DEF At
  <2>4. /\ calls' = <<At(s)>> \o Tail(calls) /\ p' = None /\ phase' = "parsing"
        /\ fresh' = fresh /\ base' = base
    BY <1>1, <2>1 DEF GoOn, Advance, Keep
  <2>5. Head(calls') = At(s) BY <1>4, <2>3, <2>4, Pushed
  <2>6. At(s).fn = "number_resume" => Clean'
    BY <1>3, <2>2, <2>3 DEF IsResumed, Clean
  <2> QED BY <1>2, <1>3, <2>2, <2>4, <2>5, <2>6, ParsingAlone DEF None, End
<1>6. CASE NumberPause
  <2>1. phase' \notin {"parsing", "aborted"}
    BY <1>6 DEF NumberPause, Pause, Unwind
  <2>2. CASE Top.state = "SKIP"
    <3>1. p = End /\ scratch' = scratch BY <1>6, <2>2 DEF NumberPause
    <3> QED BY <1>1, <1>3, <2>1, <2>2, <3>1, SettledAlone DEF Clean
  <2>3. CASE Top.state # "SKIP"
    <3>1. scratch' = TextCut BY <1>6, <2>3 DEF NumberPause
    <3>2. TextCut = "own"
      BY <1>1, <1>3 DEF TextCut, Digital, IsResumed, Clean
    <3> QED BY <2>1, <3>1, <3>2, SettledAlone DEF Clean
  <2> QED BY <2>2, <2>3
<1>7. ASSUME NumberEnds, Leave(FALSE), Reserve,
             scratch' \in {"none", "own", "left"}
      PROVE  Alone'
  BY <1>1, <1>7, BackAlone DEF Back, NumberEnds
<1>8. CASE NumberInteger
  <2>1. scratch' \in {"none", "own", "left"} BY <1>3, <1>8 DEF NumberInteger
  <2> QED BY <1>7, <1>8, <2>1 DEF NumberInteger, Return, Reserve
<1>9. CASE Fail /\ scratch' = scratch
  BY <1>2, <1>3, <1>9, SettledAlone DEF Fail, Keep
<1>10. CASE NumberConverted
  <2>1. ~(IsResumed /\ scratch \in {"signed", "broken"}) BY <1>3
  <2> QED BY <1>3, <1>7, <1>9, <1>10, <2>1
          DEF NumberConverted, Converts, Return, Reserve
<1>11. CASE NumberError BY <1>9, <1>11 DEF NumberError
<1> QED BY <1>5, <1>6, <1>8, <1>10, <1>11 DEF Number

\* A frame is resumed.
LEMMA ResumeAlone ==
    ASSUME IInv, IInv', Alone, phase = "running", NEW s \in Seq(Sane), s # <<>>,
           s = fresh \o base, Resume(Head(s)),
           Head(s).fn = "number_resume" =>
              ~(Unresumed(fresh) /\ Unresumed(base))
    PROVE  Alone'
<1>1. /\ calls' = <<Resumed(Head(s))>> /\ phase' = "parsing"
      /\ p' = p /\ scratch' = scratch
  BY DEF Resume
<1>2. p # End /\ (closing = "end" => AllWait(s)) BY DEF IInv
<1>3. Head(calls').fn = Head(s).fn BY <1>1, HeadTail, ResumedSane
<1>4. Unresumed(fresh') /\ Unresumed(base')
  BY <1>1, WaitingUnresumed DEF IInv, Typed, InnermostFirst
<1>5. scratch \in {"none", "own", "left"}
  BY DEF IInv, Typed, TypeOK, Scratches, Alone
<1>6. ASSUME Head(s).fn = "number_resume" PROVE Clean'
  <2>1. closing # "end" BY <1>2, <1>6, WaitRest DEF Waits
  <2>2. Clean BY <1>6, <2>1 DEF Alone
  <2> QED BY <1>1, <2>2 DEF Clean
<1> QED BY <1>1, <1>2, <1>3, <1>4, <1>5, <1>6, ParsingAlone

\* Every step keeps it where no chunk ends in the space between such an
\* integer and a number.
LEMMA NextAlone ==
    ASSUME "space after cut integer" \in Avoid
    PROVE  IInv /\ IInv' /\ Alone /\ [Next]_vars => Alone'
<1> SUFFICES ASSUME IInv, IInv', Alone, [Next]_vars PROVE Alone' OBVIOUS
<1>1. /\ Typed /\ fresh \in Seq(Sane) /\ base \in Seq(Sane)
      /\ fresh \o base \in Seq(Sane)
      /\ scratch \in {"none", "own", "left"}
      /\ closing = "end" \/ Clean \/ (Unresumed(fresh) /\ Unresumed(base))
  BY Joined DEF IInv, Typed, TypeOK, Scratches, Alone
<1>2. CASE EuParse \/ RunOk \/ Trailing \/ Finish \/ FinishResult
  <2>1. /\ phase' \notin {"parsing", "aborted"}
        /\ fresh' = fresh /\ base' = base /\ scratch' = scratch
        /\ closing = "end" => closing' = "end"
    BY <1>2 DEF EuParse, RunOk, Trailing, Finish, FinishResult
  <2> QED BY <1>1, <2>1, SettledAlone DEF Clean
<1>3. CASE PopFresh
  <2>1. phase = "running" /\ fresh # <<>> /\ Resume(Head(fresh))
    BY <1>3 DEF PopFresh
  <2>2. fresh \o base # <<>> /\ Head(fresh \o base) = Head(fresh)
    BY <1>1, <2>1, InnermostFrame
  <2>3. Head(fresh).fn = "number_resume" => ~Unresumed(fresh)
    BY <1>1, <2>1, WithoutFrames DEF Unresumed
  <2> QED BY <1>1, <2>1, <2>2, <2>3, ResumeAlone
<1>4. CASE PopBase
  <2>1. phase = "running" /\ fresh = <<>> /\ base # <<>> /\ Resume(Head(base))
    BY <1>4 DEF PopBase
  <2>2. base = fresh \o base BY <1>1, <2>1, Joined, ZenonT(60)
  <2>3. Head(base).fn = "number_resume" => ~Unresumed(base)
    BY <1>1, <2>1, WithoutFrames DEF Unresumed
  <2> QED BY <1>1, <2>1, <2>2, <2>3, ResumeAlone
<1>5. CASE SaveCaller
  <2>1. phase = "pausing" /\ AllWait(calls) /\ calls # <<>> /\ calls \in Seq(Sane)
    BY <1>5 DEF SaveCaller, IInv, InnermostFirst, Typed, TypeOK
  <2>2. Top \in Sane /\ Waits(Top) BY <2>1, HeadTail, WaitRest DEF Top
  <2>3. /\ PauseUnconsolidated(Top) /\ closing' = closing /\ scratch' = scratch
        /\ phase' \notin {"parsing", "aborted"}
    BY <1>5 DEF SaveCaller, PauseUnconsolidated, Unwind
  <2>4. Unresumed(fresh) /\ Unresumed(base) =>
           Unresumed(fresh') /\ Unresumed(base')
    BY <1>1, <2>2, <2>3, PauseUnresumed DEF Waits
  <2> QED BY <1>1, <2>3, <2>4, SettledAlone DEF Clean
<1>6. CASE LookAhead
  <2>1. /\ p = None /\ phase' = phase /\ calls' = calls
        /\ fresh' = fresh /\ base' = base /\ scratch' = scratch
        /\ \/ closing = "no" /\ p' \in NextInput /\ closing' = closing
           \/ closing = "space" /\ p' = "ws" /\ closing' = "end"
           \/ closing = "end" /\ p' = End /\ closing' = closing
    BY <1>6 DEF LookAhead
  <2>2. ASSUME phase = "parsing", Top.state = "SKIP", p' = End,
               closing' # "end"
        PROVE  Clean
    <3>1. End \notin Chars /\ End # "ws" BY DEF End, Chars, Digits
    <3>2. MayEnd BY <2>1, <2>2, <3>1 DEF NextInput
    <3>3. scratch # "left" BY <2>2, <3>2 DEF MayEnd
    <3> QED BY <1>1, <3>3 DEF Clean
  <2> QED BY <1>1, <2>1, <2>2 DEF Alone, Clean, Top
<1>7. CASE ParserSteps
  BY <1>7, OtherAlone, NumberAlone DEF ParserSteps
<1>8. CASE UNCHANGED vars BY <1>8 DEF vars, Alone, Clean, Top
<1> QED BY <1>2, <1>3, <1>4, <1>5, <1>6, <1>7, <1>8
        DEF Next, ParserSteps, OtherSteps, Finished

\* strtod is given the text of one number and reads to its end, where no chunk
\* ends in the space between an integer that was cut and a number, and no
\* escape sequence is split twice.
THEOREM NumbersConvertAlone ==
    ASSUME "space after cut integer" \in Avoid, "escape split twice" \in Avoid
    PROVE  Spec => [](ConvertsOneNumber /\ NeverAborts)
<1>1. Init => Alone BY DEF Init, Alone, Clean
<1>2. Alone => ConvertsOneNumber /\ NeverAborts
  BY DEF Alone, Clean, ConvertsOneNumber, IsResumed, NeverAborts
<1> QED BY <1>1, <1>2, InitIInv, NextIInv, NextAlone, PTL DEF Spec

=============================================================================
