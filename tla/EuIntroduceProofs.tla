------------------------- MODULE EuIntroduceProofs -------------------------
(***************************************************************************)
(* Metadata is made once for each type and linked as the descriptors say,  *)
(* for all types, however they refer to each other, and whatever           *)
(* allocations fail.                                                       *)
(***************************************************************************)
EXTENDS EuIntroduce, SequenceTheorems, TLAPS

\* A descriptor goes with its type.
KindFits(d) == \/ d.form = "array" /\ types[d.of].kind = "array"
               \/ d.form \in {"struct", "struct_ptr"} /\ types[d.of].kind = "struct"

\* p is metadata for the descriptor d, published or not, in the memory md.
GoodLink(d, p, md) ==
    \/ d.form = "shim" /\ p = Shim
    \/ /\ d.form \in Forms /\ p = Metadata(d, p.block)
       /\ p.block \in DOMAIN md /\ md[p.block].of = d.of

\* The link that an activation waits for, and its descriptor.
Reached(c, md) == Len(md[c.block].links) + 1
Awaited(c, md) == Links(c.of)[Reached(c, md)]
Asked(c) == [form |-> c.form, of |-> c.of]

\* What the properties rest on: an activation waits for the one before it in
\* the chain, which is that of the descriptor it waits for;
Chained(cs, md) ==
    \A i \in 1 .. Len(cs) :
        /\ KindFits(Asked(cs[i]))
        /\ Reached(cs[i], md) <= Len(Links(cs[i].of))
        /\ i > 1 => Awaited(cs[i], md) = Asked(cs[i - 1])

CallsFit == Chained(calls, metadata)

\* published metadata is complete;
PublishedFit ==
    \A t \in Types : published[t] # 0 =>
        Len(metadata[published[t]].links) = Len(Links(t))

\* unless an allocation failed in one of the ways that are known, the links
\* that have been made are those of the descriptors;
Linked(md) ==
    \A b \in DOMAIN md : \A i \in 1 .. Len(md[b].links) :
        GoodLink(Links(md[b].of)[i], md[b].links[i], md)

LinksFit == ~spoiled => Linked(metadata)

\* and what is entered, or returns, is what the latest activation waits for.
EnteringFits ==
    now.at = "entering" =>
        /\ now.descriptor.form \in Forms => KindFits(now.descriptor)
        /\ calls # <<>> => now.descriptor = Awaited(Top, metadata)

ReturningFits ==
    /\ now.at = "returning" /\ calls # <<>> /\ now.result # Null
    /\ ~spoiled
    => GoodLink(Awaited(Top, metadata), now.result, metadata)

IdleFits == now = Idle => calls = <<>>

IInv == /\ TypeOKIntroduce /\ OneMetadata /\ CallsFit /\ PublishedFit
        /\ LinksFit /\ EnteringFits /\ ReturningFits /\ IdleFits

-----------------------------------------------------------------------------
\* A sequence whose elements are in a set is a sequence over that set.
LEMMA SeqOver ==
  ASSUME NEW S, NEW T, NEW s \in Seq(S), \A i \in 1 .. Len(s) : s[i] \in T
  PROVE  s \in Seq(T)
  <1>1. s \in [1 .. Len(s) -> T] /\ Len(s) \in Nat
    OBVIOUS
  <1>2. QED  BY <1>1, SeqDef

\* A sequence over a set is one over a larger set.
LEMMA SeqWithin ==
  ASSUME NEW S, NEW T, S \subseteq T, NEW s \in Seq(S)
  PROVE  s \in Seq(T)
  <1>1. \A i \in 1 .. Len(s) : s[i] \in T
    OBVIOUS
  <1>2. QED  BY <1>1, SeqOver

\* What TypeOKIntroduce says of the parts of the state.
LEMMA CallsType ==
  ASSUME TypeOKIntroduce, NEW i \in 1 .. Len(calls)
  PROVE  /\ calls[i] \in [of : Types, form : Forms, block : Live]
         /\ calls[i].of \in Types /\ calls[i].form \in Forms
         /\ calls[i].block \in Live
  <1>1. calls \in Seq([of : Types, form : Forms, block : Live])
    BY DEF TypeOKIntroduce
  <1>2. calls[i] \in [of : Types, form : Forms, block : Live]
    BY <1>1, ElementOfSeq
  <1>3. QED  BY <1>2

\* Of the descriptors of a type.
LEMMA TypesType ==
  ASSUME TypeOKIntroduce, NEW t \in Types
  PROVE  /\ Links(t) \in Seq(Descriptors) /\ types[t].kind \in Kinds
         /\ Len(Links(t)) \in Nat
         /\ types[t].kind = "array" => Len(Links(t)) = 1
         /\ types[t].kind = "struct" => Len(Links(t)) >= 1
  BY DEF TypeOKIntroduce, TypeDescriptors, Links, WellLinked

\* A link goes with its type.
LEMMA LinkKind ==
  ASSUME TypeOKIntroduce, NEW t \in Types, NEW i \in 1 .. Len(Links(t))
  PROVE  /\ Links(t)[i] \in Descriptors
         /\ Links(t)[i].form \in Forms => KindFits(Links(t)[i])
  <1>1. Links(t) \in Seq(Descriptors)
    BY TypesType
  <1>2. Links(t)[i] \in Descriptors /\ i \in DOMAIN Links(t)
    BY <1>1
  <1>3. QED
    BY <1>2 DEF TypeOKIntroduce, WellLinked, KindFits, Links, Forms

\* Different activations have different blocks.
LEMMA BlocksDiffer ==
  ASSUME TypeOKIntroduce, OneMetadata, NEW i \in 1 .. Len(calls),
         NEW j \in 1 .. Len(calls), calls[i].block = calls[j].block
  PROVE  i = j
  BY DEF TypeOKIntroduce, OneMetadata

\* Published blocks are not those of activations.
LEMMA PublishedApart ==
  ASSUME TypeOKIntroduce, OneMetadata, BlocksAssumption, NEW t \in Types,
         NEW i \in 1 .. Len(calls), published[t] # 0
  PROVE  /\ published[t] \in Live /\ published[t] # calls[i].block
         /\ t # calls[i].of
  BY DEF TypeOKIntroduce, OneMetadata
-----------------------------------------------------------------------------
\* Initially.
LEMMA InitIInv == InitTypes /\ InitIntroduce => IInv
  <1> SUFFICES ASSUME InitTypes, InitIntroduce PROVE IInv  OBVIOUS
  <1>1. Live = {} /\ calls = <<>> /\ now = Idle /\ Len(calls) = 0
    BY DEF InitIntroduce, Live
  <1>2. calls \in Seq([of : Types, form : Forms, block : Live])
    BY <1>1
  <1>3. TypeOKIntroduce
    <2>1. metadata \in Seq([of : Types, links : Seq(Pointers)]) /\ Len(metadata) = 0
      BY DEF InitIntroduce
    <2>2. metadata \in [1 .. 0 -> [of : Types, links : Seq(Pointers)]] /\ 1 .. 0 = {}
      BY <2>1
    <2>3. QED  BY <1>1, <1>2, <2>2 DEF InitTypes, InitIntroduce, TypeOKIntroduce
  <1>4. OneMetadata /\ CallsFit /\ PublishedFit
    BY <1>1 DEF InitIntroduce, OneMetadata, CallsFit, Chained, PublishedFit
  <1>5. LinksFit /\ EnteringFits /\ ReturningFits /\ IdleFits
    BY <1>1 DEF LinksFit, Linked, Live, EnteringFits, ReturningFits, IdleFits, Idle
  <1>6. QED  BY <1>3, <1>4, <1>5 DEF IInv

\* The descriptors do not change, so that a step is judged by what it makes of
\* the chain and the memory.
LEMMA ChainedNext ==
  ASSUME types' = types, Chained(calls', metadata')
  PROVE  CallsFit'
  BY DEF CallsFit, Chained, KindFits, Asked, Awaited, Reached, Links

\* Links, likewise.
LEMMA LinkedNext ==
  ASSUME types' = types, Linked(metadata')
  PROVE  Linked(metadata)'
  BY DEF Linked, GoodLink, Links, Metadata

\* What is returned, likewise.
LEMMA ReturningNext ==
  ASSUME types' = types, now'.at = "returning",
         calls' # <<>> /\ now'.result # Null /\ ~spoiled' =>
            GoodLink(Awaited(calls'[1], metadata'), now'.result, metadata')
  PROVE  ReturningFits'
  BY DEF ReturningFits, GoodLink, Awaited, Reached, Links, Top, Metadata

\* What is entered, likewise.
LEMMA EnteringNext ==
  ASSUME types' = types, now'.at = "entering",
         now'.descriptor.form \in Forms => KindFits(now'.descriptor),
         calls' # <<>> => now'.descriptor = Awaited(calls'[1], metadata')
  PROVE  EnteringFits'
  BY DEF EnteringFits, KindFits, Awaited, Reached, Links, Top

\* Steps that change nothing but what is done next keep the rest.
LEMMA OnlyNow ==
  ASSUME IInv, UNCHANGED <<types, metadata, published, calls, spoiled>>,
         now' \in {Idle} \cup [at : {"entering"}, descriptor : Descriptors]
                       \cup [at : {"returning"}, result : Pointers],
         EnteringFits', ReturningFits', IdleFits'
  PROVE  IInv'
  <1>1. TypeOKIntroduce'
    BY DEF IInv, TypeOKIntroduce, WellLinked, Live
  <1>2. OneMetadata'
    BY DEF IInv, OneMetadata, Live
  <1>3. CallsFit'
    BY ChainedNext DEF IInv, CallsFit
  <1>4. PublishedFit' /\ LinksFit'
    BY LinkedNext DEF IInv, PublishedFit, LinksFit, Links
  <1>5. QED  BY <1>1, <1>2, <1>3, <1>4 DEF IInv

\* What is being entered.
LEMMA EnteringType ==
  ASSUME TypeOKIntroduce, now.at = "entering"
  PROVE  now.descriptor \in Descriptors /\ now # Idle
  BY DEF TypeOKIntroduce, Idle

\* What has been returned.
LEMMA ReturningType ==
  ASSUME TypeOKIntroduce, now.at = "returning"
  PROVE  now.result \in Pointers /\ now # Idle
  BY DEF TypeOKIntroduce, Idle

\* eu_introduce is called.
LEMMA EuIntroduceKeeps ==
  ASSUME IInv, NEW t \in Types, NEW d \in DescriptorsOf(t), EuIntroduce(d)
  PROVE  IInv'
  <1>1. d \in Descriptors /\ KindFits(d)
    BY DEF DescriptorsOf, Descriptors, Forms, KindFits
  <1>2. calls = <<>> /\ calls' = calls /\ types' = types
    BY DEF IInv, IdleFits, EuIntroduce
  <1>3. /\ now' \in [at : {"entering"}, descriptor : Descriptors]
        /\ now'.at = "entering" /\ now'.descriptor = d /\ now' # Idle
    BY <1>1 DEF EuIntroduce, Entering, Idle
  <1>4. EnteringFits' /\ ReturningFits' /\ IdleFits'
    BY <1>1, <1>2, <1>3 DEF EnteringFits, ReturningFits, IdleFits, KindFits
  <1>5. QED  BY <1>3, <1>4, OnlyNow DEF EuIntroduce

\* eu_introduce returns.
LEMMA IntroducedKeeps == ASSUME IInv, Introduced PROVE IInv'
  <1>1. calls' = <<>> /\ now' = Idle
    BY DEF Introduced
  <1>2. EnteringFits' /\ ReturningFits' /\ IdleFits'
    BY <1>1 DEF EnteringFits, ReturningFits, IdleFits, Idle
  <1>3. QED  BY <1>1, <1>2, OnlyNow DEF Introduced

\* A call of eu_introduce_aux returns at once, with p.
LEMMA AuxReturns ==
  ASSUME IInv, Enters, UNCHANGED <<types, metadata, published, calls, spoiled>>,
         NEW p \in Pointers, now' = Returning(p), p = Null \/ GoodLink(D, p, metadata)
  PROVE  IInv'
  <1>1. /\ now' \in [at : {"returning"}, result : Pointers]
        /\ now'.at = "returning" /\ now'.result = p /\ now' # Idle
    BY DEF Returning, Idle
  <1>2. calls # <<>> => D = Awaited(Top, metadata)
    BY DEF IInv, EnteringFits, Enters, D
  <1>3. calls # <<>> /\ p # Null => GoodLink(Awaited(Top, metadata), p, metadata)
    BY <1>2
  <1>4. ReturningFits'
    BY <1>1, <1>3, ReturningNext DEF Top
  <1>5. EnteringFits' /\ IdleFits'
    BY <1>1 DEF EnteringFits, IdleFits
  <1>6. QED  BY <1>1, <1>4, <1>5, OnlyNow

\* There is metadata already.
LEMMA AuxKnownKeeps == ASSUME IInv, AuxKnown PROVE IInv'
  <1>1. D \in Descriptors
    BY EnteringType DEF IInv, AuxKnown, Enters, D
  <1>2. CASE D.form \in Shims
    <2>1. Shim \in Pointers /\ GoodLink(D, Shim, metadata) /\ now' = Returning(Shim)
      BY <1>2 DEF Shims, Shim, Pointers, GoodLink, AuxKnown
    <2>2. QED  BY <2>1, AuxReturns DEF AuxKnown
  <1>3. CASE D.form \notin Shims
    <2>1. D.form \in Forms /\ D.of \in Types /\ published[D.of] # 0
      BY <1>1, <1>3 DEF Descriptors, AuxKnown, Known
    <2>2. published[D.of] \in Live /\ metadata[published[D.of]].of = D.of
      BY <2>1 DEF IInv, TypeOKIntroduce, OneMetadata
    <2>3. /\ Metadata(D, published[D.of]) \in Pointers
          /\ GoodLink(D, Metadata(D, published[D.of]), metadata)
      BY <2>1, <2>2 DEF IInv, TypeOKIntroduce, Metadata, Pointers, GoodLink, Live
    <2>4. QED  BY <1>3, <2>3, AuxReturns DEF AuxKnown
  <1>4. QED  BY <1>2, <1>3

\* It is being made.
LEMMA AuxInChainKeeps == ASSUME IInv, AuxInChain PROVE IInv'
  <1>1. D \in Descriptors
    BY EnteringType DEF IInv, AuxInChain, Enters, D
  <1>2. PICK i \in Active : now' = Returning(Metadata(D, calls[i].block))
    BY DEF AuxInChain
  <1>3. i \in 1 .. Len(calls) /\ calls[i].of = D.of
    BY <1>2 DEF Active, InChain, IInv, TypeOKIntroduce
  <1>4. calls[i].block \in Live /\ metadata[calls[i].block].of = D.of
    BY <1>3, CallsType DEF IInv, OneMetadata, TypeOKIntroduce
  <1>5. CASE D.form \in Forms
    <2>1. /\ Metadata(D, calls[i].block) \in Pointers
          /\ GoodLink(D, Metadata(D, calls[i].block), metadata)
      BY <1>4, <1>5 DEF IInv, TypeOKIntroduce, Metadata, Pointers, GoodLink, Live
    <2>2. QED  BY <1>2, <2>1, AuxReturns DEF AuxInChain
  <1>6. CASE D.form \notin Forms
    BY <1>1, <1>6 DEF Descriptors, AuxInChain, Known
  <1>7. QED  BY <1>5, <1>6

\* malloc fails.
LEMMA OutOfMemoryKeeps == ASSUME IInv, OutOfMemory PROVE IInv'
  <1>1. Null \in Pointers
    BY DEF Null, Pointers
  <1>2. QED  BY <1>1, AuxReturns DEF OutOfMemory

-----------------------------------------------------------------------------
\* An activation begins.
LEMMA BeginsKeeps ==
  ASSUME IInv, BlocksAssumption, Begins
  PROVE  IInv'
  <1>1. PICK b \in Blocks \ Live :
          /\ metadata' = [x \in Live \cup {b} |->
                            IF x = b THEN [of |-> D.of, links |-> <<>>]
                            ELSE metadata[x]]
          /\ calls' = <<[of |-> D.of, form |-> D.form, block |-> b]>> \o calls
    BY DEF Begins
  <1>2. /\ D \in Descriptors /\ D.form \in Forms /\ D.of \in Types
        /\ published[D.of] = 0 /\ KindFits(D)
    BY EnteringType
    DEF Begins, Enters, D, Known, IInv, EnteringFits, Descriptors
  <1>3. \A i \in 1 .. Len(calls) : calls[i].of # D.of
    BY DEF Begins, Active, InChain, IInv, TypeOKIntroduce
  <1>4. /\ calls \in Seq([of : Types, form : Forms, block : Live]) /\ Len(calls) \in Nat
        /\ calls' # <<>> /\ Len(calls') = Len(calls) + 1
        /\ calls'[1] = [of |-> D.of, form |-> D.form, block |-> b]
        /\ \A i \in 2 .. Len(calls') : i - 1 \in 1 .. Len(calls) /\ calls'[i] = calls[i - 1]
    BY <1>1 DEF IInv, TypeOKIntroduce
  <1>5. /\ Live' = Live \cup {b} /\ b \notin Live /\ b # 0
        /\ metadata'[b] = [of |-> D.of, links |-> <<>>]
        /\ \A x \in Live : metadata'[x] = metadata[x]
    BY <1>1, BlocksAssumption DEF Live
  <1>6. UNCHANGED <<types, published, spoiled>>
    BY DEF Begins
  <1>7. /\ Len(Links(D.of)) >= 1 /\ Links(D.of)[1] \in Descriptors
        /\ Links(D.of)[1].form \in Forms => KindFits(Links(D.of)[1])
    <2>1. Len(Links(D.of)) >= 1 /\ Len(Links(D.of)) \in Nat
      <3>1. TypeOKIntroduce
        BY DEF IInv
      <3>2. types[D.of].kind = "array" \/ types[D.of].kind = "struct"
        BY <1>2 DEF KindFits
      <3>3. /\ Len(Links(D.of)) \in Nat
            /\ types[D.of].kind = "array" => Len(Links(D.of)) = 1
            /\ types[D.of].kind = "struct" => Len(Links(D.of)) >= 1
        BY <1>2, <3>1, TypesType, Zenon
      <3>4. QED  BY <3>2, <3>3
    <2>2. QED  BY <1>2, <2>1, LinkKind DEF IInv
  <1>8. /\ now' \in [at : {"entering"}, descriptor : Descriptors]
        /\ now'.at = "entering" /\ now'.descriptor = Links(D.of)[1] /\ now' # Idle
    BY <1>7 DEF Begins, Entering, Idle
  <1>9. TypeOKIntroduce'
    <2>1. calls' \in Seq([of : Types, form : Forms, block : Live'])
      <3>1. \A i \in 1 .. Len(calls) :
               calls[i] \in [of : Types, form : Forms, block : Live']
        BY <1>5, CallsType DEF IInv
      <3>2. calls \in Seq([of : Types, form : Forms, block : Live'])
        BY <1>4, <3>1, SeqOver
      <3>3. <<[of |-> D.of, form |-> D.form, block |-> b]>>
               \in Seq([of : Types, form : Forms, block : Live'])
        BY <1>2, <1>5
      <3>4. QED  BY <1>1, <3>2, <3>3, ConcatProperties
    <2>2. Live' \subseteq Blocks /\ TypeOKIntroduce
      BY <1>5 DEF IInv, TypeOKIntroduce
    <2>6. metadata' \in [Live' -> [of : Types, links : Seq(Pointers)]]
      <3>1. [of |-> D.of, links |-> <<>>] \in [of : Types, links : Seq(Pointers)]
        BY <1>2
      <3>2. \A x \in Live : metadata[x] \in [of : Types, links : Seq(Pointers)]
        BY <2>2 DEF TypeOKIntroduce
      <3>3. QED  BY <1>1, <1>5, <3>1, <3>2
    <2>3. published' \in [Types -> Live' \cup {0}]
      BY <1>5, <1>6 DEF IInv, TypeOKIntroduce
    <2>4. /\ types' \in [Types -> TypeDescriptors] /\ WellLinked(types')
          /\ spoiled' \in BOOLEAN
      BY <1>6 DEF IInv, TypeOKIntroduce, WellLinked
    <2>5. QED  BY <1>8, <2>1, <2>2, <2>3, <2>4, <2>6 DEF TypeOKIntroduce, Live
  <1>10. OneMetadata'
    <2>1. \A x \in Live' : \/ published'[metadata'[x].of] = x
                         \/ \E i \in 1 .. Len(calls') : calls'[i].block = x
      <3> SUFFICES ASSUME NEW x \in Live',
                          published'[metadata'[x].of] # x
                   PROVE  \E i \in 1 .. Len(calls') : calls'[i].block = x
        OBVIOUS
      <3>2. CASE x = b
        BY <1>4, <3>2
      <3>3. CASE x # b
        <4>1. PICK i \in 1 .. Len(calls) : calls[i].block = x
          BY <1>4, <1>5, <1>6, <3>3, SMTT(60) DEF IInv, OneMetadata
        <4>2. i + 1 \in 1 .. Len(calls') /\ calls'[i + 1] = calls[i]
          BY <1>4
        <4>3. QED  BY <4>1, <4>2
      <3>4. QED  BY <3>2, <3>3
    <2>2. \A t \in Types : published'[t] # 0 => metadata'[published'[t]].of = t
      <3>1. \A t \in Types : published[t] # 0 => published[t] \in Live
        BY DEF IInv, TypeOKIntroduce
      <3>2. QED  BY <1>5, <1>6, <3>1 DEF IInv, OneMetadata
    <2>3. \A i \in 1 .. Len(calls') :
             /\ metadata'[calls'[i].block].of = calls'[i].of
             /\ published'[calls'[i].of] = 0
      <3> SUFFICES ASSUME NEW i \in 1 .. Len(calls')
                   PROVE  /\ metadata'[calls'[i].block].of = calls'[i].of
                          /\ published'[calls'[i].of] = 0
        OBVIOUS
      <3>1. CASE i = 1
        BY <1>2, <1>4, <1>5, <1>6, <3>1
      <3>2. CASE i # 1
        <4>1. i - 1 \in 1 .. Len(calls) /\ calls'[i] = calls[i - 1]
          BY <1>4, <3>2
        <4>2. QED
          BY <1>4, <1>5, <1>6, <4>1, CallsType DEF IInv, OneMetadata
      <3>3. QED  BY <3>1, <3>2
    <2>4. \A i, j \in 1 .. Len(calls') : calls'[i].of = calls'[j].of => i = j
      BY <1>3, <1>4 DEF IInv, OneMetadata
    <2>5. DOMAIN calls' = 1 .. Len(calls')
      BY <1>9 DEF TypeOKIntroduce
    <2>6. QED  BY <2>1, <2>2, <2>3, <2>4, <2>5 DEF OneMetadata
  <1>11. CallsFit'
    <2>1. ASSUME NEW i \in 1 .. Len(calls')
          PROVE  /\ KindFits(Asked(calls'[i]))
                 /\ Reached(calls'[i], metadata') <= Len(Links(calls'[i].of))
                 /\ i > 1 => Awaited(calls'[i], metadata') = Asked(calls'[i - 1])
      <3>1. CASE i = 1
        <4>1. Reached(calls'[1], metadata') = 1
          BY <1>4, <1>5 DEF Reached
        <4>2. KindFits(Asked(calls'[1]))
          BY <1>2, <1>4 DEF KindFits, Asked
        <4>3. QED  BY <1>4, <1>7, <3>1, <4>1, <4>2
      <3>2. CASE i # 1
        <4>1. i - 1 \in 1 .. Len(calls) /\ calls'[i] = calls[i - 1] /\ i \in 2 .. Len(calls')
          BY <1>4, <2>1, <3>2
        <4>2. calls[i - 1].block \in Live
          BY <4>1, CallsType DEF IInv
        <4>3. /\ Reached(calls'[i], metadata') = Reached(calls[i - 1], metadata)
              /\ Awaited(calls'[i], metadata') = Awaited(calls[i - 1], metadata)
          BY <1>5, <4>1, <4>2 DEF Reached, Awaited
        <4>4. Awaited(calls[i - 1], metadata) = Asked(calls'[i - 1])
          <5>1. CASE i - 1 = 1
            <6>1. D = Awaited(calls[1], metadata)
              BY <4>1, <5>1 DEF IInv, EnteringFits, Begins, Enters, D, Top
            <6>2. D = [form |-> D.form, of |-> D.of]
              BY <1>2 DEF Descriptors, Forms, Shims
            <6>3. QED  BY <1>4, <5>1, <6>1, <6>2 DEF Asked
          <5>2. CASE i - 1 # 1
            <6>1. i - 1 \in 2 .. Len(calls') /\ calls'[i - 1] = calls[i - 2]
              BY <1>4, <4>1, <5>2
            <6>2. Awaited(calls[i - 1], metadata) = Asked(calls[i - 2])
              BY <4>1, <6>1 DEF IInv, CallsFit, Chained
            <6>3. QED  BY <6>1, <6>2
          <5>3. QED  BY <5>1, <5>2
        <4>5. /\ KindFits(Asked(calls[i - 1]))
              /\ Reached(calls[i - 1], metadata) <= Len(Links(calls[i - 1].of))
          BY <4>1 DEF IInv, CallsFit, Chained
        <4>6. QED  BY <4>1, <4>3, <4>4, <4>5
      <3>3. QED  BY <3>1, <3>2
    <2>2. Chained(calls', metadata')
      BY <2>1 DEF Chained
    <2>3. QED  BY <1>6, <2>2, ChainedNext
  <1>12. PublishedFit'
    <2>1. \A t \in Types : published[t] # 0 => published[t] \in Live
      BY DEF IInv, TypeOKIntroduce
    <2>2. QED  BY <1>5, <1>6, <2>1 DEF IInv, PublishedFit, Links
  <1>13. LinksFit'
    <2> SUFFICES ASSUME ~spoiled, NEW x \in Live', NEW i \in 1 .. Len(metadata'[x].links)
                 PROVE  GoodLink(Links(metadata'[x].of)[i], metadata'[x].links[i], metadata')
      BY <1>6, LinkedNext DEF LinksFit, Linked, Live
    <2>1. x \in Live /\ metadata'[x] = metadata[x]
      <3>1. Len(<<>>) = 0
        OBVIOUS
      <3>2. x # b
        BY <1>5, <3>1
      <3>3. QED  BY <1>5, <3>2
    <2>2. GoodLink(Links(metadata[x].of)[i], metadata[x].links[i], metadata)
      BY <2>1 DEF IInv, LinksFit, Linked, Live
    <2>3. QED  BY <1>5, <2>1, <2>2 DEF GoodLink, Live
  <1>14. EnteringFits'
    <2>1. Awaited(calls'[1], metadata') = Links(D.of)[1]
      BY <1>4, <1>5 DEF Awaited, Reached
    <2>2. QED  BY <1>6, <1>7, <1>8, <2>1, EnteringNext
  <1>15. ReturningFits' /\ IdleFits'
    BY <1>8 DEF ReturningFits, IdleFits
  <1>16. QED
    BY <1>9, <1>10, <1>11, <1>12, <1>13, <1>14, <1>15 DEF IInv

-----------------------------------------------------------------------------
\* The latest activation, which a call returns to.
LEMMA TopType ==
  ASSUME IInv, LinkReturns
  PROVE  /\ TypeOKIntroduce /\ OneMetadata
         /\ calls \in Seq([of : Types, form : Forms, block : Live])
         /\ Len(calls) \in Nat /\ 1 \in 1 .. Len(calls) /\ Top = calls[1]
         /\ Top.of \in Types /\ Top.form \in Forms /\ Top.block \in Live
         /\ metadata[Top.block].of = Top.of /\ published[Top.of] = 0
         /\ metadata[Top.block].links \in Seq(Pointers)
         /\ Len(metadata[Top.block].links) \in Nat
         /\ LinkIndex(Top) <= Len(Links(Top.of))
  <1>1. /\ TypeOKIntroduce /\ OneMetadata /\ calls # <<>>
        /\ calls \in Seq([of : Types, form : Forms, block : Live])
    BY DEF IInv, LinkReturns, TypeOKIntroduce
  <1>2. Len(calls) \in Nat /\ 1 \in 1 .. Len(calls) /\ Top = calls[1]
    BY <1>1 DEF Top
  <1>3. Top.of \in Types /\ Top.form \in Forms /\ Top.block \in Live
    BY <1>1, <1>2, CallsType
  <1>4. metadata[Top.block].of = Top.of /\ published[Top.of] = 0
    BY <1>1, <1>2 DEF OneMetadata
  <1>5. metadata[Top.block].links \in Seq(Pointers)
    BY <1>1, <1>3 DEF TypeOKIntroduce
  <1>6. LinkIndex(Top) <= Len(Links(Top.of))
    BY <1>2 DEF IInv, CallsFit, Chained, LinkIndex, Reached
  <1>7. QED  BY <1>1, <1>2, <1>3, <1>4, <1>5, <1>6

\* A link is added to the latest activation's metadata.
LEMMA LinkAdded ==
  ASSUME IInv, LinkReturns, metadata' = WithLink
  PROVE  /\ Live' = Live
         /\ metadata' \in [Live -> [of : Types, links : Seq(Pointers)]]
         /\ \A x \in Live : metadata'[x].of = metadata[x].of
         /\ \A x \in Live \ {Top.block} : metadata'[x] = metadata[x]
         /\ Len(metadata'[Top.block].links) = LinkIndex(Top)
         /\ metadata'[Top.block].links[LinkIndex(Top)] = now.result
         /\ \A i \in 1 .. LinkIndex(Top) - 1 :
               metadata'[Top.block].links[i] = metadata[Top.block].links[i]
  <1>1. /\ metadata \in [Live -> [of : Types, links : Seq(Pointers)]]
        /\ Top.block \in Live /\ metadata[Top.block].links \in Seq(Pointers)
    BY TopType DEF TypeOKIntroduce
  <1>2. now.result \in Pointers
    BY ReturningType DEF IInv, LinkReturns
  <1> DEFINE links == Append(metadata[Top.block].links, now.result)
  <1>3. /\ links \in Seq(Pointers) /\ Len(links) = LinkIndex(Top)
        /\ links[LinkIndex(Top)] = now.result
        /\ \A i \in 1 .. LinkIndex(Top) - 1 : links[i] = metadata[Top.block].links[i]
    BY <1>1, <1>2 DEF LinkIndex
  <1> HIDE DEF links
  <1>4. metadata' = [metadata EXCEPT ![Top.block].links = links]
    BY DEF WithLink, links
  <1>5. metadata'[Top.block].links = links
    BY <1>1, <1>4
  <1>6. metadata' \in [Live -> [of : Types, links : Seq(Pointers)]]
    BY <1>1, <1>3, <1>4, ZenonT(60)
  <1>7. /\ \A x \in Live : metadata'[x].of = metadata[x].of
        /\ \A x \in Live \ {Top.block} : metadata'[x] = metadata[x]
    BY <1>1, <1>4
  <1>8. Live' = Live
    BY <1>6 DEF Live
  <1>9. QED  BY <1>3, <1>5, <1>6, <1>7, <1>8

\* and it is a good one.
LEMMA LinkFits ==
  ASSUME IInv, LinkReturns, metadata' = WithLink, UNCHANGED types,
         now.result # Null, ~spoiled
  PROVE  Linked(metadata')
  <1> SUFFICES ASSUME NEW x \in Live, NEW i \in 1 .. Len(metadata'[x].links)
               PROVE  GoodLink(Links(metadata'[x].of)[i], metadata'[x].links[i], metadata')
    BY LinkAdded DEF Linked, Live
  <1>1. \A d, p : GoodLink(d, p, metadata) => GoodLink(d, p, metadata')
    BY LinkAdded DEF GoodLink, Live
  <1>2. \A j \in 1 .. Len(metadata[x].links) :
           GoodLink(Links(metadata[x].of)[j], metadata[x].links[j], metadata)
    BY DEF IInv, LinksFit, Linked, Live
  <1>3. CASE x # Top.block
    BY <1>1, <1>2, <1>3, LinkAdded
  <1>4. CASE x = Top.block /\ i # LinkIndex(Top)
    <2>1. i \in 1 .. Len(metadata[x].links) /\ i \in 1 .. LinkIndex(Top) - 1
      BY <1>4, TopType, LinkAdded DEF LinkIndex
    <2>2. metadata'[x].links[i] = metadata[x].links[i] /\ metadata'[x].of = metadata[x].of
      BY <1>4, <2>1, LinkAdded
    <2>3. QED  BY <1>1, <1>2, <2>1, <2>2
  <1>5. CASE x = Top.block /\ i = LinkIndex(Top)
    <2>1. GoodLink(Awaited(Top, metadata), now.result, metadata)
      BY DEF IInv, ReturningFits, LinkReturns
    <2>2. Awaited(Top, metadata) = Links(metadata'[x].of)[i]
      BY <1>5, TopType, LinkAdded DEF Awaited, Reached, LinkIndex
    <2>3. QED  BY <1>1, <1>5, <2>1, <2>2, LinkAdded
  <1>6. QED  BY <1>3, <1>4, <1>5

\* An activation's link does not change while later ones are at work.
LEMMA OthersWait ==
  ASSUME TypeOKIntroduce, NEW i \in 1 .. Len(calls), NEW md,
         md[calls[i].block] = metadata[calls[i].block]
  PROVE  /\ Reached(calls[i], md) = Reached(calls[i], metadata)
         /\ Awaited(calls[i], md) = Awaited(calls[i], metadata)
  BY DEF Reached, Awaited

\* The chain without the latest activation.
LEMMA ChainedTail ==
  ASSUME IInv, calls # <<>>, NEW md,
         \A i \in 2 .. Len(calls) : md[calls[i].block] = metadata[calls[i].block]
  PROVE  Chained(Tail(calls), md)
  <1>1. /\ calls \in Seq([of : Types, form : Forms, block : Live]) /\ Len(calls) \in Nat
        /\ TypeOKIntroduce
    BY DEF IInv, TypeOKIntroduce
  <1>2. /\ Len(Tail(calls)) = Len(calls) - 1
        /\ \A i \in 1 .. Len(Tail(calls)) : Tail(calls)[i] = calls[i + 1]
    BY <1>1
  <1> DEFINE rest == Tail(calls)
  <1> HIDE DEF rest
  <1> SUFFICES ASSUME NEW i \in 1 .. Len(rest)
               PROVE  /\ KindFits(Asked(rest[i]))
                      /\ Reached(rest[i], md) <= Len(Links(rest[i].of))
                      /\ i > 1 => Awaited(rest[i], md) = Asked(rest[i - 1])
    BY DEF Chained, rest
  <1>3. i + 1 \in 2 .. Len(calls) /\ i + 1 \in 1 .. Len(calls) /\ i + 1 > 1 /\ i + 1 - 1 = i
    BY <1>1, <1>2 DEF rest
  <1>4. /\ rest[i] = calls[i + 1]
        /\ i > 1 => rest[i - 1] = calls[i]
    BY <1>1, <1>2 DEF rest
  <1>5. /\ Reached(calls[i + 1], md) = Reached(calls[i + 1], metadata)
        /\ Awaited(calls[i + 1], md) = Awaited(calls[i + 1], metadata)
    BY <1>1, <1>3, OthersWait
  <1>6. /\ KindFits(Asked(calls[i + 1]))
        /\ Reached(calls[i + 1], metadata) <= Len(Links(calls[i + 1].of))
        /\ Awaited(calls[i + 1], metadata) = Asked(calls[i])
    BY <1>3 DEF IInv, CallsFit, Chained
  <1>7. QED  BY <1>4, <1>5, <1>6

\* A link is there and the next is introduced.
LEMMA NextLinkKeeps == ASSUME IInv, NextLink PROVE IInv'
  <1>1. LinkReturns /\ metadata' = WithLink /\ now.result # Null
    BY DEF NextLink
  <1>2. /\ TypeOKIntroduce /\ OneMetadata /\ Len(calls) \in Nat
        /\ Top = calls[1] /\ 1 \in 1 .. Len(calls) /\ Top.of \in Types
        /\ Top.block \in Live /\ published[Top.of] = 0
    BY <1>1, TopType
  <1>3. UNCHANGED <<types, published, calls, spoiled>>
    BY DEF NextLink
  <1>4. /\ Live' = Live
        /\ metadata' \in [Live -> [of : Types, links : Seq(Pointers)]]
        /\ \A x \in Live : metadata'[x].of = metadata[x].of
        /\ \A x \in Live \ {Top.block} : metadata'[x] = metadata[x]
        /\ Len(metadata'[Top.block].links) = LinkIndex(Top)
    BY <1>1, LinkAdded
  <1>5. LinkIndex(Top) + 1 \in 1 .. Len(Links(Top.of)) /\ LinkIndex(Top) + 1 <= Len(Links(Top.of))
    <2>1. LinkIndex(Top) \in Nat /\ Len(Links(Top.of)) \in Nat
      BY <1>1, <1>2, TopType, TypesType DEF LinkIndex
    <2>2. LinkIndex(Top) < Len(Links(Top.of))
      BY DEF NextLink
    <2>3. QED  BY <2>1, <2>2
  <1> DEFINE d == Links(Top.of)[LinkIndex(Top) + 1]
  <1>6. /\ d \in Descriptors
        /\ d.form \in Forms => KindFits(d)
    BY <1>2, <1>5, LinkKind
  <1>7. /\ now' \in [at : {"entering"}, descriptor : Descriptors]
        /\ now'.at = "entering" /\ now'.descriptor = d /\ now' # Idle
    BY <1>6 DEF NextLink, Entering, Idle
  <1> HIDE DEF d
  <1>8. TypeOKIntroduce'
    BY <1>2, <1>3, <1>4, <1>7, SMTT(60) DEF TypeOKIntroduce, WellLinked
  <1>9. OneMetadata'
    <2>1. \A i \in DOMAIN calls : calls[i].block \in Live
      BY <1>2, CallsType DEF TypeOKIntroduce
    <2>2. \A t \in Types : published[t] # 0 => published[t] \in Live
      BY <1>2 DEF TypeOKIntroduce
    <2>3. QED  BY <1>2, <1>3, <1>4, <2>1, <2>2, SMTT(60) DEF OneMetadata
  <1>10. \A i \in 2 .. Len(calls) : metadata'[calls[i].block] = metadata[calls[i].block]
    <2> SUFFICES ASSUME NEW i \in 2 .. Len(calls)
                 PROVE  metadata'[calls[i].block] = metadata[calls[i].block]
      OBVIOUS
    <2>1. i \in 1 .. Len(calls) /\ i # 1
      BY <1>2
    <2>2. calls[i].block \in Live /\ calls[i].block # Top.block
      BY <1>2, <2>1, CallsType, BlocksDiffer
    <2>3. QED  BY <1>4, <2>2
  <1>11. CallsFit'
    <2>1. ASSUME NEW i \in 1 .. Len(calls)
          PROVE  /\ KindFits(Asked(calls[i]))
                 /\ Reached(calls[i], metadata') <= Len(Links(calls[i].of))
                 /\ i > 1 => Awaited(calls[i], metadata') = Asked(calls[i - 1])
      <3>1. CASE i = 1
        BY <1>2, <1>4, <1>5, <3>1 DEF IInv, CallsFit, Chained, Reached
      <3>2. CASE i # 1
        <4>1. i \in 2 .. Len(calls) /\ i > 1
          BY <1>2, <3>2
        <4>2. /\ Reached(calls[i], metadata') = Reached(calls[i], metadata)
              /\ Awaited(calls[i], metadata') = Awaited(calls[i], metadata)
          BY <1>2, <1>10, <4>1, OthersWait
        <4>3. QED  BY <4>1, <4>2 DEF IInv, CallsFit, Chained
      <3>3. QED  BY <3>1, <3>2
    <2>2. QED  BY <1>3, <2>1, ChainedNext DEF Chained
  <1>12. PublishedFit'
    <2>1. \A t \in Types : published[t] # 0 =>
             published[t] \in Live /\ published[t] # Top.block
      BY <1>2 DEF TypeOKIntroduce, OneMetadata
    <2>2. QED  BY <1>3, <1>4, <2>1 DEF IInv, PublishedFit, Links
  <1>13. LinksFit'
    BY <1>1, <1>3, LinkFits, LinkedNext DEF LinksFit
  <1>14. EnteringFits'
    <2>1. Awaited(calls'[1], metadata') = d
      BY <1>2, <1>3, <1>4 DEF Awaited, Reached, d
    <2>2. QED  BY <1>3, <1>6, <1>7, <2>1, EnteringNext
  <1>15. ReturningFits' /\ IdleFits'
    BY <1>7 DEF ReturningFits, IdleFits
  <1>16. QED
    BY <1>8, <1>9, <1>11, <1>12, <1>13, <1>14, <1>15 DEF IInv

-----------------------------------------------------------------------------
\* The rest of the chain, when the latest activation ends.
LEMMA TailType ==
  ASSUME IInv, LinkReturns, calls' = Tail(calls)
  PROVE  /\ Len(calls') = Len(calls) - 1 /\ Len(calls) \in Nat
         /\ calls' # <<>> => Len(calls) >= 2
         /\ \A i \in 1 .. Len(calls') :
               /\ i + 1 \in 2 .. Len(calls) /\ i + 1 \in 1 .. Len(calls)
               /\ calls'[i] = calls[i + 1]
         /\ \A i \in 2 .. Len(calls) : i - 1 \in 1 .. Len(calls') /\ calls'[i - 1] = calls[i]
         /\ \A i \in 2 .. Len(calls) :
               /\ i \in 1 .. Len(calls)
               /\ calls[i].block \in Live \ {Top.block} /\ calls[i].of # Top.of
         /\ calls' \in Seq([of : Types, form : Forms, block : Live \ {Top.block}])
  <1>1. /\ TypeOKIntroduce /\ OneMetadata /\ Len(calls) \in Nat
        /\ calls \in Seq([of : Types, form : Forms, block : Live])
        /\ Top = calls[1] /\ 1 \in 1 .. Len(calls)
    BY TopType
  <1>2. /\ Len(calls') = Len(calls) - 1
        /\ calls' # <<>> => Len(calls) >= 2
        /\ calls' \in Seq([of : Types, form : Forms, block : Live])
        /\ \A i \in 1 .. Len(calls') :
              /\ i + 1 \in 2 .. Len(calls) /\ i + 1 \in 1 .. Len(calls)
              /\ calls'[i] = calls[i + 1]
    BY <1>1
  <1>3. \A i \in 2 .. Len(calls) : i - 1 \in 1 .. Len(calls') /\ calls'[i - 1] = calls[i]
    BY <1>1
  <1>4. ASSUME NEW i \in 2 .. Len(calls)
        PROVE  /\ i \in 1 .. Len(calls) /\ calls[i].of # Top.of
               /\ calls[i].block \in Live /\ calls[i].block # Top.block
               /\ calls[i] \in [of : Types, form : Forms, block : Live]
    <2>1. i \in 1 .. Len(calls) /\ i # 1
      BY <1>1
    <2>2. calls[i].of # Top.of
      BY <1>1, <2>1 DEF OneMetadata
    <2>3. QED  BY <1>1, <2>1, <2>2, CallsType, BlocksDiffer
  <1>5. \A i \in 1 .. Len(calls') :
           calls'[i] \in [of : Types, form : Forms, block : Live \ {Top.block}]
    <2> SUFFICES ASSUME NEW i \in 1 .. Len(calls')
                 PROVE  calls'[i] \in [of : Types, form : Forms, block : Live \ {Top.block}]
      OBVIOUS
    <2>1. calls'[i] = calls[i + 1] /\ i + 1 \in 2 .. Len(calls)
      BY <1>2
    <2>2. QED  BY <1>4, <2>1
  <1>6. calls' \in Seq([of : Types, form : Forms, block : Live \ {Top.block}])
    BY <1>2, <1>5, SeqOver
  <1>7. QED  BY <1>1, <1>2, <1>3, <1>4, <1>6

\* What ends an activation returns no entry.
LEMMA ReturnsNext ==
  ASSUME NEW p \in Pointers, now' = Returning(p)
  PROVE  /\ now' \in [at : {"returning"}, result : Pointers]
         /\ now'.at = "returning" /\ now'.result = p /\ now' # Idle
         /\ EnteringFits' /\ IdleFits'
  <1>1. /\ now' \in [at : {"returning"}, result : Pointers]
        /\ now'.at = "returning" /\ now'.result = p /\ now' # Idle
    BY DEF Returning, Idle
  <1>2. QED  BY <1>1 DEF EnteringFits, IdleFits

\* The last link is there and the metadata is published.
LEMMA LastLinkKeeps == ASSUME IInv, BlocksAssumption, LastLink PROVE IInv'
  <1>1. LinkReturns /\ metadata' = WithLink /\ calls' = Tail(calls)
    BY DEF LastLink
  <1>2. /\ TypeOKIntroduce /\ OneMetadata /\ Len(calls) \in Nat
        /\ Top = calls[1] /\ 1 \in 1 .. Len(calls) /\ Top.of \in Types
        /\ Top.form \in Forms /\ Top.block \in Live
        /\ metadata[Top.block].of = Top.of /\ published[Top.of] = 0
    BY <1>1, TopType
  <1>3. /\ types' = types /\ spoiled' = (spoiled \/ now.result = Null)
        /\ published' = Publish(Top) /\ LinkIndex(Top) = Len(Links(Top.of))
        /\ now' = Returning(Metadata(Top, Top.block))
    BY DEF LastLink
  <1>4. /\ Live' = Live
        /\ metadata' \in [Live -> [of : Types, links : Seq(Pointers)]]
        /\ \A x \in Live : metadata'[x].of = metadata[x].of
        /\ \A x \in Live \ {Top.block} : metadata'[x] = metadata[x]
        /\ Len(metadata'[Top.block].links) = LinkIndex(Top)
    BY <1>1, LinkAdded
  <1>5. /\ published \in [Types -> Live \cup {0}] /\ 0 \notin Live
        /\ Top.block # 0
    BY <1>2, BlocksAssumption DEF TypeOKIntroduce
  <1>6. /\ published' \in [Types -> Live \cup {0}]
        /\ published'[Top.of] = Top.block
        /\ \A t \in Types \ {Top.of} : published'[t] = published[t]
    BY <1>2, <1>3, <1>5 DEF Publish
  <1>7. Metadata(Top, Top.block) \in Pointers
    BY <1>2 DEF TypeOKIntroduce, Metadata, Pointers
  <1>8. /\ now' \in [at : {"returning"}, result : Pointers]
        /\ now'.at = "returning" /\ now'.result = Metadata(Top, Top.block)
        /\ EnteringFits' /\ IdleFits'
    BY <1>3, <1>7, ReturnsNext
  <1>9. TypeOKIntroduce'
    <2>1. calls' \in Seq([of : Types, form : Forms, block : Live])
      <3> DEFINE S == [of : Types, form : Forms, block : Live \ {Top.block}]
                 T == [of : Types, form : Forms, block : Live]
      <3>1. calls' \in Seq(S)
        BY <1>1, TailType
      <3>2. S \subseteq T
        OBVIOUS
      <3> HIDE DEF S, T
      <3>3. calls' \in Seq(T)
        BY <3>1, <3>2, SeqWithin
      <3>4. QED  BY <3>3 DEF T
    <2>2. spoiled' \in BOOLEAN
      BY <1>3 DEF TypeOKIntroduce
    <2>3. QED
      BY <1>2, <1>3, <1>4, <1>6, <1>8, <2>1, <2>2, SMTT(60) DEF TypeOKIntroduce, WellLinked
  <1>10. OneMetadata'
    <2>1. ASSUME NEW b \in Live
          PROVE  \/ published'[metadata'[b].of] = b
                 \/ \E i \in 1 .. Len(calls') : calls'[i].block = b
      <3>1. metadata[b].of \in Types
        BY <1>2 DEF TypeOKIntroduce
      <3>2. CASE b = Top.block
        BY <1>2, <1>4, <1>6, <3>2
      <3>3. CASE b # Top.block /\ published[metadata[b].of] = b
        <4>1. metadata[b].of # Top.of
          BY <1>2, <1>5, <3>3
        <4>2. QED  BY <1>4, <1>6, <3>1, <3>3, <4>1
      <3>4. CASE b # Top.block /\ published[metadata[b].of] # b
        <4>1. PICK i \in DOMAIN calls : calls[i].block = b
          BY <1>2, <3>4 DEF OneMetadata
        <4>2. i \in 2 .. Len(calls)
          BY <1>2, <3>4, <4>1 DEF TypeOKIntroduce
        <4>3. i - 1 \in 1 .. Len(calls') /\ calls'[i - 1] = calls[i]
          BY <1>1, <4>2, TailType
        <4>4. QED  BY <4>1, <4>3
      <3>5. QED  BY <3>2, <3>3, <3>4
    <2>2. ASSUME NEW t \in Types, published'[t] # 0
          PROVE  metadata'[published'[t]].of = t
      <3>1. CASE t = Top.of
        BY <1>2, <1>4, <1>6, <3>1
      <3>2. CASE t # Top.of
        <4>1. published'[t] = published[t] /\ published[t] \in Live
          BY <1>5, <1>6, <2>2, <3>2
        <4>2. QED  BY <1>2, <1>4, <2>2, <4>1 DEF OneMetadata
      <3>3. QED  BY <3>1, <3>2
    <2>3. ASSUME NEW i \in 1 .. Len(calls')
          PROVE  /\ metadata'[calls'[i].block].of = calls'[i].of
                 /\ published'[calls'[i].of] = 0
                 /\ \A j \in 1 .. Len(calls') : calls'[i].of = calls'[j].of => i = j
      <3>1. /\ i + 1 \in 1 .. Len(calls) /\ calls'[i] = calls[i + 1]
            /\ calls[i + 1].block \in Live /\ calls[i + 1].of # Top.of
            /\ calls[i + 1].of \in Types
        BY <1>1, <1>2, TailType, CallsType
      <3>2. i + 1 \in DOMAIN calls
        BY <1>2, <3>1 DEF TypeOKIntroduce
      <3>3. /\ metadata[calls[i + 1].block].of = calls[i + 1].of
            /\ published[calls[i + 1].of] = 0
        BY <1>2, <3>2 DEF OneMetadata
      <3>4. ASSUME NEW j \in 1 .. Len(calls'), calls'[i].of = calls'[j].of
            PROVE  i = j
        <4>1. j + 1 \in 1 .. Len(calls) /\ calls'[j] = calls[j + 1]
          BY <1>1, TailType
        <4>2. j + 1 \in DOMAIN calls
          BY <1>2, <4>1 DEF TypeOKIntroduce
        <4>3. i + 1 = j + 1
          BY <1>2, <3>1, <3>2, <3>4, <4>1, <4>2 DEF OneMetadata
        <4>4. i \in Int /\ j \in Int
          OBVIOUS
        <4>5. QED  BY <4>3, <4>4
      <3>5. QED  BY <1>4, <1>6, <3>1, <3>3, <3>4
    <2>4. DOMAIN calls' = 1 .. Len(calls')
      BY <1>9 DEF TypeOKIntroduce
    <2>5. QED  BY <1>4, <2>1, <2>2, <2>3, <2>4 DEF OneMetadata
  <1>11. CallsFit'
    <2>1. calls # <<>>
      BY <1>1 DEF LinkReturns
    <2>2. \A i \in 2 .. Len(calls) : metadata'[calls[i].block] = metadata[calls[i].block]
      BY <1>1, <1>4, TailType
    <2>3. QED  BY <1>1, <1>3, <2>1, <2>2, ChainedTail, ChainedNext
  <1>12. PublishedFit'
    <2>1. ASSUME NEW t \in Types, published'[t] # 0
          PROVE  Len(metadata'[published'[t]].links) = Len(Links(t))
      <3>1. CASE t = Top.of
        BY <1>3, <1>4, <1>6, <3>1
      <3>2. CASE t # Top.of
        <4>1. published'[t] = published[t] /\ published[t] \in Live
          BY <1>5, <1>6, <2>1, <3>2
        <4>2. published[t] # Top.block
          BY <1>2, <2>1, <3>2, <4>1 DEF OneMetadata
        <4>3. QED  BY <1>4, <2>1, <4>1, <4>2 DEF IInv, PublishedFit
      <3>3. QED  BY <3>1, <3>2
    <2>2. QED  BY <1>3, <2>1 DEF PublishedFit, Links
  <1>13. LinksFit'
    BY <1>1, <1>3, LinkFits, LinkedNext DEF LinksFit
  <1>14. ReturningFits'
    <2>1. ASSUME calls' # <<>>
          PROVE  GoodLink(Awaited(calls'[1], metadata'), now'.result, metadata')
      <3>1. /\ 2 \in 2 .. Len(calls) /\ 2 \in 1 .. Len(calls) /\ calls'[1] = calls[2]
            /\ calls[2].block \in Live \ {Top.block}
        <4>1. 2 \in 2 .. Len(calls) /\ 2 - 1 = 1
          BY <1>1, <2>1, TailType
        <4>2. QED  BY <1>1, <4>1, TailType
      <3>2. Awaited(calls[2], metadata) = Asked(Top)
        BY <1>2, <3>1 DEF IInv, CallsFit, Chained
      <3>3. Awaited(calls[2], metadata') = Asked(Top)
        BY <1>2, <1>4, <3>1, <3>2, OthersWait
      <3>4. GoodLink(Asked(Top), Metadata(Top, Top.block), metadata')
        BY <1>2, <1>4 DEF GoodLink, Asked, Metadata
      <3>5. QED  BY <1>8, <3>1, <3>3, <3>4
    <2>2. QED  BY <1>3, <1>8, <2>1, ReturningNext
  <1>15. QED
    BY <1>8, <1>9, <1>10, <1>11, <1>12, <1>13, <1>14 DEF IInv

\* A link of a struct is not there and its metadata is freed.
LEMMA StructFailsKeeps == ASSUME IInv, BlocksAssumption, StructFails PROVE IInv'
  <1>1. LinkReturns /\ metadata' = Freed(Top.block) /\ calls' = Tail(calls)
    BY DEF StructFails
  <1>2. /\ TypeOKIntroduce /\ OneMetadata /\ Len(calls) \in Nat
        /\ Top = calls[1] /\ Top.block \in Live
        /\ metadata[Top.block].of = Top.of /\ published[Top.of] = 0
    BY <1>1, TopType
  <1>3. /\ UNCHANGED <<types, published>> /\ now' = Returning(Null)
        /\ spoiled' = (spoiled \/ LinkedFrom(Top.block) # {})
    BY DEF StructFails
  <1>4. /\ Live' = Live \ {Top.block}
        /\ \A x \in Live' : metadata'[x] = metadata[x]
        /\ metadata' \in [Live' -> [of : Types, links : Seq(Pointers)]]
    BY <1>1, <1>2 DEF Freed, Live, TypeOKIntroduce
  <1>5. /\ published \in [Types -> Live' \cup {0}]
        /\ \A t \in Types : published[t] # 0 => published[t] \in Live'
    <2>1. \A t \in Types : published[t] # Top.block
      <3> SUFFICES ASSUME NEW t \in Types, published[t] = Top.block PROVE FALSE
        OBVIOUS
      <3>1. Top.block # 0
        BY <1>2, BlocksAssumption DEF TypeOKIntroduce
      <3>2. metadata[published[t]].of = t
        BY <1>2, <3>1 DEF OneMetadata
      <3>3. t = Top.of
        BY <1>2, <3>2
      <3>4. QED  BY <1>2, <3>1, <3>3
    <2>2. QED  BY <1>2, <1>4, <2>1 DEF TypeOKIntroduce
  <1>6. Null \in Pointers
    BY DEF Null, Pointers
  <1>7. /\ now' \in [at : {"returning"}, result : Pointers]
        /\ now'.at = "returning" /\ now'.result = Null
        /\ EnteringFits' /\ IdleFits'
    BY <1>3, <1>6, ReturnsNext
  <1>8. TypeOKIntroduce'
    <2>1. calls' \in Seq([of : Types, form : Forms, block : Live'])
      BY <1>1, <1>4, TailType
    <2>2. spoiled' \in BOOLEAN /\ Live' \subseteq Blocks
      BY <1>2, <1>3, <1>4 DEF TypeOKIntroduce
    <2>3. types' \in [Types -> TypeDescriptors] /\ WellLinked(types)'
      BY <1>2, <1>3, SMTT(60) DEF TypeOKIntroduce, WellLinked
    <2>4. published' \in [Types -> Live' \cup {0}]
      BY <1>3, <1>5
    <2>5. QED  BY <1>4, <1>7, <2>1, <2>2, <2>3, <2>4 DEF TypeOKIntroduce
  <1>9. OneMetadata'
    <2>1. ASSUME NEW b \in Live', published[metadata[b].of] # b
          PROVE  \E i \in 1 .. Len(calls') : calls'[i].block = b
      <3>1. PICK i \in DOMAIN calls : calls[i].block = b
        BY <1>2, <1>4, <2>1 DEF OneMetadata
      <3>2. i \in 2 .. Len(calls)
        BY <1>2, <1>4, <3>1 DEF TypeOKIntroduce
      <3>3. i - 1 \in 1 .. Len(calls') /\ calls'[i - 1] = calls[i]
        BY <1>1, <3>2, TailType
      <3>4. QED  BY <3>1, <3>3
    <2>2. \A t \in Types : published'[t] # 0 => metadata'[published'[t]].of = t
      BY <1>2, <1>3, <1>4, <1>5 DEF OneMetadata
    <2>3. ASSUME NEW i \in 1 .. Len(calls')
          PROVE  /\ metadata'[calls'[i].block].of = calls'[i].of
                 /\ published[calls'[i].of] = 0
                 /\ \A j \in 1 .. Len(calls') : calls'[i].of = calls'[j].of => i = j
      <3>1. /\ i + 1 \in 1 .. Len(calls) /\ calls'[i] = calls[i + 1]
            /\ calls[i + 1].block \in Live'
        BY <1>1, <1>4, TailType
      <3>2. i + 1 \in DOMAIN calls
        BY <1>2, <3>1 DEF TypeOKIntroduce
      <3>3. /\ metadata[calls[i + 1].block].of = calls[i + 1].of
            /\ published[calls[i + 1].of] = 0
        BY <1>2, <3>2 DEF OneMetadata
      <3>4. ASSUME NEW j \in 1 .. Len(calls'), calls'[i].of = calls'[j].of
            PROVE  i = j
        <4>1. j + 1 \in 1 .. Len(calls) /\ calls'[j] = calls[j + 1]
          BY <1>1, TailType
        <4>2. j + 1 \in DOMAIN calls
          BY <1>2, <4>1 DEF TypeOKIntroduce
        <4>3. i + 1 = j + 1
          BY <1>2, <3>1, <3>2, <3>4, <4>1, <4>2 DEF OneMetadata
        <4>4. i \in Int /\ j \in Int
          OBVIOUS
        <4>5. QED  BY <4>3, <4>4
      <3>5. QED  BY <1>4, <3>1, <3>3, <3>4
    <2>4. DOMAIN calls' = 1 .. Len(calls')
      BY <1>8 DEF TypeOKIntroduce
    <2>5. QED  BY <1>3, <1>4, <2>1, <2>2, <2>3, <2>4 DEF OneMetadata
  <1>10. CallsFit'
    <2>1. calls # <<>>
      BY <1>1 DEF LinkReturns
    <2>2. \A i \in 2 .. Len(calls) : metadata'[calls[i].block] = metadata[calls[i].block]
      BY <1>1, <1>4, TailType
    <2>3. QED  BY <1>1, <1>3, <2>1, <2>2, ChainedTail, ChainedNext
  <1>11. PublishedFit'
    BY <1>3, <1>4, <1>5 DEF IInv, PublishedFit, Links
  <1>12. LinksFit'
    <2> SUFFICES ASSUME ~spoiled, LinkedFrom(Top.block) = {},
                        NEW x \in Live', NEW i \in 1 .. Len(metadata[x].links)
                 PROVE  GoodLink(Links(metadata[x].of)[i], metadata[x].links[i], metadata')
      BY <1>3, <1>4, LinkedNext DEF LinksFit, Linked, Live
    <2> DEFINE d == Links(metadata[x].of)[i]
               p == metadata[x].links[i]
    <2>1. x \in Live \ {Top.block} /\ metadata[x].links \in Seq(Pointers)
      BY <1>2, <1>4 DEF TypeOKIntroduce
    <2>2. GoodLink(d, p, metadata)
      BY <2>1 DEF IInv, LinksFit, Linked, Live
    <2>3. i \in DOMAIN metadata[x].links
      BY <2>1
    <2>4. ~(p.form \in Forms /\ p.block = Top.block)
      BY <2>1, <2>3 DEF LinkedFrom
    <2> HIDE DEF d, p
    <2>5. CASE d.form = "shim" /\ p = Shim
      BY <2>5 DEF GoodLink, d, p
    <2>6. CASE d.form \in Forms /\ p = Metadata(d, p.block)
      <3>1. p.form = d.form
        BY <2>6 DEF Metadata
      <3>2. p.block # Top.block /\ p.block \in Live /\ metadata[p.block].of = d.of
        <4>1. "shim" \notin Forms
          BY DEF Forms
        <4>2. QED  BY <2>2, <2>4, <2>6, <3>1, <4>1 DEF GoodLink, Live
      <3>3. QED  BY <1>4, <2>6, <3>2 DEF GoodLink, Live, d, p
    <2>7. QED  BY <2>2, <2>5, <2>6 DEF GoodLink
  <1>13. ReturningFits'
    BY <1>7 DEF ReturningFits
  <1>14. QED
    BY <1>7, <1>8, <1>9, <1>10, <1>11, <1>12, <1>13 DEF IInv

-----------------------------------------------------------------------------
\* Every step.
LEMMA NextIInv ==
  ASSUME IInv, BlocksAssumption, [NextIntroduce]_introduceVars
  PROVE  IInv'
  <1>1. CASE Works
    <2>1. CASE Introduced    BY <2>1, IntroducedKeeps
    <2>2. CASE AuxKnown      BY <2>2, AuxKnownKeeps
    <2>3. CASE AuxInChain    BY <2>3, AuxInChainKeeps
    <2>4. CASE Begins        BY <2>4, BeginsKeeps
    <2>5. CASE OutOfMemory   BY <2>5, OutOfMemoryKeeps
    <2>6. CASE NextLink      BY <2>6, NextLinkKeeps
    <2>7. CASE LastLink      BY <2>7, LastLinkKeeps
    <2>8. CASE StructFails   BY <2>8, StructFailsKeeps
    <2>9. QED
      BY <1>1, <2>1, <2>2, <2>3, <2>4, <2>5, <2>6, <2>7, <2>8 DEF Works
  <1>2. CASE \E t \in Types : \E d \in DescriptorsOf(t) : EuIntroduce(d)
    BY <1>2, EuIntroduceKeeps
  <1>3. CASE UNCHANGED introduceVars
    <2>1. now \in {Idle} \cup [at : {"entering"}, descriptor : Descriptors]
                        \cup [at : {"returning"}, result : Pointers]
      BY DEF IInv, TypeOKIntroduce
    <2>2. UNCHANGED <<types, metadata, published, calls, spoiled, now>>
      BY <1>3 DEF introduceVars
    <2>3. EnteringFits'
      BY <2>2
      DEF IInv, EnteringFits, KindFits, Awaited, Reached, Links, Top
    <2>4. ReturningFits' /\ IdleFits'
      BY <2>2
      DEF IInv, ReturningFits, IdleFits, GoodLink, Metadata, Awaited, Reached, Links, Top
    <2>5. QED  BY <2>1, <2>2, <2>3, <2>4, OnlyNow
  <1>4. QED  BY <1>1, <1>2, <1>3 DEF NextIntroduce

\* The parts of IInv always hold.
THEOREM Invariance == SpecIntroduce => []IInv
  <1>1. InitTypes /\ InitIntroduce => IInv
    BY InitIInv
  <1>2. IInv /\ [NextIntroduce]_introduceVars => IInv'
    BY NextIInv, BlocksAssumption
  <1>3. QED  BY <1>1, <1>2, PTL DEF SpecIntroduce

\* The variables always have the types their comments give.
THEOREM TypeCorrect == SpecIntroduce => []TypeOKIntroduce
  <1>1. IInv => TypeOKIntroduce
    BY DEF IInv
  <1>2. QED  BY <1>1, Invariance, PTL

\* eu_introduce makes at most one piece of metadata for each type, and leaks
\* nothing when an allocation fails.
THEOREM MetadataIsOne == SpecIntroduce => []OneMetadata
  <1>1. IInv => OneMetadata
    BY DEF IInv
  <1>2. QED  BY <1>1, Invariance, PTL

\* Published metadata leads only to published metadata, that of the
\* descriptors, once eu_introduce has returned.
THEOREM LinksArePublished == SpecIntroduce => []LinksPublished
  <1>1. ASSUME IInv PROVE LinksPublished
    <2> SUFFICES ASSUME calls = <<>>, ~spoiled, NEW t \in Types, published[t] # 0
                 PROVE  LET links == metadata[published[t]].links
                        IN  /\ Len(links) = Len(Links(t))
                            /\ \A i \in DOMAIN links : Published(Links(t)[i], links[i])
      BY DEF LinksPublished
    <2> DEFINE links == metadata[published[t]].links
    <2>1. Len(links) = Len(Links(t))
      BY <1>1 DEF IInv, PublishedFit
    <2>2. published[t] \in Live /\ metadata[published[t]].of = t
      BY <1>1 DEF IInv, TypeOKIntroduce, OneMetadata
    <2>3. DOMAIN links = 1 .. Len(links)
      BY <1>1, <2>2 DEF IInv, TypeOKIntroduce
    <2>4. ASSUME NEW i \in 1 .. Len(links) PROVE Published(Links(t)[i], links[i])
      <3> DEFINE d == Links(t)[i]
                 p == links[i]
      <3>1. GoodLink(d, p, metadata)
        BY <1>1, <2>2 DEF IInv, LinksFit, Linked, Live
      <3> HIDE DEF d, p
      <3>2. CASE d.form = "shim" /\ p = Shim
        BY <3>2 DEF Published, d, p
      <3>3. CASE /\ d.form \in Forms /\ p = Metadata(d, p.block)
                 /\ p.block \in Live /\ metadata[p.block].of = d.of
        <4>1. published[metadata[p.block].of] = p.block
          BY <1>1, <3>3 DEF IInv, OneMetadata
        <4>2. p.block # 0
          BY <1>1, <3>3, BlocksAssumption DEF IInv, TypeOKIntroduce
        <4>3. QED  BY <3>3, <4>1, <4>2 DEF Published, Metadata, d, p
      <3>4. QED  BY <3>1, <3>2, <3>3 DEF GoodLink, Live
    <2>5. QED  BY <2>1, <2>3, <2>4
  <1>2. QED  BY <1>1, Invariance, PTL

\* No step changes or frees metadata that has been published.
THEOREM PublishedMetadataStays == SpecIntroduce => PublishedStays
  <1>1. ASSUME IInv, [NextIntroduce]_introduceVars, NEW t \in Types, published[t] # 0
        PROVE  /\ published'[t] = published[t]
               /\ published[t] \in DOMAIN metadata'
               /\ metadata'[published[t]] = metadata[published[t]]
    <2>1. published[t] \in Live
      BY <1>1 DEF IInv, TypeOKIntroduce
    <2>2. ASSUME LinkReturns PROVE published[t] # Top.block /\ t # Top.of
      BY <1>1, <2>2, TopType, PublishedApart, BlocksAssumption
    <2>3. CASE NextLink
      <3>1. LinkReturns /\ metadata' = WithLink /\ published' = published
        BY <2>3 DEF NextLink
      <3>2. QED  BY <1>1, <2>1, <2>2, <3>1, LinkAdded DEF Live
    <2>4. CASE LastLink
      <3>1. LinkReturns /\ metadata' = WithLink /\ published' = Publish(Top)
        BY <2>4 DEF LastLink
      <3>2. published'[t] = published[t]
        BY <1>1, <2>2, <3>1 DEF Publish, IInv, TypeOKIntroduce
      <3>3. QED  BY <1>1, <2>1, <2>2, <3>1, <3>2, LinkAdded DEF Live
    <2>5. CASE StructFails
      BY <2>1, <2>2, <2>5 DEF StructFails, Freed, Live
    <2>6. CASE Begins
      <3>1. PICK b \in Blocks \ Live :
              metadata' = [x \in Live \cup {b} |->
                             IF x = b THEN [of |-> D.of, links |-> <<>>]
                             ELSE metadata[x]]
        BY <2>6 DEF Begins
      <3>2. QED  BY <2>1, <2>6, <3>1 DEF Begins
    <2>7. CASE UNCHANGED <<metadata, published>>
      BY <2>1, <2>7 DEF Live
    <2>8. QED
      BY <1>1, <2>3, <2>4, <2>5, <2>6, <2>7
      DEF NextIntroduce, Works, Introduced, AuxKnown, AuxInChain, OutOfMemory,
          EuIntroduce, introduceVars
  <1>2. IInv /\ [NextIntroduce]_introduceVars =>
          [\A t \in Types : published[t] # 0 =>
              /\ published'[t] = published[t]
              /\ published[t] \in DOMAIN metadata'
              /\ metadata'[published[t]] = metadata[published[t]]]_introduceVars
    BY <1>1
  <1>3. QED  BY <1>2, Invariance, PTL DEF SpecIntroduce, PublishedStays
=============================================================================
