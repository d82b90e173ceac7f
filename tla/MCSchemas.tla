----------------------------- MODULE MCSchemas -----------------------------
(***************************************************************************)
(* schemac, and then eu_introduce in a program of which the generated code *)
(* is a part.                                                              *)
(***************************************************************************)
EXTENDS SchemaCompiler, EuIntroduce

Inline == Object(<<"inner">>, <<>>, None)
Nameless == Object(NoName, <<>>, None)
Leaves == {Ref(1), Ref(2), Scalar}

\* What the definitions are: references, a scalar, arrays, and objects with at
\* most one member,
MCDefinitions ==
    {Ref(0), Ref(1), Ref(2), BadRef, Wrong, Scalar, Array(None)}
    \cup {Array(s) : s \in Leaves}
    \cup {Object(NoName, m, e) :
            m \in {<<>>} \cup {<<s>> : s \in {Ref(1), Ref(2), Array(Ref(1)), Array(Ref(2))}},
            e \in {None, Ref(1), Ref(2)}}

\* with some that are rare: arrays whose names clash or whose elements are not
\* defined.
MCRareDefinitions == {<<AnyValue, Array(Inline)>>,
                      <<Object(NoName, <<>>, Array(Scalar)), Scalar>>,
                      <<Array(Scalar), Object(NoName, <<Array(AnyValue)>>, None)>>}

\* What the document itself is,
MCMains ==
    {Object(NoName, <<Array(Ref(1)), Ref(2)>>, None),
     Object(<<"top">>, <<Object(<<"inner">>, <<Ref(1)>>, Ref(2))>>, Ref(1))}

\* and what is wrong in it or deadly.
MCBadMains ==
    {Wrong, Object(NoName, <<Nameless, Object(<<"inner">>, <<Array(None)>>, None)>>, None)}
    \cup {Object(NoName, <<s>>, None) :
            s \in {BadRef, Ref(0), Wrong, Nameless, Array(Wrong), Array(Nameless)}}

MCDocuments ==
    [main : MCMains, defs : MCDefinitions \X MCDefinitions, present : {TRUE}]
    \cup [main : MCBadMains, defs : {<<Scalar, Ref(1)>>}, present : {TRUE}]
    \cup [main : {AnyValue}, defs : MCRareDefinitions \cup {<<>>}, present : BOOLEAN]

\* The schemas of the documents, and those within them.
MCOutermost == UNION {{d.main} \cup ToSet(d.defs) : d \in MCDocuments}
MCSchemaSet == LET one == Within(MCOutermost)
                   two == Within(one)
               IN  MCOutermost \cup one \cup two \cup Within(two)

MCDefNames == <<"bar", "baz">>

-----------------------------------------------------------------------------
\* The generated code can be compiled and linked.
Generated(t) == t \in TypeInfos /\ IsGenerated(t) /\ Emitted("struct", t)
Usable == /\ ~NamesClash
          /\ \A k \in DOMAIN header : header[k].type # NULL =>
                LET t == header[k].type
                IN  header[k].what = "struct" =>
                      /\ IsArray(t) /\ IsGenerated(infos[t].links[1])
                         => Before(k + 1, "struct", infos[t].links[1])
                      /\ \A i \in DOMAIN DescriptorLinks(t) :
                            LET d == DescriptorLinks(t)[i]
                            IN  d.form # "shim" => Generated(d.of)

NoType == [kind |-> "none", links |-> <<>>]

\* A program with the generated code starts.
Link ==
    /\ exit = "ok" /\ Usable /\ Gone
    /\ types' = [t \in Types |->
                   IF Generated(t)
                   THEN [kind |-> IF IsArray(t) THEN "array" ELSE "struct",
                         links |-> DescriptorLinks(t)]
                   ELSE NoType]
    /\ UNCHANGED <<metadata, published, calls, now, spoiled>>

\* Blocks are interchangeable: it is enough that malloc takes the first.
FirstFit == \A b \in DOMAIN metadata' \ Live : \A c \in Blocks \ Live : b <= c

Compiles == NextCompiler /\ UNCHANGED introduceVars
Introduces == NextIntroduce /\ FirstFit /\ UNCHANGED compilerVars

Init == InitCompiler /\ InitIntroduce /\ types = [t \in Types |-> NoType]
Next == Compiles \/ Link \/ Introduces

vars == <<compilerVars, introduceVars>>
Spec == Init /\ [][Next]_vars
        /\ WF_vars(Runs /\ UNCHANGED introduceVars)
        /\ WF_vars(Works /\ FirstFit /\ UNCHANGED compilerVars)

\* schemac ends, and eu_introduce returns.
Settles == CompilerExits /\ IntroduceReturns
=============================================================================
