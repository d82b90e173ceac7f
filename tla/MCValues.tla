------------------------------ MODULE MCValues ------------------------------
(***************************************************************************)
(* The three modules about values for TLC.  They share no state, so that   *)
(* a behaviour is one of one of them: part says which.                     *)
(***************************************************************************)
EXTENDS EuOwnership, EuString, EuNumber

MCKind == [num |-> "scalar", str |-> "string", any |-> "variant",
           obj |-> "struct", arr |-> "array", bar |-> "structptr",
           top |-> "struct", bars |-> "array"]
MCMembers == [t \in DOMAIN MCKind |-> CASE t = "top" -> <<"str", "bars">>
                                        [] t = "bar" -> <<"str">>
                                        [] OTHER -> <<>>]
MCElement == [t \in DOMAIN MCKind |-> IF t = "bars" THEN "bar" ELSE "any"]

\* Pieces of text: a letter, every kind of escape, and what is none.
Piece(t, b) == [text |-> <<Backslash>> \o t, bytes |-> b]
Letter == [text |-> <<97>>, bytes |-> <<97>>]
FewPieces == {Letter,
              Piece(<<Backslash>>, <<Backslash>>),
              Piece(<<Quote>>, <<Quote>>),
              Piece(<<117, 50, 48, 97, 99>>, <<226, 130, 172>>)}
Pieces == FewPieces \cup
          {Piece(<<110>>, <<10>>), Piece(<<98>>, <<8>>),
           Piece(<<117, 48, 48, 52, 65>>, <<74>>),
           Piece(<<117, 48, 48, 67, 57>>, <<195, 137>>),
           Piece(<<117, 102, 102, 98, 70>>, <<239, 190, 191>>),
           Piece(<<120>>, Malformed), Piece(<<117, 48, 117>>, Malformed)}

Contents == {<<>>} \cup {<<p>> : p \in Pieces} \cup (Pieces \X Pieces)
            \cup (FewPieces \X FewPieces \X FewPieces)
Document(d) ==
    [text |-> S!FlattenSeq([i \in DOMAIN d |-> d[i].text]) \o <<Quote>>,
     bytes |-> IF \E i \in DOMAIN d : d[i].bytes = Malformed THEN Malformed
               ELSE S!FlattenSeq([i \in DOMAIN d |-> d[i].bytes])]
MCDocuments == {Document(d) : d \in Contents}

MCLargestOf == [n \in 0 .. 1 |-> IF n = 0 THEN 9 ELSE 99]

VARIABLE part

\* Those that are not meant stay in one initial state.
Init == /\ part \in {"ownership", "string", "number"}
        /\ InitOwnership /\ (part # "ownership" => root = "any")
        /\ InitString /\ (part # "string" => document = Document(<<>>))
        /\ InitNumber /\ (part # "number" => type = "integer" /\ left = 1)

Next == \/ /\ part = "ownership" /\ NextOwnership
           /\ UNCHANGED <<part, stringVars, numberVars>>
        \/ /\ part = "string" /\ NextString
           /\ UNCHANGED <<part, ownVars, numberVars>>
        \/ /\ part = "number" /\ NextNumber
           /\ UNCHANGED <<part, ownVars, stringVars>>

Spec == Init /\ [][Next]_<<part, ownVars, stringVars, numberVars>>
=============================================================================
