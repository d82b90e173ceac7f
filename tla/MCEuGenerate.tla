---------------------------- MODULE MCEuGenerate ----------------------------
(* EuGenerate with a value of each kind, nested up to four deep. *)
EXTENDS EuGenerateImpl

Leaf(kind, chars, negative) ==
    [kind |-> kind, chars |-> chars, negative |-> negative,
     items |-> <<>>, extras |-> <<>>]
Node(kind, items, extras) ==
    [kind |-> kind, chars |-> <<>>, negative |-> FALSE,
     items |-> items, extras |-> extras]
Member(name, v) == [name |-> name, value |-> v, present |-> TRUE]
Absent(name, v) == [name |-> name, value |-> v, present |-> FALSE]
Element(v) == Member(<<>>, v)

MCShape == [
    true    |-> Leaf("fixed", <<"t", "r", "u", "e">>, FALSE),
    text    |-> Leaf("string", <<"ctrl", "a", "quote">>, FALSE),
    empty   |-> Leaf("string", <<>>, FALSE),
    zero    |-> Leaf("integer", <<"0">>, FALSE),
    minus   |-> Leaf("integer", <<"2", "3">>, TRUE),
    half    |-> Leaf("double", <<"0", ".", "5">>, FALSE),
    nan     |-> Leaf("nan", <<>>, FALSE),
    none    |-> Node("array", <<>>, <<>>),
    array   |-> Node("array", <<Element("minus"), Element("zero"),
                                Element("half")>>, <<>>),
    nothing |-> Node("struct", <<Absent(<<"a">>, "true")>>, <<>>),
    three   |-> Node("struct",
                     <<Absent(<<"t">>, "true"), Member(<<"a">>, "array"),
                       Absent(<<"u">>, "true")>>, <<>>),
    struct  |-> Node("struct",
                     <<Member(<<"a">>, "three"), Absent(<<"u">>, "true")>>,
                     <<Member(<<"bs">>, "text"), Member(<<"r">>, "zero")>>),
    exposed |-> Node("struct",
                     <<Member(<<"a">>, "zero"), Member(<<"e">>, "zero")>>,
                     <<Member(<<"t">>, "true"), Member(<<"u">>, "empty")>>),
    generic |-> Node("struct", <<>>, <<Member(<<>>, "none"), Member(<<"e">>, "nothing")>>),
    nested  |-> Node("array", <<Element("struct"), Element("true"),
                                Element("generic")>>, <<>>),
    broken  |-> Node("array", <<Element("empty"), Element("nan"),
                                Element("true")>>, <<>>)]
MCValues == DOMAIN MCShape
=============================================================================
