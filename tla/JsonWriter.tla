----------------------------- MODULE JsonWriter -----------------------------
(***************************************************************************)
(* What eu_generate promises: the JSON text of a value is written, in      *)
(* pieces of any size.  There are no buffers, no frames and no calls.      *)
(***************************************************************************)
EXTENDS JsonValues, SequencesExt

VARIABLES root, written, verdict

wvars == <<root, written, verdict>>

\* RFC 8259, section 7
Quoted(s) ==
    LET text(c) == CASE c = "quote" -> <<"bs", "quote">>
                     [] c = "bs"    -> <<"bs", "bs">>
                     [] c = "ctrl"  -> <<"bs", "u", "0", "0", "0", "1">>
                     [] OTHER       -> <<c>>
    IN  <<"quote">> \o FlattenSeq([k \in DOMAIN s |-> text(s[k])]) \o <<"quote">>

Separated(s) == FlattenSeq([k \in DOMAIN s |-> IF k = 1 THEN s[k]
                                               ELSE <<",">> \o s[k]])

Present(s) == SelectSeq(s, LAMBDA e : e.present)

\* The text of each value; there is none of a number that is not finite, and
\* writing ends there.
Text[v \in Values] ==
    LET s == Shape[v]
        members == Present(s.items) \o s.extras
    IN  CASE s.kind \in {"fixed", "double"} -> s.chars
          [] s.kind = "integer" -> IF s.negative THEN <<"-">> \o s.chars ELSE s.chars
          [] s.kind = "nan"     -> <<"no text">>
          [] s.kind = "string"  -> Quoted(s.chars)
          [] s.kind = "array"   ->
                <<"[">> \o Separated([k \in DOMAIN s.items |-> Text[s.items[k].value]])
                        \o <<"]">>
          [] s.kind = "struct"  ->
                <<"{">> \o Separated([k \in DOMAIN members |->
                              Quoted(members[k].name) \o <<":">>
                                 \o Text[members[k].value]])
                        \o <<"}">>

Rest == SubSeq(Text[root], Len(written) + 1, Len(Text[root]))

WInit == root \in Values /\ written = <<>> /\ verdict = "open"

Write == /\ verdict = "open"
         /\ \E n \in 0 .. Len(Rest) :
               /\ "no text" \notin {Rest[k] : k \in 1 .. n}
               /\ written' = written \o SubSeq(Rest, 1, n)
               /\ verdict' \in {"open"} \cup {w \in {"complete"} : n = Len(Rest)}
         /\ UNCHANGED root

Stop == /\ verdict = "open" /\ Rest # <<>> /\ Head(Rest) = "no text"
        /\ verdict' = "failed"
        /\ UNCHANGED <<root, written>>

WNext == Write \/ Stop

WSpec == WInit /\ [][WNext]_wvars
=============================================================================
