--------------------------- MODULE EuGenerateImpl ---------------------------
(***************************************************************************)
(* EuGenerate implements JsonWriter.                                       *)
(***************************************************************************)
EXTENDS EuGenerate

Verdict == CASE phase = "failed" -> "failed"
             [] calls = <<>> /\ fresh = <<>> /\ base = <<>>
                  /\ phase # "astray" -> "complete"
             [] OTHER -> "open"

\* No struct in the value has extras and also a member behind the first.
Clear[v \in Values] ==
    LET s == Shape[v]
    IN  /\ s.extras = <<>> \/ \A k \in 2 .. Len(s.items) : ~s.items[k].present
        /\ \A k \in 1 .. Len(s.items) : Clear[s.items[k].value]
        /\ \A k \in 1 .. Len(s.extras) : Clear[s.extras[k].value]

Writer == INSTANCE JsonWriter
          WITH written <- IF Clear[root] THEN out ELSE <<>>,
               verdict <- IF Clear[root] THEN Verdict ELSE "open"

\* Whatever the sizes of the buffers are, what the calls of eu_generate write
\* of a Clear value is its JSON text, in its order and nothing twice:
\* generators that are resumed go on where they stopped, and after the one that
\* called them has nothing left to say.
ImplementsWriter == Writer!WSpec

\* A caller who comes back with buffers that are not all empty gets the whole
\* text, or the error, if no memory behind the extras is read.
GeneratesAll == <>(Verdict # "open" \/ phase = "astray")

\* Of every value, what has been written is a beginning of its text, however
\* it is broken into chunks (test_common.c:24-36).
WritesText == Len(out) <= Len(Writer!Text[root])
              /\ out = SubSeq(Writer!Text[root], 1, Len(out))
=============================================================================
