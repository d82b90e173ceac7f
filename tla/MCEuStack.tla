----------------------------- MODULE MCEuStack -----------------------------
(* EuStack with a word of two bytes and frames of one or two words. *)
EXTENDS EuStackImpl

CONSTANTS small, large, initial, x, y, garbage

MCKinds == {small, large, initial}
MCSize == [k \in MCKinds |-> CASE k = small -> 2
                               [] k = large -> 3
                               [] k = initial -> 2]
=============================================================================
