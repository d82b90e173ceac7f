----------------------------- MODULE MCEuParse -----------------------------
(* EuParse with short literals and few nested containers. *)
EXTENDS EuParseImpl
=============================================================================
