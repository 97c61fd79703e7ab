------------------------------- MODULE MCPqDm -------------------------------
(***************************************************************************)
(* Model-checking instances of PqDm.                                       *)
(***************************************************************************)
EXTENDS PqDm, TLC

CONSTANTS ann, ben, cat

\* A plain name, one with a quote and a backslash, one with control characters.
MCNames == (ann :> <<97>>) @@ (ben :> <<Quote, Backslash, 98>>) @@ (cat :> <<10, 31, 99>>)

\* A name with an accent.
MCAccentedNames == (ann :> <<97, 233>>) @@ (ben :> <<98>>) @@ (cat :> <<99>>)
=============================================================================
