---------------------------- MODULE MCDmSession ----------------------------
(***************************************************************************)
(* Model-checking instances of DmSession.                                  *)
(***************************************************************************)
EXTENDS DmSession, TLC

\* The secrets are interchangeable: no definition or property names one.
SecretSymmetry == Permutations(Secrets)
=============================================================================
