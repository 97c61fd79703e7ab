-------------------------- MODULE MCGroupRatchet ---------------------------
(***************************************************************************)
(* Model-checking instance of GroupRatchet.                                *)
(***************************************************************************)
EXTENDS GroupRatchet, TLC

SecretSymmetry == Permutations(Secrets)
=============================================================================
