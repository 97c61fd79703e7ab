----------------------------- MODULE HybridKem -----------------------------
(***************************************************************************)
(* The hybrid KEM of src/src/kem.rs, symbolically.                         *)
(*                                                                         *)
(* A key pair is named by its owner and stands for its X25519 and its      *)
(* ML-KEM half.  A ciphertext carries both legs: the ephemeral X25519 key, *)
(* named by the number n of the encapsulation, and the ML-KEM ciphertext.  *)
(***************************************************************************)
EXTENDS Integers, Sequences

\* A unit of bytes the transport has garbled, and a secret that is nobody's.
Noise == <<"noise">>

\* X25519 first, ML-KEM second, through HKDF.
combine(x25519_ss, mlkem_ss) == <<x25519_ss, mlkem_ss>>

hybrid_encap(to, n) ==
    [ct |-> <<"ct", n, <<n, to>>>>,
     shared |-> combine(<<"x", n, to>>, <<"ml", n, to>>)]

\* Mutant: the legs are combined the other way round.
hybrid_decap_Swapped(ct, priv) ==
    IF ct[1] # "ct" THEN Noise
    ELSE combine(IF ct[3] # Noise /\ ct[3][2] = priv THEN <<"ml", ct[3][1], priv>>
                 ELSE <<"reject", ct[3], priv>>,
                 <<"x", ct[2], priv>>)

\* Implicit rejection: an ML-KEM ciphertext that is garbled or of another key
\* gives some secret of its own, and no error.
hybrid_decap(ct, priv) ==
    IF ct[1] # "ct" THEN Noise
    ELSE combine(<<"x", ct[2], priv>>,
                 IF ct[3] # Noise /\ ct[3][2] = priv THEN <<"ml", ct[3][1], priv>>
                 ELSE <<"reject", ct[3], priv>>)
=============================================================================
