-------------------------- MODULE MCPostureReport --------------------------
(***************************************************************************)
(* Model-checking instance of PostureReport.                               *)
(***************************************************************************)
EXTENDS PostureReport

\* A seeded id with a better status, and a planned suite.
MCRegistrable ==
    {CryptoSuite(PgpWrap, "kem", "hybrid-pq", TRUE, NoId),
     CryptoSuite(4, "kem", "pq", FALSE, Hybrid)}

\* None (the classical default), two seeded ones, an unknown one, and an unknown
\* one with a forbidden word in its text.
MCNegotiated == {NoId, AesGcm, Hybrid, 4, 5}
=============================================================================
