------------------------------- MODULE MCTrng -------------------------------
EXTENDS Trng
=============================================================================
