---------------------------- MODULE MCCryptFile ----------------------------
EXTENDS CryptFile, TLC

\* Openers of one kind differ in nothing but their names.
MCSymmetry == Permutations(Secure) \cup Permutations(Normal)
=============================================================================
