----------------------------- MODULE MCDPDriver -----------------------------
EXTENDS DPDriver, TLC

MCAllRanges == SUBSET Sectors
MCNonEmpty  == SUBSET Sectors \ {{}}
\* Requests, and sectors, can be renamed: no operator distinguishes them.
MCSymmetry == {p @@ q : p \in Permutations(Irps), q \in Permutations(Sectors)}
=============================================================================
