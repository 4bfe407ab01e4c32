---------------------------- MODULE MCVideoOutFlip ----------------------------
EXTENDS VideoOutFlip, TLC

CONSTANTS g1, g2, b1, b2

MCSymmetry == Permutations(Guest) \cup Permutations(Buffers)
Always == {TRUE}
Either == {TRUE, FALSE}
Never == {FALSE}
=============================================================================
