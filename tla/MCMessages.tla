----------------------------- MODULE MCMessages -----------------------------
EXTENDS Messages, TLC
CONSTANTS u1, u2, u3
Symmetry == Permutations(Message) \union Permutations(Request)
=============================================================================
