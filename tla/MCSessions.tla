----------------------------- MODULE MCSessions -----------------------------
EXTENDS Sessions, TLC
CONSTANTS u1
MCOwnerOf == [d \in Device |-> u1]
Symmetry == Permutations(Session) \union Permutations(Token) \union Permutations(Request)
              \union Permutations(Device)
=============================================================================
