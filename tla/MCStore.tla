------------------------------ MODULE MCStore ------------------------------
\* A small instance of Store: room for every block that MaxCalls calls make.
EXTENDS Store

CONSTANTS n, m, s, t

SomeAddresses == 1..34

TwoNames == {n, m}
TwoStrings == {s, t}
\* Names and strings are only compared with each other.
Symmetry == Permutations(TwoNames) \cup Permutations(TwoStrings)
=============================================================================
