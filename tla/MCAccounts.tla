----------------------------- MODULE MCAccounts -----------------------------
\* Two servers and two connections at a time, both on one server or one on each; two
\* names, so that two accounts can be created at once.
EXTENDS Accounts, TLC

CONSTANTS a, b, n1, n2, s1, s2

MCServers == {a, b}
MCNames == {n1, n2}
MCSessions == {s1, s2}
MCSymmetry == Permutations(MCServers) \cup Permutations(MCNames) \cup Permutations(MCSessions)
=============================================================================
