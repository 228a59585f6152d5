------------------------------ MODULE MCParty -------------------------------
\* Four players, parties of at most three, and jobs enough that a player whose
\* disconnection has read its party leaves it and founds another.
EXTENDS PartyHandlers, TLC

CONSTANTS a, b, c, d

MCPlayers == {a, b, c, d}
MCLeavers == {a}
MCSymmetry == Permutations({b, c, d})
=============================================================================
