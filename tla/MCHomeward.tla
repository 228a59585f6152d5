----------------------------- MODULE MCHomeward ------------------------------
\* A ring of tiles with two dead ends, from every tile to every other.
EXTENDS Homeward

MCRing == ((0..2) \X (0..4) \ {1} \X (1..3)) \cup {<<3, 1>>, <<3, 3>>}
=============================================================================
