------------------------------- MODULE MCTile -------------------------------
EXTENDS Tile

Powers == [l \in 0 .. Level |-> 2 ^ l]
=============================================================================
