------------------------- MODULE MCDistributedShards -------------------------
(* Small instances of the distributed shard client for TLC.  Nodes come    *)
(* and go: a client finds all of them, or all but the first or the last.   *)
EXTENDS DistributedShards, TLC

CONSTANTS x, y, w1, w2

OneText == {x}
TwoTexts == {x, y}
OneWriter == {w1}
TwoWriters == {w1, w2}
Outages == {Nodes, Nodes \ {1}}
Symmetric == Permutations(Writers)
None == {}
OneId == {1}

(* The nodes' ids do not line up: the first row of the namespace at one    *)
(* node has the id that the second has at the other.                       *)
Askew == <<<<0, 1>>, <<1>>>>
=============================================================================
