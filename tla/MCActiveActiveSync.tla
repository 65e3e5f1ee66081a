------------------------- MODULE MCActiveActiveSync -------------------------
(* Small instances of active-active sync for TLC.                          *)
EXTENDS ActiveActiveSync

CONSTANTS a, b, k1, k2

TwoRegions == {a, b}
OneKey == {k1}
TwoKeys == {k1, k2}
InStep == [r \in Regions |-> 0]
Ahead == [r \in Regions |-> IF r = a THEN 2 ELSE 0]
=============================================================================
