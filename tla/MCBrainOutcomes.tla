--------------------------- MODULE MCBrainOutcomes ---------------------------
(* Small instances of the outcomes of a Brain for TLC: outcomes of one     *)
(* procedure on one basis, each with evidence of its own.                  *)
EXTENDS BrainOutcomes

CONSTANTS o1, o2, n, ground1, e1

Two == {o1, o2}
OneScope == {n}
GroundAndOne == {ground1, e1}
SameScope == [o \in Outcomes |-> n]
OneGround == [m \in Scopes |-> ground1]
(* The first outcome has evidence of its own; the others cite the basis.   *)
FirstApart == [o \in Outcomes |-> IF o = o1 THEN e1 ELSE ground1]
=============================================================================
