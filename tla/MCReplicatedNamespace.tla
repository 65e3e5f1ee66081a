----------------------- MODULE MCReplicatedNamespace -----------------------
(* Small instances of one replicated namespace for TLC.                    *)
EXTENDS ReplicatedNamespace, TLC

CONSTANTS k1, k2, t1, t2

MCKeys == {k1, k2}
MCTexts == {t1, t2}
MCTextOf == (k1 :> t1) @@ (k2 :> t2)
=============================================================================
