--------------------------- MODULE MCMemoryOSLease ---------------------------
(* Small instances of the Memory OS lease for TLC: a run and its retry, a  *)
(* run of another job, and a second retry or a run over all namespaces.    *)
EXTENDS MemoryOSLease

CONSTANTS r1, r2, r3, r4, j1, j2, n1

FourRuns == {r1, r2, r3, r4}
TwoJobs == {j1, j2}
TwoRetries == [r \in Runs |-> IF r = r3 THEN j2 ELSE j1]
OneNamespace == [r \in Runs |-> n1]
OneEverywhere == [r \in Runs |-> IF r = r4 THEN All ELSE n1]
=============================================================================
