---------------------- MODULE MCControlPlaneConsensus ----------------------
(* Small instances of the control-plane guard for TLC.                     *)
EXTENDS ControlPlaneConsensus, TLC

CONSTANTS a, b, c, d

MCNodes == {a, b, c, d}
MCInitialVoters == {a, b, c}

(* The initial voters are interchangeable; d can only join later.          *)
MCSymmetry == Permutations(MCInitialVoters)
=============================================================================
