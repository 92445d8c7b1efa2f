----------------------------- MODULE MCCheckpoint -----------------------------
EXTENDS Checkpoint, TLC

MCSymmetry == Permutations(Proc)
=============================================================================
