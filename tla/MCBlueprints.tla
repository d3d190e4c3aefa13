---------------------------- MODULE MCBlueprints ----------------------------
\* Small instances of Blueprints.
EXTENDS Blueprints, TLC

MCSymmetry == Permutations(Blueprint) \cup Permutations(Upload) \cup Permutations(Deployment)
=============================================================================
