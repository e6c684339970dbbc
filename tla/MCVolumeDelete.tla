---------------------------- MODULE MCVolumeDelete -----------------------------
EXTENDS VolumeDelete, TLC

Symmetry == Permutations(Handlers) \cup Permutations(PVs)
===============================================================================
