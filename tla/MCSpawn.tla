------------------------------- MODULE MCSpawn -------------------------------
EXTENDS Spawn, TLC
CONSTANTS r1, r2, r3, r4

\* The settings change with the reload: a child's child is allowed before it and refused after.
MCMaxDepth == <<2, 1>>

\* The runs that are not from the journal are alike.
RunSymmetry == Permutations(Runs \ Earlier)
===============================================================================
