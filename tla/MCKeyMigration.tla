--------------------------- MODULE MCKeyMigration ---------------------------
EXTENDS KeyMigration, TLC

CheckSymmetry == Permutations(Checks)
=============================================================================
