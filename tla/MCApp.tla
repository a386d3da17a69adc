-------------------------------- MODULE MCApp --------------------------------
EXTENDS App, TLC

KeySymmetry == Permutations(Pkhs)
=============================================================================
