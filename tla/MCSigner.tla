------------------------------- MODULE MCSigner -------------------------------
EXTENDS Signer, TLC

CONSTANTS RequestLevels, RequestRounds

MCRequests == [slot : Slots, mark : [level : RequestLevels, round : RequestRounds]]

Threads == Permutations(Conns) \cup Permutations(Ceilers)
=============================================================================
