---------------------------- MODULE MCBrokerCore ----------------------------
EXTENDS BrokerCore
Symmetry == Permutations(Clients) \cup Permutations(Docs)
=============================================================================
