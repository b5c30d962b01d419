-------------------------- MODULE MCBrokerElection --------------------------
EXTENDS BrokerElection, TLC
Symmetry == Permutations(Connectors) \cup Permutations(Brokers)
=============================================================================
