--------------------------- MODULE MCBrokerAccept ---------------------------
EXTENDS BrokerAccept
=============================================================================
