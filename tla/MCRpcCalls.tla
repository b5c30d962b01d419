----------------------------- MODULE MCRpcCalls -----------------------------
EXTENDS RpcCalls
=============================================================================
