---------------------------- MODULE MCRpcReplies ----------------------------
EXTENDS RpcReplies
=============================================================================
