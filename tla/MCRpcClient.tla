----------------------------- MODULE MCRpcClient -----------------------------
(* Instances of RpcClient for TLC.                                         *)
EXTENDS RpcClient, TLC

CONSTANTS a, b, c, k1, k2

\* Every call has an id of its own, its name.
OwnId == [x \in Calls |-> x]

\* One id for all, as when a caller pins it for its retries (_rpc.py:169).
PinnedId == [x \in Calls |-> a]

\* Calls that differ in nothing but their names, and connections.
AlikeCalls == Permutations({b, c})
AlikeConns == Permutations({k1, k2})
=============================================================================
