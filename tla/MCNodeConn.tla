---------------------------- MODULE MCNodeConn -----------------------------
(***************************************************************************)
(* TLC instance of NodeConn: two callers of the secret store, two of the   *)
(* onion store, or two instances that connect with the same passphrase.    *)
(* The tables are independent of each other.                               *)
(***************************************************************************)
EXTENDS NodeConn

CONSTANTS c1, c2, n1, n2, h1, v1, v2

SecretOps ==
    {Op("NewSecret", h1, v) : v \in {v1, v2}} \union
    {Op(k, h1, None) : k \in {"GetSecret", "RevokeSecret"}}

OnionOps ==
    {Op("StorePrivateKey", None, v) : v \in {v1, v2}} \union
    {Op(k, None, None) : k \in {"PrivateKey", "DeletePrivateKey"}}

MCOps == SecretOps \union OnionOps \union SessionOps

MCDeployments ==
    {[callers |-> {c1, c2}, ops |-> SecretOps, crash |-> FALSE],
     [callers |-> {c1, c2}, ops |-> OnionOps, crash |-> FALSE],
     [callers |-> {n1, n2}, ops |-> {}, crash |-> TRUE]}
=============================================================================
