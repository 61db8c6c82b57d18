-------------------------- MODULE MCConnectionPool --------------------------
(* A small pool: one upstream with a single connection and one that takes  *)
(* the default.                                                            *)
EXTENDS ConnectionPool, TLC

CONSTANTS alpha, beta

MCPooled == {alpha, beta}
MCMaxConnections == (alpha :> 1) @@ (beta :> Unset)
=============================================================================
