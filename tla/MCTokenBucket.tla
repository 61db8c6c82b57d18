--------------------------- MODULE MCTokenBucket ---------------------------
(* Two clients on one key, limiters of every rate and burst up to 2.       *)
EXTENDS TokenBucket, TLC

ClientSymmetry == Permutations(Clients)
=============================================================================
