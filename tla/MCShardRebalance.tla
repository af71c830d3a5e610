-------------------------- MODULE MCShardRebalance --------------------------
EXTENDS ShardRebalance

\* The FNV-1a hashes of "0" .. "3", reduced modulo 12: the remainders by every
\* number of pods up to 4 are the program's.
MCShardHash == 0 :> 3 @@ 1 :> 4 @@ 2 :> 1 @@ 3 :> 2
=============================================================================
