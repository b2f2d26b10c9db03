-------------------------- MODULE MCCacheChannel --------------------------
EXTENDS CacheChannel

\* Every level as the one to write back to, and as the one to invalidate.
LevelPairs == {<<1, 1>>, <<2, 3>>, <<3, 2>>}
===========================================================================
