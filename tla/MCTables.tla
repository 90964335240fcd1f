------------------------------ MODULE MCTables ------------------------------
(* TLC instance of three tables the HTTP server keeps in memory: the        *)
(* credentials, with three sessions' worth of them, and the two bounded     *)
(* ones.  They share nothing, so it is enough that each runs while the      *)
(* others stay as they were at the start.                                   *)
EXTENDS MemoryTokenStore, RateLimiter, DocumentCache, TLC

TablesInit == Init /\ LimiterInit /\ CacheInit

TablesNext ==
    \/ LimiterInit /\ CacheInit /\ Next /\ UNCHANGED <<limiterVars, cacheVars>>
    \/ Init /\ CacheInit /\ LimiterNext /\ UNCHANGED <<vars, cacheVars>>
    \/ Init /\ LimiterInit /\ CacheNext /\ UNCHANGED <<vars, limiterVars>>

TablesSpec == TablesInit /\ [][TablesNext]_<<vars, limiterVars, cacheVars>>

Symmetry == Permutations(Url) \cup Permutations(Fetcher)
=============================================================================
