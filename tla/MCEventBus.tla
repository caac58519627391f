------------------------------ MODULE MCEventBus ------------------------------
(* Instances of EventBus for TLC.                                          *)
EXTENDS EventBus, TLC

(* Tokens that live shorter than, and exactly as long as, the Redis keys.  *)
ShortLifetimes == {1, 2}
FullLifetimes == {2}

Interchangeable == Permutations(Replicas) \union Permutations(Tokens) \union Permutations(Agents)

===============================================================================
