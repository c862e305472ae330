------------------------------ MODULE LRUSpec -------------------------------
(* The cache as its users see it: calls and the answer to the last one.      *)
EXTENDS LRU

VARIABLE answer     \* the value the last call returned, NoValue if none

SpecVars == <<store, usedBefore, answer>>

SpecInit == CacheInit /\ answer = NoValue

SpecNext ==
    \E k \in Keys :
       \/ Get(k) /\ answer' = store[k]
       \/ \E v \in Values : Put(k, v) /\ answer' = NoValue
       \/ Delete(k) /\ answer' = NoValue

Specification == SpecInit /\ [][SpecNext]_SpecVars

=============================================================================
