------------------------- MODULE MCHandlerRegistry -------------------------
(* HandlerRegistry for TLC: "/kv" and below it "/kv/a", and a pattern that *)
(* matches both.                                                           *)
EXTENDS HandlerRegistry, TLC

CONSTANTS n1, n2, n3, kv, sub, pat, h1, h2, t1, t2, c1, c2

Below == {<<kv, sub>>}
Patterns == {<<kv, kv>>, <<kv, sub>>, <<sub, sub>>, <<pat, kv>>, <<pat, sub>>}
KvHandlers == [h \in Callbacks |-> {"GET", "DELETE"}]

SetRequest(u, h) == [kind |-> "request", uri |-> u, cb |-> h]
SetAuth(u, h) == [kind |-> "auth", uri |-> u, cb |-> h]
CoreCalls == {SetRequest(kv, h1), SetRequest(kv, h2), SetRequest(kv, NoCallback),
              SetRequest(pat, h1), SetAuth(kv, h1)}

Symmetry == Permutations(Nodes) \cup Permutations({c1, c2}) \cup Permutations({t1, t2})
=============================================================================
