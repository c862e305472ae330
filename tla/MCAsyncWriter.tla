--------------------------- MODULE MCAsyncWriter ----------------------------
(* AsyncWriter for TLC: two handler threads make three calls, so that both  *)
(* can have pushed before either notifies, and a task can arrive while the  *)
(* worker evaluates its predicate, sleeps, works, or is being stopped.      *)
EXTENDS AsyncWriter

CONSTANTS h1, h2, k1, k2, v1

MCProducers == {h1, h2}
MCKeys == {k1, k2}
MCValues == {v1}

=============================================================================
