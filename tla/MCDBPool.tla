------------------------------ MODULE MCDBPool ------------------------------
(* DBPool for TLC: five threads compete for three connections, so that two   *)
(* threads sleep at once, a release meets zero, one or two sleepers, and     *)
(* threads that never slept overtake those just woken.                       *)
EXTENDS DBPool

CONSTANTS t1, t2, t3, t4, t5, c1, c2, c3

MCThreads == {t1, t2, t3, t4, t5}
MCConns == {c1, c2, c3}

=============================================================================
