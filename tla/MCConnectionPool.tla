-------------------------- MODULE MCConnectionPool --------------------------
(* Instances of ConnectionPool for TLC.                                    *)
EXTENDS ConnectionPool, TLC

(* Threads and addresses are interchangeable; sound for the safety runs.   *)
Symmetry == Permutations(Threads) \cup Permutations(Conns)
=============================================================================
