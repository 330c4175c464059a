---------------------------- MODULE MCLifecycle ----------------------------
(***************************************************************************)
(* Small instances of Lifecycle for TLC.  Threads and pids of one kind are *)
(* interchangeable: no definition chooses among them.                      *)
(***************************************************************************)
EXTENDS Lifecycle, TLC

\* Sound for the runs without liveness only.
Symmetry == Permutations(Controllers \ Mortal) \cup Permutations(Proxies)
              \cup Permutations(Pids)
=============================================================================
