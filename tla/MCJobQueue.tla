----------------------------- MODULE MCJobQueue -----------------------------
(* Small instances of JobQueue for TLC.                                    *)
EXTENDS JobQueue, TLC

\* Processes are interchangeable, and so are jobs: nothing orders them.
Symmetry == Permutations(Procs) \cup Permutations(Jobs)

=============================================================================
