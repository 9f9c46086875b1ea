----------------------- MODULE MC_CompletionShutdown -----------------------
(* Small instances of CompletionShutdown.                                   *)
EXTENDS CompletionShutdown, TLC

\* The values of Tasks, Works and Runs are interchangeable (safety only).
Symmetry == Permutations(Tasks) \cup Permutations(Works) \cup Permutations(Runs)
=============================================================================
