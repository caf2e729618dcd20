-------------------------- MODULE MCStorageReclaim --------------------------
(* StorageReclaim with interchangeable processes, sources and blobs.       *)
EXTENDS StorageReclaim, TLC

Symmetry == Permutations(Procs) \cup Permutations(Sources) \cup Permutations(Blobs)

=============================================================================
