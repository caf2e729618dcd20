----------------------------- MODULE MCIngestion -----------------------------
(* Ingestion with the chunks of two contents under two settings, and the   *)
(* bounds of its behaviours: two commands at a time, or one after another  *)
(* and more of everything.                                                 *)
EXTENDS Ingestion, TLC

Draft(text, anchor) == [text |-> text, anchor |-> anchor]

\* The second content keeps the first chunk of the first one behind a new one;
\* the second settings have one chunk for all.
MCChunksOf == [c \in 1 .. 2, g \in 1 .. 2 |->
    IF g = 2 THEN <<Draft(c, 1)>>
    ELSE IF c = 1 THEN <<Draft(1, 1), Draft(2, 2)>> ELSE <<Draft(3, 1), Draft(1, 2)>>]
MCSimilarity == [x \in 1 .. 3, y \in 1 .. 3 |->
    IF x = y THEN 100 ELSE IF x + y = 5 THEN 40 ELSE 0]

Bounds(b, e, n, f, g, a) ==
    [busy |-> b, edits |-> e, commands |-> n, faults |-> f, configs |-> g, asks |-> a]
MCLimits == {Bounds(2, 1, 2, 1, 1, 0), Bounds(1, 2, 3, 1, 1, 0),
             Bounds(1, 1, 2, 1, 2, 1)}
OneProcess == {Bounds(1, 2, 3, 0, 1, 0)}

Symmetry == Permutations(Procs)
=============================================================================
