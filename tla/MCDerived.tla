------------------------------ MODULE MCDerived ------------------------------
(* Derived with four chunks, of which two have the same text, three         *)
(* claims, five relations and a link, and the bounds of its behaviours.     *)
EXTENDS Derived, TLC

MCTextOf == <<1, 2, 3, 1>>
MCClaimsIn == <<{"c1"}, {"c2"}, {"c3"}>>
MCRelationsIn == <<{"r1", "m1"}, {"m2"}, {"m3"}, {"r1", "m4"}>>
MCClaimOf == [r1 |-> "c1"]
MCMentioned == [m1 |-> 2, m2 |-> 2, m3 |-> 3, m4 |-> 2]
MCLinksIn == <<{"l1"}, {"l1"}, {}, {}>>
MCTargets == [l \in {"l1"} |-> {3}]
MCScope == [c1 |-> 1, c2 |-> 1, c3 |-> 0]
MCPosition == [c1 |-> 1, c2 |-> 2, c3 |-> 3]
MCAbout == [c1 |-> {1, 2}, c2 |-> {2}, c3 |-> {3}]

MCKinds == Counted
Bounds(b, first, c) ==
    [busy |-> b, first |-> first,
     count |-> [k \in MCKinds |-> IF k \in DOMAIN c THEN c[k] ELSE 0]]

\* Behaviours of the graph, of the vector spaces, and of the Topic.
GraphLimits ==
    {Bounds(1, {1, 3}, [change |-> 2, build |-> 2]),
     Bounds(1, {1, 3}, [change |-> 1, build |-> 2, fault |-> 1]),
     Bounds(1, {1, 3}, [change |-> 1, build |-> 2, moderate |-> 1]),
     Bounds(1, {1, 2}, [change |-> 2, build |-> 1, moderate |-> 2]),
     Bounds(1, {1, 3}, [build |-> 2, plan |-> 1, apply |-> 1, moderate |-> 1]),
     Bounds(1, {1, 3}, [change |-> 1, build |-> 2, relation |-> 1]),
     Bounds(1, {1, 4}, [change |-> 1, build |-> 2, relation |-> 1]),
     Bounds(1, {1}, [build |-> 1, plan |-> 2, apply |-> 2]),
     Bounds(1, {}, [build |-> 1, merge |-> 3, apply |-> 3, entity |-> 1]),
     Bounds(2, {1}, [change |-> 1, build |-> 2])}
VectorLimits ==
    {Bounds(1, {1, 2}, [change |-> 2, vcreate |-> 1, vbuild |-> 2, verify |-> 2,
                        vplan |-> 1, vapply |-> 1]),
     Bounds(1, {1}, [vcreate |-> 2, vbuild |-> 2, verify |-> 2, vplan |-> 2, vapply |-> 2]),
     Bounds(1, {1, 2}, [vcreate |-> 1, vbuild |-> 2, verify |-> 2, vplan |-> 1, vapply |-> 1,
                        fault |-> 1, drift |-> 2, test |-> 1]),
     Bounds(1, {1}, [change |-> 1, vcreate |-> 1, vbuild |-> 1, verify |-> 2, vplan |-> 1,
                     vapply |-> 1, drift |-> 2]),
     Bounds(1, {1, 2}, [change |-> 1, vcreate |-> 1, vbuild |-> 1, verify |-> 1, vplan |-> 1,
                        vapply |-> 1, refresh |-> 1, fault |-> 1]),
     Bounds(1, {1}, [change |-> 1, vcreate |-> 1, vbuild |-> 1, verify |-> 2, vplan |-> 1,
                     vapply |-> 1, fault |-> 1]),
     Bounds(1, {1}, [vcreate |-> 1, vbuild |-> 1, verify |-> 1, build |-> 1]),
     Bounds(2, {1}, [change |-> 1, vcreate |-> 1, vbuild |-> 2, verify |-> 1,
                     vplan |-> 2, vapply |-> 2])}
TopicLimits ==
    {Bounds(1, {1, 3}, [build |-> 2, tcreate |-> 1, topic |-> 2, moderate |-> 1]),
     Bounds(1, {1, 3}, [change |-> 1, build |-> 1, tcreate |-> 1, topic |-> 2]),
     Bounds(1, {1, 2}, [change |-> 1, build |-> 2, plan |-> 1, apply |-> 1, tcreate |-> 1,
                        topic |-> 1]),
     Bounds(1, {1}, [build |-> 1, tcreate |-> 1, topic |-> 2, plan |-> 1, apply |-> 1,
                     moderate |-> 1]),
     Bounds(1, {1}, [build |-> 1, tcreate |-> 1, topic |-> 2, tupdate |-> 1, render |-> 1,
                     fault |-> 1]),
     Bounds(2, {1}, [build |-> 1, tcreate |-> 1, topic |-> 2, tupdate |-> 1]),
     Bounds(2, {1}, [build |-> 1, tcreate |-> 1, topic |-> 2, moderate |-> 1]),
     Bounds(2, {1}, [build |-> 1, tcreate |-> 1, topic |-> 2, relation |-> 1]),
     Bounds(1, {1}, [build |-> 1, tcreate |-> 1, topic |-> 2, relation |-> 2]),
     Bounds(2, {1}, [build |-> 1, tcreate |-> 1, topic |-> 2, entity |-> 1]),
     Bounds(2, {1}, [tcreate |-> 1, topic |-> 2, render |-> 1, fault |-> 1])}
MCLimits == GraphLimits \cup VectorLimits \cup TopicLimits

Symmetry == Permutations(Procs)
=============================================================================
