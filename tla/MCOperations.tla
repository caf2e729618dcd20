----------------------------- MODULE MCOperations -----------------------------
(* Operations with the rows of one note and what is derived from it, and   *)
(* the bounds of its behaviours.                                           *)
EXTENDS Operations

MCKindOf == [s |-> "source", k |-> "connection", d |-> "document", h |-> "chunk", n |-> "note",
             g |-> "graph_node", e |-> "entity", r |-> "relation", c |-> "claim",
             v |-> "claim_evidence", w |-> "relation_evidence", x |-> "evidence_context",
             q |-> "answer", t |-> "topic", a |-> "artifact"]
MCLinks == [s |-> {}, k |-> {"s"}, d |-> {"s"}, h |-> {"s"}, n |-> {"s"}, g |-> {"s", "e"},
            e |-> {}, r |-> {"e"}, c |-> {"e"}, v |-> {"c", "h", "s"}, w |-> {"r", "h", "s"},
            x |-> {"s"}, q |-> {"s"}, t |-> {"c", "r", "s"}, a |-> {"t"}]
MCRows == DOMAIN MCKindOf

MCKinds == Counted
Bounds(b, t, c) ==
    [busy |-> b, targets |-> t, count |-> [k \in MCKinds |-> IF k \in DOMAIN c THEN c[k] ELSE 0]]

\* Behaviours of plans and of notes, and of the other commands.
PlanLimits ==
    {Bounds(1, {"e", "s"}, [plan |-> 2, apply |-> 3, undo |-> 1, restore |-> 1, touch |-> 1]),
     Bounds(1, {"e", "s"}, [plan |-> 2, apply |-> 4, undo |-> 2]),
     Bounds(1, {"e", "r", "a"}, [plan |-> 2, apply |-> 2, restore |-> 2, moderate |-> 1]),
     Bounds(2, {"c", "t"}, [plan |-> 1, apply |-> 2, undo |-> 1, restore |-> 1, moderate |-> 1,
                            cancel |-> 1, expire |-> 1]),
     Bounds(2, {"s", "k"}, [plan |-> 1, apply |-> 2, restore |-> 1, touch |-> 2])}
NoteLimits ==
    {Bounds(1, {"n"}, [plan |-> 2, apply |-> 3, undo |-> 1, update |-> 1, restore |-> 1]),
     Bounds(2, {"n"}, [plan |-> 2, apply |-> 2, undo |-> 1, update |-> 1]),
     Bounds(2, {"n"}, [plan |-> 1, apply |-> 2, undo |-> 1, update |-> 1, fault |-> 1]),
     Bounds(2, {"n"}, [plan |-> 1, apply |-> 3, undo |-> 1, touch |-> 1]),
     Bounds(3, {"n"}, [plan |-> 2, apply |-> 3])}
OtherLimits ==
    {Bounds(2, {}, [daemon |-> 3, beat |-> 1, stop |-> 1, lapse |-> 1, fault |-> 1]),
     Bounds(3, {}, [daemon |-> 3, beat |-> 1, lapse |-> 1]),
     Bounds(1, {}, [migration |-> 2, migrate |-> 3, commit |-> 2, fault |-> 1]),
     Bounds(2, {}, [migration |-> 2, migrate |-> 2, commit |-> 1, fault |-> 1]),
     Bounds(2, {}, [backup |-> 1, again |-> 1, rplan |-> 1, bapply |-> 1, archive |-> 1, purge |-> 1,
                    fault |-> 1]),
     Bounds(2, {}, [backup |-> 2, rplan |-> 1, bapply |-> 2, archive |-> 1, purge |-> 1]),
     Bounds(2, {}, [backup |-> 1, again |-> 1, rplan |-> 2, bapply |-> 2, archive |-> 1, throw |-> 1]),
     Bounds(2, {}, [backup |-> 1, archive |-> 2, purge |-> 2, fault |-> 1]),
     Bounds(1, {}, [init |-> 2, resume |-> 2, use |-> 1, rollback |-> 1, unmake |-> 1, fault |-> 2]),
     Bounds(1, {}, [init |-> 2, resume |-> 1, rollback |-> 2, unmake |-> 2, throw |-> 1]),
     Bounds(1, {}, [config |-> 3, throw |-> 2, fault |-> 1]),
     Bounds(3, {}, [config |-> 3, throw |-> 1])}
MCLimits == PlanLimits \cup NoteLimits \cup OtherLimits

Symmetry == Permutations(Procs)
=============================================================================
