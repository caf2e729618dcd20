------------------------ MODULE ConnectionScanProofs ------------------------
(***************************************************************************)
(* What holds of ConnectionScan for every set of paths, every batch size   *)
(* and every number of edits, throws and kills.                            *)
(*                                                                         *)
(* Three inductive invariants, each on top of the one before:              *)
(*   TypeInv    types, that past has every content a path has had, and     *)
(*              that a scan that completes has all its receipts;           *)
(*   RunInv     which steps have a scan run open;                          *)
(*   NoReverts  as long as no path returns to an earlier content and one   *)
(*              batch holds a scan's changes: what the database knows of a *)
(*              path, if it is still there, is in the archive.             *)
(*                                                                         *)
(* Renames is the one recursive definition.  That its recursion has a      *)
(* solution (RenamesEquation) is an argument about the least path that     *)
(* would lack one.                                                         *)
(***************************************************************************)
EXTENDS ConnectionScan, FiniteSetTheorems, FunctionTheorems, SequenceTheorems,
        WellFoundedInduction, TLAPS

\* Every nonempty set of naturals has a least element; the inductions below are
\* arguments about a least counterexample.
LEMMA LeastNatural ==
    ASSUME NEW S, S \subseteq Nat, S # {}
    PROVE  \E m \in S : \A k \in S : m <= k
<1> DEFINE R == OpToRel(<, Nat)
<1>1. IsWellFoundedOn(R, Nat)
  BY NatLessThanWellFounded
<1>2. \A i, j \in Nat : <<i, j>> \in R <=> i < j
  BY DEF OpToRel
<1> HIDE DEF R
<1>3. PICK m \in S : \A k \in S : ~ (<<k, m>> \in R)
  BY <1>1, WFMin
<1>4. ASSUME NEW k \in S PROVE m <= k
  <2>1. ~ (k < m) /\ k \in Nat /\ m \in Nat
    BY <1>2, <1>3
  <2> QED
    BY <2>1
<1> QED
  BY <1>4

(* The recursion of Renames has a solution: there is one up to every path.  *)
Solves(h, n, tr) ==
    h \in [1 .. n -> SUBSET Files] /\ \A g \in 1 .. n : h[g] = Taken(tr, h, g)

LEMMA RenameSourceType ==
    ASSUME NEW tr, NEW g, NEW C, C \subseteq Files
    PROVE  RenameSource(tr, g, C) \subseteq Files
BY DEF RenameSource

LEMMA TakenType ==
    ASSUME NEW tr, NEW from, NEW g
    PROVE  Taken(tr, from, g) \in SUBSET Files
<1>1. Vanished(tr) \subseteq Files
  BY DEF Vanished
<1> QED
  BY <1>1, RenameSourceType DEF Taken

LEMMA TakenDepends ==
    ASSUME NEW tr, NEW a, NEW b, NEW g, \A h \in Files : h < g => a[h] = b[h]
    PROVE  Taken(tr, a, g) = Taken(tr, b, g)
<1>1. {a[h] : h \in {h \in NewPaths(tr) : h < g}} = {b[h] : h \in {h \in NewPaths(tr) : h < g}}
  BY DEF NewPaths, Present
<1> QED
  BY <1>1 DEF Taken

LEMMA RenamesEquation ==
    ASSUME NEW tr
    PROVE  \E from : /\ from = [g \in Files |-> Taken(tr, from, g)]
                     /\ Renames(tr) = [g \in NewPaths(tr) |-> from[g]]
<1> DEFINE N == Cardinality(Files)
           Bad == {n \in 0 .. N : ~ \E h : Solves(h, n, tr)}
<1>0. N \in Nat /\ Files = 1 .. N
  BY FilesAssumption, FS_CardinalityType
<1>1. Bad = {}
  <2>1. SUFFICES ASSUME Bad # {} PROVE FALSE
    OBVIOUS
  <2>a. Bad \subseteq Nat
    BY <1>0
  <2>2. PICK n \in Bad : \A k \in Bad : n <= k
    <3> HIDE DEF Bad
    <3> QED
      BY <2>1, <2>a, LeastNatural
  <2>3. n # 0
    <3>1. Solves([g \in {} |-> {}], 0, tr)
      BY DEF Solves
    <3> QED
      BY <3>1
  <2>4. n \in 1 .. N /\ n - 1 \in 0 .. N /\ n - 1 \notin Bad
    BY <1>0, <2>2, <2>3
  <2>5. PICK h : Solves(h, n - 1, tr)
    BY <2>4
  <2> DEFINE k == [g \in 1 .. n |-> IF g = n THEN Taken(tr, h, n) ELSE h[g]]
  <2>6. k \in [1 .. n -> SUBSET Files]
    BY <1>0, <2>4, <2>5, TakenType DEF Solves
  <2>7. ASSUME NEW g \in 1 .. n PROVE k[g] = Taken(tr, k, g)
    <3>1. \A i \in Files : i < g => k[i] = h[i]
      BY <1>0, <2>4, <2>7
    <3>2. Taken(tr, k, g) = Taken(tr, h, g)
      BY <3>1, TakenDepends
    <3> QED
      BY <1>0, <2>4, <2>5, <2>7, <3>2 DEF Solves
  <2>8. Solves(k, n, tr)
    BY <2>6, <2>7 DEF Solves
  <2> QED
    BY <2>8
<1>2. PICK h : Solves(h, N, tr)
  BY <1>0, <1>1
<1>3. h = [g \in Files |-> Taken(tr, h, g)]
  BY <1>0, <1>2 DEF Solves
<1> DEFINE from == CHOOSE f : f = [g \in Files |-> Taken(tr, f, g)]
<1>4. from = [g \in Files |-> Taken(tr, from, g)]
  BY <1>3
<1>5. Renames(tr) = [g \in NewPaths(tr) |-> from[g]]
  BY DEF Renames
<1> QED
  BY <1>4, <1>5

-----------------------------------------------------------------------------
(* What classifyChanges returns                                            *)

LEMMA FilesFinite ==
    /\ IsFiniteSet(Files) /\ Cardinality(Files) \in Nat
    /\ Files = 1 .. Cardinality(Files) /\ 0 \notin Files
    /\ \A S \in SUBSET Files : IsFiniteSet(S) /\ Cardinality(S) \in Nat
<1>1. IsFiniteSet(Files) /\ Cardinality(Files) \in Nat /\ Files = 1 .. Cardinality(Files)
  BY FilesAssumption, FS_CardinalityType
<1>2. ASSUME NEW S \in SUBSET Files PROVE IsFiniteSet(S) /\ Cardinality(S) \in Nat
  BY <1>1, <1>2, FS_Subset, FS_CardinalityType
<1> QED
  BY <1>1, <1>2

\* A rename has one source: a row that vanished.
LEMMA RenameIsOne ==
    ASSUME NEW tr, NEW g \in NewPaths(tr)
    PROVE  /\ Renames(tr)[g] \subseteq Vanished(tr)
           /\ \A x, y \in Renames(tr)[g] : x = y
<1>1. PICK from : /\ from = [h \in Files |-> Taken(tr, from, h)]
                  /\ Renames(tr) = [h \in NewPaths(tr) |-> from[h]]
  BY RenamesEquation
<1>2. g \in Files
  BY DEF NewPaths, Present
<1>3. Renames(tr)[g] = Taken(tr, from, g)
  BY <1>1, <1>2
<1>4. PICK C \in SUBSET Vanished(tr) : Renames(tr)[g] = RenameSource(tr, g, C)
  BY <1>3 DEF Taken
<1> DEFINE I == {f \in C : obs[f].ino = tr[g].i}
           H == {f \in C : obs[f].hash = tr[g].c}
<1>5. I \in SUBSET Files /\ H \in SUBSET Files
  BY <1>4 DEF Vanished
<1>6. \/ Renames(tr)[g] = I /\ Cardinality(I) = 1
      \/ Renames(tr)[g] = H /\ Cardinality(H) = 1
      \/ Renames(tr)[g] = {}
  BY <1>4 DEF RenameSource
<1>7. I \subseteq Vanished(tr) /\ H \subseteq Vanished(tr)
  BY <1>4
<1> HIDE DEF I, H
<1>8. Cardinality(I) = 1 => \A x, y \in I : x = y
  BY <1>5, FilesFinite, FS_Singleton
<1>9. Cardinality(H) = 1 => \A x, y \in H : x = y
  BY <1>5, FilesFinite, FS_Singleton
<1> QED
  BY <1>6, <1>7, <1>8, <1>9

ItemOf(kind, f, from, hash) == [kind |-> kind, path |-> f, from |-> from, hash |-> hash]
Moving(tr) == UNION {Renames(tr)[g] : g \in NewPaths(tr)}

Restored(tr, ch) == \E f \in Matched(tr) :
    obs[f].state = "deleted" /\ ch = ItemOf("restored", f, 0, tr[f].c)
Modified(tr, ch) == \E f \in Matched(tr) :
    /\ obs[f].state # "deleted" /\ obs[f].hash # tr[f].c
    /\ ch = ItemOf("modified", f, 0, tr[f].c)
Renamed(tr, ch) == \E g \in NewPaths(tr) : \E f \in Renames(tr)[g] :
    ch = ItemOf("renamed", g, f, tr[g].c)
Created(tr, ch) == \E g \in NewPaths(tr) :
    Renames(tr)[g] = {} /\ ch = ItemOf("created", g, 0, tr[g].c)
Deleted(tr, ch) == \E f \in Vanished(tr) \ Moving(tr) :
    obs[f].state = "overdue" /\ ch = ItemOf("deleted", f, 0, 0)

LEMMA RenamesDomain == ASSUME NEW tr PROVE DOMAIN Renames(tr) = NewPaths(tr)
BY RenamesEquation

LEMMA ClassifyIs ==
    ASSUME NEW tr
    PROVE  /\ \A ch : ch \in Classify(tr).changes <=>
                        \/ Restored(tr, ch) \/ Modified(tr, ch) \/ Renamed(tr, ch)
                        \/ Created(tr, ch) \/ Deleted(tr, ch)
           /\ Classify(tr).pending =
                {f \in Vanished(tr) \ Moving(tr) : obs[f].state # "overdue"}
<1>1. DOMAIN Renames(tr) = NewPaths(tr)
  BY RenamesDomain
<1> DEFINE ren == Renames(tr)
           gone == Vanished(tr) \ UNION {ren[g] : g \in DOMAIN ren}
           R == {ItemOf("restored", f, 0, tr[f].c) :
                   f \in {f \in Matched(tr) : obs[f].state = "deleted"}}
           M == {ItemOf("modified", f, 0, tr[f].c) :
                   f \in {f \in Matched(tr) : obs[f].state # "deleted" /\ obs[f].hash # tr[f].c}}
           N == UNION {{ItemOf("renamed", g, f, tr[g].c) : f \in ren[g]} : g \in DOMAIN ren}
           C == {ItemOf("created", g, 0, tr[g].c) : g \in {g \in DOMAIN ren : ren[g] = {}}}
           D == {ItemOf("deleted", f, 0, 0) : f \in {f \in gone : obs[f].state = "overdue"}}
<1>2. /\ Classify(tr).changes = R \cup (M \cup (N \cup (C \cup D)))
      /\ Classify(tr).pending = {f \in gone : obs[f].state # "overdue"}
  BY DEF Classify, ItemOf
<1>g. gone = Vanished(tr) \ Moving(tr)
  BY <1>1 DEF Moving
<1>3. ASSUME NEW ch
      PROVE  /\ ch \in R <=> Restored(tr, ch)
             /\ ch \in M <=> Modified(tr, ch)
             /\ ch \in C <=> Created(tr, ch)
             /\ ch \in D <=> Deleted(tr, ch)
  BY <1>1, <1>g DEF Restored, Modified, Created, Deleted
<1>4. ASSUME NEW ch PROVE ch \in N <=> Renamed(tr, ch)
  BY <1>1 DEF Renamed
<1>5. {f \in gone : obs[f].state # "overdue"}
        = {f \in Vanished(tr) \ Moving(tr) : obs[f].state # "overdue"}
  BY <1>g
<1> HIDE DEF R, M, N, C, D, gone
<1> QED
  BY <1>2, <1>3, <1>4, <1>5

LEMMA ChangesType ==
    ASSUME NEW tr \in [Files -> Entry]
    PROVE  Classify(tr).changes \subseteq Change /\ Classify(tr).pending \subseteq Files
<1>1. ASSUME NEW ch \in Classify(tr).changes PROVE ch \in Change
  <2>1. \A f \in Files : tr[f].c \in Contents
    BY DEF Entry
  <2>2. 0 \in Contents
    BY BoundAssumption DEF Contents
  <2>3. CASE Restored(tr, ch) \/ Modified(tr, ch)
    BY <2>1, <2>3 DEF Restored, Modified, ItemOf, Change, Matched, Present
  <2>4. CASE Renamed(tr, ch)
    <3>0. PICK g \in NewPaths(tr) :
             \E f \in Renames(tr)[g] : ch = ItemOf("renamed", g, f, tr[g].c)
      BY <2>4 DEF Renamed
    <3>1. PICK f \in Renames(tr)[g] : ch = ItemOf("renamed", g, f, tr[g].c)
      BY <3>0
    <3>2. g \in Files /\ f \in Files
      BY <3>1, RenameIsOne DEF NewPaths, Present, Vanished
    <3> QED
      BY <2>1, <3>1, <3>2 DEF ItemOf, Change
  <2>5. CASE Created(tr, ch)
    BY <2>1, <2>5 DEF Created, ItemOf, Change, NewPaths, Present
  <2>6. CASE Deleted(tr, ch)
    BY <2>2, <2>6 DEF Deleted, ItemOf, Change, Vanished
  <2> QED
    BY <2>3, <2>4, <2>5, <2>6, ClassifyIs
<1>2. Classify(tr).pending \subseteq Files
  BY ClassifyIs DEF Vanished
<1> QED
  BY <1>1, <1>2

\* No path has two changes.
LEMMA OneChangePerPath ==
    ASSUME NEW tr, NEW a \in Classify(tr).changes, NEW b \in Classify(tr).changes,
           a.path = b.path
    PROVE  a = b
<1> USE DEF ItemOf
<1>0. /\ Restored(tr, a) \/ Modified(tr, a) \/ Renamed(tr, a) \/ Created(tr, a) \/ Deleted(tr, a)
      /\ Restored(tr, b) \/ Modified(tr, b) \/ Renamed(tr, b) \/ Created(tr, b) \/ Deleted(tr, b)
  BY ClassifyIs
<1>1. /\ Restored(tr, a) => a.path \in Matched(tr) /\ obs[a.path].state = "deleted"
                            /\ a = ItemOf("restored", a.path, 0, tr[a.path].c)
      /\ Restored(tr, b) => b.path \in Matched(tr) /\ obs[b.path].state = "deleted"
                            /\ b = ItemOf("restored", b.path, 0, tr[b.path].c)
  BY DEF Restored
<1>2. /\ Modified(tr, a) => a.path \in Matched(tr) /\ obs[a.path].state # "deleted"
                            /\ a = ItemOf("modified", a.path, 0, tr[a.path].c)
      /\ Modified(tr, b) => b.path \in Matched(tr) /\ obs[b.path].state # "deleted"
                            /\ b = ItemOf("modified", b.path, 0, tr[b.path].c)
  BY DEF Modified
<1>3. /\ Renamed(tr, a) => /\ a.path \in NewPaths(tr) /\ a.from \in Renames(tr)[a.path]
                           /\ a = ItemOf("renamed", a.path, a.from, tr[a.path].c)
      /\ Renamed(tr, b) => /\ b.path \in NewPaths(tr) /\ b.from \in Renames(tr)[b.path]
                           /\ b = ItemOf("renamed", b.path, b.from, tr[b.path].c)
  BY DEF Renamed
<1>4. /\ Created(tr, a) => /\ a.path \in NewPaths(tr) /\ Renames(tr)[a.path] = {}
                           /\ a = ItemOf("created", a.path, 0, tr[a.path].c)
      /\ Created(tr, b) => /\ b.path \in NewPaths(tr) /\ Renames(tr)[b.path] = {}
                           /\ b = ItemOf("created", b.path, 0, tr[b.path].c)
  BY DEF Created
<1>5. /\ Deleted(tr, a) => a.path \in Vanished(tr) /\ a = ItemOf("deleted", a.path, 0, 0)
      /\ Deleted(tr, b) => b.path \in Vanished(tr) /\ b = ItemOf("deleted", b.path, 0, 0)
  BY DEF Deleted
<1>6. /\ \A f \in Matched(tr) : f \notin NewPaths(tr) /\ f \notin Vanished(tr)
      /\ \A f \in NewPaths(tr) : f \notin Vanished(tr)
  BY DEF Matched, NewPaths, Vanished, Present
<1>7. Renamed(tr, a) /\ Renamed(tr, b) => a = b
  <2> SUFFICES ASSUME Renamed(tr, a), Renamed(tr, b) PROVE a = b
    OBVIOUS
  <2>1. a.from = b.from
    BY <1>3, RenameIsOne
  <2> QED
    BY <2>1, <1>3
<1> HIDE DEF ItemOf
<1> QED
  BY <1>0, <1>1, <1>2, <1>3, <1>4, <1>5, <1>6, <1>7

LEMMA ChangesAreFew ==
    ASSUME NEW tr \in [Files -> Entry]
    PROVE  /\ IsFiniteSet(Classify(tr).changes)
           /\ Cardinality(Classify(tr).changes) \in Nat
           /\ Cardinality(Classify(tr).changes) <= Cardinality(Files)
<1> DEFINE C == Classify(tr).changes
           f == [ch \in C |-> ch.path]
<1>1. C \subseteq Change
  BY ChangesType
<1>2. f \in [C -> Files]
  BY <1>1 DEF Change
<1>3. \A a, b \in C : f[a] = f[b] => a = b
  BY OneChangePerPath
<1> HIDE DEF C
<1>4. f \in Injection(C, Files)
  BY <1>2, <1>3, Fun_IsInj
<1>5. IsFiniteSet(C) /\ Cardinality(C) <= Cardinality(Files)
  BY <1>4, FilesFinite, FS_Injection
<1> QED
  BY <1>5, FS_CardinalityType DEF C

-----------------------------------------------------------------------------
(* The type invariant                                                      *)

\* Contents are numbered in the order they appear, past has every content a path
\* has had, and the keys of a scan are empty before it persists batches and have
\* their receipts once it completes.
HistoryInv ==
    /\ \A f \in Files : past[f] \subseteq 0 .. edits + 1
    /\ \A f \in Files : file[f].c \in past[f] \/ (file[f].c = 0 /\ past[f] = {})
Keyless == {"idle", "daemon", "start", "fail", "inventory", "dryEnd"}
KeysInv ==
    /\ pc \in Keyless => keys = <<>>
    /\ pc = "complete" => \A n \in DOMAIN keys : keys[n] \in receipts

TypeInv == TypeOK /\ HistoryInv /\ KeysInv

LEMMA BoundsAreNat == MaxEdits \in Nat /\ MaxReverts \in Nat /\ MaxFaults \in Nat
BY BoundAssumption

LEMMA AbsentIsEntry == Absent \in Entry /\ Absent.c = 0 /\ 0 \in Contents
BY BoundsAreNat, FilesFinite DEF Absent, Entry, Contents

\* What Finish leaves.
LEMMA FinishTypes ==
    ASSUME NEW l, Finish(l)
    PROVE  /\ pc' = l /\ left' \subseteq Files /\ pending' \subseteq Files
           /\ inv' \in [Files -> Entry] /\ copy' \in [Files -> Contents]
           /\ changes' \subseteq Change /\ keys' = <<>>
           /\ keys' \in Seq(SUBSET Change) /\ queue' \in Seq(SUBSET Change)
BY AbsentIsEntry DEF Finish, Goto, Unread, Uncopied

LEMMA ReturnFinishes ==
    ASSUME Return
    PROVE  \E l \in {"daemon", "idle"} : Finish(l) /\ l = IF cmd = "schedule" THEN "daemon" ELSE "idle"
BY DEF Return

LEMMA TypeInit ==
    ASSUME Init
    PROVE  TypeInv
<1>1. InitialFiles \subseteq Files /\ Files = 1 .. Cardinality(Files)
      /\ Cardinality(Files) \in Nat
  BY FilesAssumption, FilesFinite
<1>2. \A f \in Files : file[f] = IF f \in InitialFiles THEN [c |-> 1, i |-> f] ELSE Absent
  BY DEF Init
<1>3. file \in [Files -> Entry]
  BY <1>1, BoundsAreNat, AbsentIsEntry DEF Init, Entry, Contents
<1>4. /\ past \in [Files -> SUBSET Contents]
      /\ archived \in [Files -> Contents]
  <2>1. \A f \in Files : file[f].c \in Contents
    BY <1>3 DEF Entry
  <2> QED
    BY <2>1 DEF Init
<1>5. obs \in [Files -> Row]
  BY <1>1, AbsentIsEntry DEF Init, Row, NoRow
<1>6. inv \in [Files -> Entry] /\ copy \in [Files -> Contents]
  BY AbsentIsEntry DEF Init, Unread, Uncopied
<1>7. HistoryInv
  BY <1>2, AbsentIsEntry DEF Init, HistoryInv, Absent
<1>8. KeysInv
  BY DEF Init, KeysInv, Keyless
<1>9. keys \in Seq(SUBSET Change) /\ queue \in Seq(SUBSET Change)
  BY DEF Init
<1>10. /\ \/ conn = [state |-> "initializing", due |-> TRUE]
          \/ conn = [state |-> "paused", due |-> FALSE]
       /\ pc \in {"start", "idle"} /\ cmd \in {"initial", "manual"}
  BY DEF Init
<1>a. conn \in [state : {"initializing", "active", "paused", "degraded"}, due : BOOLEAN]
  <2>1. CASE conn = [state |-> "initializing", due |-> TRUE]
    BY <2>1
  <2>2. CASE conn = [state |-> "paused", due |-> FALSE]
    BY <2>2
  <2> QED
    BY <1>10, <2>1, <2>2
<1>11. /\ succeeded \subseteq receipts /\ receipts \subseteq SUBSET Change
       /\ openScan \in BOOLEAN /\ interrupted \in BOOLEAN /\ batchSize \in BatchSizes
       /\ left \subseteq Files /\ pending \subseteq Files /\ changes \subseteq Change
  BY DEF Init
<1>12. /\ edits \in 0 .. MaxEdits /\ reverts \in 0 .. MaxReverts
       /\ crashes \in 0 .. MaxFaults /\ failures \in 0 .. MaxFaults
  BY BoundsAreNat DEF Init
<1> QED
  BY <1>3, <1>4, <1>5, <1>6, <1>7, <1>8, <1>9, <1>10, <1>a, <1>11, <1>12
     DEF TypeInv, TypeOK, PC, Trying

\* Commands begin, end, or change what scheduling reads.
LEMMA CommandTypes ==
    ASSUME TypeInv, Command \/ DaemonTick \/ EventHint \/ IntervalElapses
    PROVE  TypeInv'
<1> USE DEF TypeInv, TypeOK, HistoryInv, KeysInv, tree, store, work, fixed, PC, Trying, Keyless
<1>1. CASE \E c \in {"manual", "dry"} : StartManual(c)
  BY <1>1 DEF StartManual, Goto
<1>2. CASE StartResume
  BY <1>2 DEF StartResume, Goto, SetState
<1>3. CASE StartDaemon
  BY <1>3 DEF StartDaemon, Goto
<1>4. CASE StopDaemon
  BY <1>4 DEF StopDaemon, Goto
<1>5. CASE Pause
  BY <1>5 DEF Pause, SetState
<1>6. CASE DaemonTick
  BY <1>6 DEF DaemonTick, Goto
<1>7. CASE EventHint
  BY <1>7 DEF EventHint
<1>8. CASE IntervalElapses
  BY <1>8 DEF IntervalElapses
<1> QED
  BY <1>1, <1>2, <1>3, <1>4, <1>5, <1>6, <1>7, <1>8 DEF Command

LEMMA FinishingTypes ==
    ASSUME TypeInv, Begin \/ FinishDryRun \/ Throw \/ FailScan \/ Crash
    PROVE  TypeInv'
<1> USE DEF TypeInv, TypeOK, HistoryInv, KeysInv, tree, store, work, fixed, PC, Trying, Keyless
<1> USE BoundsAreNat
<1>1. CASE Begin
  <2>1. CASE Return
    BY <1>1, <2>1, ReturnFinishes, FinishTypes DEF Begin
  <2>2. CASE ~ Return
    BY <1>1, <2>2 DEF Begin, Goto
  <2> QED
    BY <2>1, <2>2
<1>2. CASE FinishDryRun
  BY <1>2, ReturnFinishes, FinishTypes DEF FinishDryRun, DryRunClosed
<1>3. CASE Throw
  BY <1>3, FinishTypes DEF Throw
<1>4. CASE FailScan
  BY <1>4, ReturnFinishes, FinishTypes DEF FailScan
<1>5. CASE Crash
  BY <1>5, FinishTypes DEF Crash
<1> QED
  BY <1>1, <1>2, <1>3, <1>4, <1>5

\* The slices of a set of changes; one slice, if a batch holds them all.
LEMMA SlicesType ==
    ASSUME NEW cs, IsFiniteSet(cs), batchSize \in Nat \ {0}, \A ch \in cs : ch.path \in Nat
    PROVE  /\ Slices(cs) \in Seq(SUBSET cs)
           /\ cs # {} => Slices(cs) # <<>>
           /\ cs # {} /\ Cardinality(cs) <= batchSize => Slices(cs) = <<cs>>
<1> DEFINE count == (Cardinality(cs) + batchSize - 1) \div batchSize
           slice(n) == {ch \in cs : Rank(ch, cs) \div batchSize = n - 1}
<1>1. Cardinality(cs) \in Nat /\ (cs # {} => Cardinality(cs) # 0)
  BY FS_CardinalityType, FS_EmptySet
<1>2. count \in Nat
  BY <1>1
<1>3. cs # {} => count >= 1
  BY <1>1
<1>4. cs # {} /\ Cardinality(cs) <= batchSize => count = 1
  BY <1>1
<1>5. Slices(cs) = [n \in 1 .. count |-> slice(n)]
  BY DEF Slices
<1> HIDE DEF count
<1>6. Slices(cs) \in Seq(SUBSET cs) /\ Len(Slices(cs)) = count
  <2>1. \A n \in 1 .. count : slice(n) \in SUBSET cs
    OBVIOUS
  <2> HIDE DEF slice
  <2> QED
    BY <1>2, <1>5, <2>1
<1>7. ASSUME cs # {}, Cardinality(cs) <= batchSize PROVE slice(1) = cs
  <2>1. ASSUME NEW ch \in cs PROVE Rank(ch, cs) \in Nat /\ Rank(ch, cs) < batchSize
    <3> DEFINE lower == {d \in cs : d.path < ch.path}
    <3>1. lower \in SUBSET cs /\ IsFiniteSet(lower) /\ Cardinality(lower) \in Nat
          /\ Cardinality(lower) <= Cardinality(cs)
          /\ (Cardinality(cs) = Cardinality(lower) => lower = cs)
      BY FS_Subset, FS_CardinalityType
    <3>2. ch \notin lower
      OBVIOUS
    <3>3. Cardinality(lower) < Cardinality(cs)
      BY <3>1, <3>2, <1>1, <2>1
    <3> QED
      BY <3>1, <3>3, <1>1, <1>7 DEF Rank
  <2>2. ASSUME NEW ch \in cs PROVE Rank(ch, cs) \div batchSize = 1 - 1
    <3>1. Rank(ch, cs) \in Nat /\ Rank(ch, cs) < batchSize
      BY <2>1, <2>2
    <3> QED
      BY <3>1
  <2> QED
    BY <2>2
<1> HIDE DEF slice
<1> QED
  BY <1>3, <1>4, <1>5, <1>6, <1>7

LEMMA ScanTypes ==
    ASSUME TypeInv,
           \/ \E f \in Files : InventoryFile(f) \/ ArchiveFile(f)
           \/ PersistBatch \/ AcceptBatch \/ PublishSnapshot \/ RecordReceipt
           \/ \E f \in Files : GraceElapses(f)
    PROVE  TypeInv'
<1> USE DEF TypeInv, TypeOK, HistoryInv, KeysInv, tree, store, work, fixed, PC, Trying, Keyless
<1>1. ASSUME NEW f \in Files, InventoryFile(f) PROVE TypeInv'
  BY <1>1 DEF InventoryFile
<1>2. ASSUME NEW f \in Files, ArchiveFile(f) PROVE TypeInv'
  <2>1. file[f].c \in Contents
    BY DEF Entry
  <2> QED
    BY <1>2, <2>1 DEF ArchiveFile
<1>3. CASE PersistBatch
  <2>1. queue # <<>> /\ queue \in Seq(SUBSET Change)
    BY <1>3 DEF PersistBatch
  <2>2. Head(queue) \in SUBSET Change /\ Tail(queue) \in Seq(SUBSET Change)
        /\ Len(Tail(queue)) = Len(queue) - 1 /\ Len(queue) \in Nat \ {0}
    BY <2>1, HeadTailProperties, EmptySeq
  <2>3. Len(queue) # 1 => Tail(queue) # <<>>
    <3>1. Tail(queue) = <<>> => Len(Tail(queue)) = 0
      BY EmptySeq
    <3> QED
      BY <2>2, <3>1
  <2>4. Append(keys, Head(queue)) \in Seq(SUBSET Change)
    BY <2>2
  <2> QED
    BY <1>3, <2>2, <2>3, <2>4 DEF PersistBatch, Goto
<1>4. CASE AcceptBatch
  BY <1>4 DEF AcceptBatch, Goto
<1>5. CASE PublishSnapshot
  BY <1>5 DEF PublishSnapshot, Goto
<1>6. CASE RecordReceipt
  <2>1. ASSUME NEW n \in DOMAIN keys PROVE keys[n] \in SUBSET Change
    <3>1. keys \in Seq(SUBSET Change)
      BY DEF TypeOK
    <3> QED
      BY <2>1, <3>1, LenProperties, ElementOfSeq
  <2>2. CASE Unrecorded(keys) = {}
    <3>1. \A n \in DOMAIN keys : keys[n] \in receipts
      BY <2>2 DEF Unrecorded
    <3> QED
      BY <1>6, <2>2, <3>1 DEF RecordReceipt, Goto
  <2>3. CASE Unrecorded(keys) # {}
    <3>1. PICK n \in Unrecorded(keys) : receipts' = receipts \cup {keys[n]}
      BY <1>6, <2>3 DEF RecordReceipt
    <3>2. keys[n] \in SUBSET Change
      BY <2>1 DEF Unrecorded
    <3> QED
      BY <1>6, <2>3, <3>1, <3>2 DEF RecordReceipt, Goto
  <2> QED
    BY <2>2, <2>3
<1>7. ASSUME NEW f \in Files, GraceElapses(f) PROVE TypeInv'
  <2>1. obs' \in [Files -> Row]
    <3>1. obs[f] \in Row
      BY DEF TypeOK
    <3>2. [obs[f] EXCEPT !.state = "overdue"] \in Row
      BY <3>1 DEF Row
    <3> QED
      BY <1>7, <3>2 DEF GraceElapses
  <2> QED
    BY <1>7, <2>1 DEF GraceElapses
<1> QED
  BY <1>1, <1>2, <1>3, <1>4, <1>5, <1>6, <1>7

LEMMA ClassifyTypes ==
    ASSUME TypeInv, ClassifyInventory
    PROVE  TypeInv'
<1>1. inv \in [Files -> Entry] /\ batchSize \in Nat \ {0} /\ pc = "inventory"
  BY BatchSizeAssumption DEF TypeInv, TypeOK, ClassifyInventory
<1> DEFINE cs == Classify(inv).changes
<1>2. cs \subseteq Change /\ Classify(inv).pending \subseteq Files /\ IsFiniteSet(cs)
  BY <1>1, ChangesType, ChangesAreFew
<1>p. \A ch \in cs : ch.path \in Nat
  BY <1>2, FilesFinite DEF Change
<1>3. Slices(cs) \in Seq(SUBSET cs) /\ (cs # {} => Slices(cs) # <<>>)
  <2> HIDE DEF cs
  <2> QED
    BY <1>p, <1>1, <1>2, SlicesType
<1>4. Slices(cs) \in Seq(SUBSET Change)
  <2>1. SUBSET cs \subseteq SUBSET Change
    BY <1>2
  <2> QED
    BY <1>3, <2>1, SeqMonotonic
<1>5. /\ changes' = cs /\ pending' = Classify(inv).pending /\ queue' = Slices(cs)
      /\ pc' \in {"dryEnd", "complete", "persist"} /\ (pc' = "persist" => cs # {})
      /\ UNCHANGED <<tree, store, cmd, left, inv, copy, keys, fixed>>
  BY DEF ClassifyInventory, Goto
<1>6. keys = <<>>
  BY <1>1 DEF TypeInv, KeysInv, Keyless
<1> HIDE DEF cs
<1> QED
  BY <1>2, <1>3, <1>4, <1>5, <1>6
     DEF TypeInv, TypeOK, HistoryInv, KeysInv, tree, store, work, fixed, PC, Trying, Keyless

LEMMA CompleteTypes ==
    ASSUME TypeInv, CompleteScan
    PROVE  TypeInv'
<1>1. obs' \in [Files -> Row]
  <2>1. ASSUME NEW f \in Files PROVE NewRow(f) \in Row
    <3>1. obs[f] \in Row /\ inv[f] \in Entry
      BY DEF TypeInv, TypeOK
    <3>2. /\ [state |-> "active", hash |-> inv[f].c, ino |-> inv[f].i] \in Row
          /\ [obs[f] EXCEPT !.state = "deleted"] \in Row
          /\ [obs[f] EXCEPT !.state = "missing"] \in Row
      BY <3>1 DEF Row, Entry
    <3>3. NoRow \in Row
      BY AbsentIsEntry, FilesFinite DEF NoRow, Row
    <3> QED
      BY <3>1, <3>2, <3>3 DEF NewRow
  <2> QED
    BY <2>1 DEF CompleteScan
<1>2. \A n \in DOMAIN keys : keys[n] \in receipts
  BY DEF TypeInv, KeysInv, CompleteScan
<1>3. succeeded' \subseteq receipts'
  BY <1>2 DEF CompleteScan, TypeInv, TypeOK
<1>4. PICK l \in {"daemon", "idle"} : Finish(l)
  BY ReturnFinishes DEF CompleteScan
<1> QED
  BY <1>1, <1>3, <1>4, FinishTypes
     DEF CompleteScan, TypeInv, TypeOK, HistoryInv, KeysInv, tree, fixed, PC, Trying, Keyless

LEMMA RangeGrows ==
    ASSUME NEW a \in Nat, NEW b \in Nat, a <= b
    PROVE  0 .. a + 1 \subseteq 0 .. b + 1 /\ \A c \in Nat : c <= a + 1 => c <= b + 1
OBVIOUS

\* An edit gives every path a content that is new, or one that was there.
LEMMA UserEdits ==
    ASSUME TypeInv, User
    PROVE  \E tr \in [Files -> Entry] : Edit(tr) /\ \A f \in Files : tr[f].c <= edits' + 1
<1> DEFINE Goal == \E tr \in [Files -> Entry] :
                      Edit(tr) /\ \A f \in Files : tr[f].c <= edits' + 1
<1>1. /\ file \in [Files -> Entry] /\ past \in [Files -> SUBSET Contents]
      /\ edits \in 0 .. MaxEdits /\ MaxEdits \in Nat
      /\ \A f \in Files : past[f] \subseteq 0 .. edits + 1
      /\ \A f \in Files : file[f].c \in Nat /\ file[f].c <= edits + 1
  <2>1. /\ file \in [Files -> Entry] /\ past \in [Files -> SUBSET Contents]
        /\ edits \in 0 .. MaxEdits /\ MaxEdits \in Nat /\ HistoryInv
    BY BoundsAreNat DEF TypeInv, TypeOK
  <2>2. ASSUME NEW f \in Files PROVE file[f].c \in Nat /\ file[f].c <= edits + 1
    <3>1. file[f].c \in 0 .. edits + 1
      BY <2>1 DEF HistoryInv
    <3> QED
      BY <2>1, <3>1
  <2> QED
    BY <2>1, <2>2 DEF HistoryInv
<1>2. ASSUME NEW tr, Edit(tr)
      PROVE  /\ edits' \in {edits, edits + 1}
             /\ \/ edits < MaxEdits /\ edits' = edits + 1
                \/ \E f \in Files : tr[f].c # file[f].c /\ tr[f].c \in past[f]
  BY <1>2 DEF Edit
<1>3. ASSUME NEW f \in Files, NEW c \in Nat, Write(f, c), c <= edits' + 1, c \in Contents
      PROVE  Goal
  <2>1. PICK i \in 1 .. Cardinality(Files) : Edit([file EXCEPT ![f] = [c |-> c, i |-> i]])
    BY <1>3 DEF Write
  <2> DEFINE tr == [file EXCEPT ![f] = [c |-> c, i |-> i]]
  <2>2. [c |-> c, i |-> i] \in Entry
    BY <1>3, FilesFinite DEF Entry
  <2>3. tr \in [Files -> Entry]
    BY <1>1, <2>2
  <2>4. Edit(tr)
    BY <2>1
  <2>5. edits' \in {edits, edits + 1}
    BY <1>2, <2>4
  <2>6. ASSUME NEW g \in Files PROVE tr[g].c <= edits' + 1
    <3>1. CASE g = f
      BY <1>1, <1>3, <3>1
    <3>2. CASE g # f
      BY <1>1, <2>5, <3>2
    <3> QED
      BY <3>1, <3>2
  <2> QED
    BY <2>3, <2>4, <2>6
<1>4. ASSUME NEW f \in Files, SaveFile(f) PROVE Goal
  <2>1. PICK i \in 1 .. Cardinality(Files) :
           Edit([file EXCEPT ![f] = [c |-> edits + 2, i |-> i]])
    BY <1>4 DEF SaveFile, Write
  <2> DEFINE tr == [file EXCEPT ![f] = [c |-> edits + 2, i |-> i]]
  <2>2. \A g \in Files : tr[g].c # file[g].c => g = f /\ tr[g].c = edits + 2
    BY <1>1
  <2>3. edits + 2 \notin past[f]
    BY <1>1
  <2>4. edits < MaxEdits /\ edits' = edits + 1
    <3> HIDE DEF tr
    <3>1. Edit(tr)
      BY <2>1 DEF tr
    <3> QED
      BY <1>2, <2>2, <2>3, <3>1
  <2>5. edits + 2 \in Nat /\ edits + 2 <= edits' + 1 /\ edits + 2 \in Contents
    BY <1>1, <2>4 DEF Contents
  <2> QED
    BY <1>3, <1>4, <2>5 DEF SaveFile
<1>5. ASSUME NEW f \in Files, RevertFile(f) PROVE Goal
  <2>1. PICK c \in past[f] : Write(f, c)
    BY <1>5 DEF RevertFile
  <2>2. c \in Nat /\ c <= edits + 1 /\ c \in Contents
    BY <1>1
  <2>3. edits' \in {edits, edits + 1}
    BY <1>2, <2>1 DEF Write
  <2>4. c <= edits' + 1
    <3>1. edits \in Nat /\ c \in Nat /\ c <= edits + 1
      BY <1>1, <2>2
    <3>2. edits' \in Nat /\ edits <= edits'
      BY <3>1, <2>3
    <3> QED
      BY <3>1, <3>2, RangeGrows
  <2> QED
    BY <1>3, <2>1, <2>2, <2>4
<1>6. ASSUME NEW f \in Files, RemoveFile(f) PROVE Goal
  <2> DEFINE tr == [file EXCEPT ![f] = Absent]
  <2>1. Edit(tr) /\ tr \in [Files -> Entry]
    BY <1>1, <1>6, AbsentIsEntry DEF RemoveFile
  <2>2. edits' \in {edits, edits + 1}
    BY <1>2, <2>1
  <2>3. \A g \in Files : tr[g].c \in Nat /\ tr[g].c <= edits + 1
    BY <1>1, AbsentIsEntry
  <2>4. \A g \in Files : tr[g].c <= edits' + 1
    <3> HIDE DEF tr
    <3> QED
      BY <1>1, <2>2, <2>3
  <2> QED
    BY <2>1, <2>4
<1>7. ASSUME NEW f \in Files, NEW g \in Files, MoveFile(f, g) PROVE Goal
  <2> DEFINE tr == [file EXCEPT ![g] = file[f], ![f] = Absent]
  <2>1. Edit(tr) /\ tr \in [Files -> Entry]
    BY <1>1, <1>7, AbsentIsEntry DEF MoveFile
  <2>2. edits' \in {edits, edits + 1}
    BY <1>2, <2>1
  <2>3. \A h \in Files : tr[h].c \in Nat /\ tr[h].c <= edits + 1
    BY <1>1, AbsentIsEntry
  <2>4. \A h \in Files : tr[h].c <= edits' + 1
    <3> HIDE DEF tr
    <3> QED
      BY <1>1, <2>2, <2>3
  <2> QED
    BY <2>1, <2>4
<1> QED
  BY <1>4, <1>5, <1>6, <1>7 DEF User

LEMMA EditTypes ==
    ASSUME TypeInv, User
    PROVE  TypeInv'
<1>1. PICK tr \in [Files -> Entry] : Edit(tr) /\ \A f \in Files : tr[f].c <= edits' + 1
  BY UserEdits
<1>2. /\ file' = tr
      /\ past' = [f \in Files |-> past[f] \cup
                     ({tr[f].c} \ (IF tr[f].c = file[f].c THEN {0} ELSE {}))]
      /\ \/ edits < MaxEdits /\ edits' = edits + 1 /\ reverts' = reverts
         \/ reverts < MaxReverts /\ reverts' = reverts + 1 /\ edits' = edits
      /\ UNCHANGED <<store, pc, cmd, work, fixed>>
  BY <1>1 DEF Edit
<1>3. TypeOK /\ HistoryInv /\ KeysInv
  BY DEF TypeInv
<1>4. edits' \in 0 .. MaxEdits /\ reverts' \in 0 .. MaxReverts /\ edits <= edits' /\ edits \in Nat
  BY <1>2, <1>3, BoundsAreNat DEF TypeOK
<1>5. \A f \in Files : tr[f].c \in Contents /\ tr[f].c \in 0 .. edits' + 1
  BY <1>1, <1>4, BoundsAreNat DEF Entry, Contents
<1>6. past' \in [Files -> SUBSET Contents]
  BY <1>2, <1>3, <1>5 DEF TypeOK
<1>7. HistoryInv'
  <2>1. ASSUME NEW f \in Files PROVE past'[f] \subseteq 0 .. edits' + 1
    <3>1. past[f] \subseteq 0 .. edits + 1
      BY <1>3 DEF HistoryInv
    <3>a. edits \in Nat /\ edits' \in Nat /\ edits <= edits'
      BY <1>4, BoundsAreNat
    <3>2. 0 .. edits + 1 \subseteq 0 .. edits' + 1
      BY <3>a, RangeGrows
    <3> QED
      BY <1>2, <1>5, <3>1, <3>2
  <2>2. ASSUME NEW f \in Files
        PROVE  file'[f].c \in past'[f] \/ (file'[f].c = 0 /\ past'[f] = {})
    BY <1>2, <1>3 DEF HistoryInv
  <2> QED
    BY <2>1, <2>2 DEF HistoryInv
<1> QED
  BY <1>1, <1>2, <1>3, <1>4, <1>6, <1>7
     DEF TypeInv, TypeOK, KeysInv, store, work, fixed

LEMMA TypeStep ==
    ASSUME TypeInv, [Next]_vars
    PROVE  TypeInv'
<1>1. CASE Next
  BY <1>1, CommandTypes, FinishingTypes, ScanTypes, ClassifyTypes, CompleteTypes, EditTypes
     DEF Next, Step, Time
<1>2. CASE UNCHANGED vars
  BY <1>2 DEF vars, TypeInv, TypeOK, HistoryInv, KeysInv, tree, store, work, fixed
<1> QED
  BY <1>1, <1>2

LEMMA TypeAlways == Spec => []TypeInv
<1>1. Init => TypeInv
  BY TypeInit
<1>2. TypeInv /\ [Next]_vars => TypeInv'
  BY TypeStep
<1> QED
  BY <1>1, <1>2, PTL DEF Spec

\* The variables keep their types; a batch is marked as succeeded only once the
\* Source has a receipt for it, and a scan that persists has a slice to persist
\* (scan-result-repository.ts, source-store.ts).
THEOREM TypeCorrect == Spec => []TypeOK
<1>1. TypeInv => TypeOK
  BY DEF TypeInv
<1> QED
  BY <1>1, TypeAlways, PTL

-----------------------------------------------------------------------------
(* Scan runs are closed                                                    *)

\* A run is open while its scan works, or since a kill; a daemon has closed what
\* it found, and only it schedules.
RunInv ==
    /\ openScan => pc \in Trying \cup {"fail"} \/ crashes > 0
    /\ pc = "daemon" => cmd = "schedule" /\ ~openScan
    /\ pc = "start" /\ cmd = "schedule" => ~openScan
    /\ pc = "idle" => cmd # "schedule"

LEMMA RunStep ==
    ASSUME TypeInv, RunInv, [Next]_vars
    PROVE  RunInv'
<1> USE DEF RunInv, Trying, tree, store, work, fixed, Goto, Finish, Return
<1>0. crashes \in Nat
  BY BoundsAreNat DEF TypeInv, TypeOK
<1>1. CASE Command
  BY <1>1 DEF Command, StartManual, StartResume, StartDaemon, StopDaemon, Pause
<1>2. CASE Begin
  BY <1>2 DEF Begin
<1>3. CASE DaemonTick \/ PersistBatch \/ AcceptBatch \/ PublishSnapshot \/ RecordReceipt
  BY <1>3 DEF DaemonTick, PersistBatch, AcceptBatch, PublishSnapshot, RecordReceipt
<1>4. CASE ClassifyInventory
  <2>1. pc = "inventory" /\ pc' \in {"dryEnd", "complete", "persist"} /\ UNCHANGED <<store, cmd, fixed>>
    BY <1>4 DEF ClassifyInventory
  <2> QED
    BY <2>1
<1>5. CASE FinishDryRun \/ CompleteScan \/ FailScan
  BY <1>5 DEF FinishDryRun, CompleteScan, FailScan, DryRunClosed
<1>6. CASE \E f \in Files : InventoryFile(f) \/ ArchiveFile(f)
  BY <1>6 DEF InventoryFile, ArchiveFile
<1>7. CASE User
  <2>1. PICK tr : Edit(tr)
    BY <1>7, UserEdits
  <2> QED
    BY <2>1 DEF Edit
<1>8. CASE Time \/ EventHint
  BY <1>8 DEF Time, IntervalElapses, GraceElapses, EventHint
<1>9. CASE Throw
  BY <1>9 DEF Throw
<1>10. CASE Crash
  BY <1>0, <1>10 DEF Crash
<1>11. CASE UNCHANGED vars
  BY <1>11 DEF vars
<1> QED
  BY <1>1, <1>2, <1>3, <1>4, <1>5, <1>6, <1>7, <1>8, <1>9, <1>10, <1>11 DEF Next, Step

\* Only a killed command leaves a scan run open, which would refuse every later
\* scan of the connection; a daemon that waits has none open, also after it has
\* been refused, has failed, or has found one of an earlier process
\* (scan-result-repository.ts, connection-query-repository.ts).
THEOREM ScansEnd == Spec => []ScanRunsAreClosed
<1>1. Init => RunInv
  BY DEF Init, RunInv, Trying
<1>2. TypeInv /\ RunInv /\ [Next]_vars => RunInv'
  BY RunStep
<1>3. RunInv => ScanRunsAreClosed
  BY DEF RunInv, ScanRunsAreClosed, AtRest, Trying
<1> QED
  BY <1>1, <1>2, <1>3, TypeAlways, PTL DEF Spec

-----------------------------------------------------------------------------
(* Differences to the archive stay visible                                 *)

\* The contents the database knows of a path: of its row, of the batches with a
\* receipt, and of the classification of the running scan.
Live == {"active", "missing", "overdue"}
InBatch(cs, f, x) == \E ch \in cs : ch.path = f /\ ch.hash = x
InStore(f, x) ==
    \/ obs[f].state \in Live /\ obs[f].hash = x
    \/ obs[f].state = "deleted" /\ x = 0
    \/ \E cs \in receipts : InBatch(cs, f, x)
Known(f, x) == InStore(f, x) \/ InBatch(changes, f, x)

\* If the path still has a content that is known, then y has it too.  An edit that
\* is no revert gives a path a content it never had, so it cannot break this
\* of contents of the past.
Kept(f, x, y) == file[f].c = x => y = x

KnownIsPast == \A f \in Files, x \in Contents : Known(f, x) => x \in past[f]
StoreIsKept == \A f \in Files, x \in Contents : InStore(f, x) => Kept(f, x, archived[f])
CopyIsKept == pc = "archive" =>
    \A f \in Files \ left, x \in Contents : Known(f, x) => Kept(f, x, copy[f])
ChangesAreKept == pc \in {"receipt", "complete"} =>
    \A f \in Files, x \in Contents : InBatch(changes, f, x) => Kept(f, x, archived[f])
ReadIsPast == pc = "inventory" =>
    \A f \in Files \ left : inv[f].c \in past[f] \/ (inv[f].c = 0 /\ obs[f].state = "none")
ReadIsKnown == pc \in {"persist", "accept", "archive", "receipt", "complete"} =>
    /\ \A f \in Files : inv[f].c # 0 =>
          \/ obs[f].state \in Live /\ obs[f].hash = inv[f].c
          \/ InBatch(changes, f, inv[f].c)
    /\ \A ch \in changes : ch.kind = "deleted" => ch.hash = 0
BatchIsAll ==
    /\ pc = "persist" => keys = <<>> /\ queue = <<changes>>
    /\ pc \in {"accept", "archive", "receipt"} => keys = <<changes>>

ArchInv ==
    /\ KnownIsPast /\ StoreIsKept /\ CopyIsKept /\ ChangesAreKept
    /\ ReadIsPast /\ ReadIsKnown /\ BatchIsAll

\* A step that leaves the directory and the store alone, outside of a scan.
LEMMA ArchOutside ==
    ASSUME ArchInv, UNCHANGED <<tree, obs, receipts, archived>>,
           changes' = changes \/ changes' = {}, pc' \in PC \ (Trying \ {"dryEnd"})
    PROVE  ArchInv'
<1> USE DEF Known, InStore, InBatch, Kept, tree, PC, Trying
<1>1. KnownIsPast'
  BY DEF ArchInv, KnownIsPast
<1>2. StoreIsKept'
  BY DEF ArchInv, StoreIsKept
<1> QED
  BY <1>1, <1>2 DEF ArchInv, CopyIsKept, ChangesAreKept, ReadIsPast, ReadIsKnown, BatchIsAll

LEMMA ArchQuiet ==
    ASSUME ArchInv, UNCHANGED <<tree, obs, receipts, archived, pc, work>>
    PROVE  ArchInv'
BY DEF ArchInv, KnownIsPast, StoreIsKept, CopyIsKept, ChangesAreKept, ReadIsPast,
       ReadIsKnown, BatchIsAll, Known, InStore, InBatch, Kept, tree, work

\* A missing file becomes overdue: the content of its row stays known.
LEMMA ArchGrace ==
    ASSUME TypeInv, ArchInv, NEW g \in Files, GraceElapses(g)
    PROVE  ArchInv'
<1>1. /\ obs \in [Files -> Row] /\ obs[g].state = "missing"
      /\ obs' = [obs EXCEPT ![g].state = "overdue"]
      /\ UNCHANGED <<tree, receipts, archived, pc, work>>
  BY DEF GraceElapses, TypeInv, TypeOK
<1>2. \A f \in Files : /\ obs'[f].hash = obs[f].hash
                       /\ obs'[f].state \in Live <=> obs[f].state \in Live
                       /\ obs'[f].state = "deleted" <=> obs[f].state = "deleted"
                       /\ obs'[f].state = "none" <=> obs[f].state = "none"
  BY <1>1 DEF Row, Live
<1>3. \A f \in Files, x \in Contents :
         (InStore(f, x)' <=> InStore(f, x)) /\ (Known(f, x)' <=> Known(f, x))
  BY <1>1, <1>2 DEF InStore, Known, InBatch, work
<1>4. KnownIsPast' /\ StoreIsKept' /\ CopyIsKept'
  BY <1>1, <1>3 DEF ArchInv, KnownIsPast, StoreIsKept, CopyIsKept, Kept, tree, work
<1>5. ChangesAreKept' /\ ReadIsPast' /\ ReadIsKnown' /\ BatchIsAll'
  BY <1>1, <1>2
     DEF ArchInv, ChangesAreKept, ReadIsPast, ReadIsKnown, BatchIsAll, InBatch, Kept, tree, work
<1> QED
  BY <1>4, <1>5 DEF ArchInv

\* An edit that is no revert.
LEMMA ArchEdit ==
    ASSUME TypeInv, ArchInv, User, reverts' = 0
    PROVE  ArchInv'
<1>1. PICK tr \in [Files -> Entry] : Edit(tr)
  BY UserEdits
<1>2. reverts \in Nat
  BY BoundsAreNat DEF TypeInv, TypeOK
<1>3. /\ file' = tr
      /\ past' = [f \in Files |-> past[f] \cup
                     ({tr[f].c} \ (IF tr[f].c = file[f].c THEN {0} ELSE {}))]
      /\ UNCHANGED <<store, pc, cmd, work, fixed>>
      /\ \A f \in Files : tr[f].c # file[f].c => tr[f].c \notin past[f]
  BY <1>1, <1>2 DEF Edit
<1>4. /\ \A f \in Files : past[f] \subseteq past'[f]
      /\ \A f \in Files : \A x \in past[f] : file'[f].c = x => file[f].c = x
  BY <1>3
<1>5. \A f \in Files, x \in Contents :
         (InStore(f, x)' <=> InStore(f, x)) /\ (Known(f, x)' <=> Known(f, x))
  BY <1>3 DEF InStore, Known, InBatch, store, work
<1> USE <1>3 DEF ArchInv, store, work
<1>7. KnownIsPast'
  BY <1>4, <1>5 DEF KnownIsPast
<1>8. StoreIsKept'
  <2>1. ASSUME NEW f \in Files, NEW x \in Contents, InStore(f, x)'
        PROVE  Kept(f, x, archived[f])'
    <3>1. InStore(f, x) /\ Known(f, x)
      BY <1>5, <2>1 DEF Known
    <3>2. Kept(f, x, archived[f])
      BY <3>1 DEF StoreIsKept
    <3> QED
      BY <1>4, <3>1, <3>2 DEF KnownIsPast, Kept
  <2> QED
    BY <2>1 DEF StoreIsKept
<1>9. CopyIsKept'
  <2>1. ASSUME pc = "archive", NEW f \in Files \ left, NEW x \in Contents, Known(f, x)'
        PROVE  Kept(f, x, copy[f])'
    <3>1. Known(f, x)
      BY <1>5, <2>1
    <3>2. Kept(f, x, copy[f])
      BY <2>1, <3>1 DEF CopyIsKept
    <3> QED
      BY <1>4, <3>1, <3>2 DEF KnownIsPast, Kept
  <2> QED
    BY <2>1 DEF CopyIsKept
<1>10. ChangesAreKept'
  <2>1. ASSUME pc \in {"receipt", "complete"}, NEW f \in Files, NEW x \in Contents,
               InBatch(changes, f, x)
        PROVE  Kept(f, x, archived[f])'
    <3>1. Known(f, x)
      BY <2>1 DEF Known
    <3>2. Kept(f, x, archived[f])
      BY <2>1 DEF ChangesAreKept
    <3> QED
      BY <1>4, <3>1, <3>2 DEF KnownIsPast, Kept
  <2> QED
    BY <2>1 DEF ChangesAreKept, InBatch
<1>11. ReadIsPast' /\ ReadIsKnown' /\ BatchIsAll'
  BY <1>4 DEF ReadIsPast, ReadIsKnown, BatchIsAll, InBatch
<1> QED
  BY <1>7, <1>8, <1>9, <1>10, <1>11

\* The scan reads the directory.
LEMMA ArchInventory ==
    ASSUME TypeInv, ArchInv, NEW g \in Files, InventoryFile(g)
    PROVE  ArchInv'
<1>1. /\ pc = "inventory" /\ inv' = [inv EXCEPT ![g] = file[g]] /\ left' = left \ {g}
      /\ UNCHANGED <<tree, store, pc, changes, keys, queue>>
      /\ inv \in [Files -> Entry]
  BY DEF InventoryFile, TypeInv, TypeOK
<1>2. KnownIsPast' /\ StoreIsKept'
  BY <1>1 DEF ArchInv, KnownIsPast, StoreIsKept, Known, InStore, InBatch, Kept, tree, store
<1>3. ReadIsPast'
  <2>1. file[g].c \in past[g] \/ (file[g].c = 0 /\ past[g] = {})
    BY DEF TypeInv, HistoryInv
  <2>2. past[g] = {} => obs[g].state = "none"
    <3>1. obs[g] \in Row
      BY DEF TypeInv, TypeOK
    <3>2. obs[g].state \in Live \cup {"deleted", "none"} /\ obs[g].hash \in Contents
      BY <3>1 DEF Row, Live
    <3>3. obs[g].state \in Live => obs[g].hash \in past[g]
      BY <3>2 DEF ArchInv, KnownIsPast, Known, InStore
    <3>4. obs[g].state = "deleted" => 0 \in past[g]
      BY AbsentIsEntry DEF ArchInv, KnownIsPast, Known, InStore
    <3> QED
      BY <3>2, <3>3, <3>4
  <2>3. ASSUME NEW f \in Files \ left'
        PROVE  inv'[f].c \in past[f] \/ (inv'[f].c = 0 /\ obs[f].state = "none")
    <3>1. CASE f = g
      BY <1>1, <2>1, <2>2, <3>1
    <3>2. CASE f # g
      BY <1>1, <3>2 DEF ArchInv, ReadIsPast
    <3> QED
      BY <3>1, <3>2
  <2> QED
    BY <1>1, <2>3 DEF ReadIsPast, tree, store
<1> QED
  BY <1>1, <1>2, <1>3 DEF ArchInv, CopyIsKept, ChangesAreKept, ReadIsKnown, BatchIsAll

\* The classification knows the content of every file that was read.
LEMMA ClassifyKnows ==
    ASSUME TypeInv, ReadIsPast, pc = "inventory", left = {}
    PROVE  /\ \A ch \in Classify(inv).changes :
                /\ ch.path \in Files /\ ch.hash \in past[ch.path]
                /\ ch.kind = "deleted" => ch.hash = 0
           /\ \A f \in Files : inv[f].c # 0 =>
                \/ obs[f].state \in Live /\ obs[f].hash = inv[f].c
                \/ InBatch(Classify(inv).changes, f, inv[f].c)
<1> DEFINE cs == Classify(inv).changes
<1>1. \A f \in Files : inv[f].c \in past[f] \/ (inv[f].c = 0 /\ obs[f].state = "none")
  BY DEF ReadIsPast
<1>2. ASSUME NEW ch \in cs
      PROVE  /\ ch.path \in Files /\ ch.hash \in past[ch.path]
             /\ ch.kind = "deleted" => ch.hash = 0
  <2> USE DEF ItemOf
  <2>1. CASE Restored(inv, ch) \/ Modified(inv, ch)
    BY <1>1, <2>1 DEF Restored, Modified, Matched, Present
  <2>2. CASE Renamed(inv, ch)
    BY <1>1, <2>2 DEF Renamed, NewPaths, Present
  <2>3. CASE Created(inv, ch)
    BY <1>1, <2>3 DEF Created, NewPaths, Present
  <2>4. CASE Deleted(inv, ch)
    BY <1>1, <2>4 DEF Deleted, Vanished, Present
  <2> QED
    BY <2>1, <2>2, <2>3, <2>4, ClassifyIs
<1>3. ASSUME NEW f \in Files, inv[f].c # 0
      PROVE  \/ obs[f].state \in Live /\ obs[f].hash = inv[f].c
             \/ InBatch(cs, f, inv[f].c)
  <2>0. obs[f].state \in Live \cup {"deleted", "none"}
    BY DEF TypeInv, TypeOK, Row, Live
  <2>1. CASE obs[f].state = "none"
    <3>1. f \in NewPaths(inv)
      BY <1>3, <2>1 DEF NewPaths, Present
    <3>2. CASE Renames(inv)[f] = {}
      <4>1. Created(inv, ItemOf("created", f, 0, inv[f].c))
        BY <3>1, <3>2 DEF Created
      <4> QED
        BY <4>1, ClassifyIs DEF InBatch, ItemOf
    <3>3. CASE Renames(inv)[f] # {}
      <4>1. PICK h \in Renames(inv)[f] : TRUE
        BY <3>3
      <4>2. Renamed(inv, ItemOf("renamed", f, h, inv[f].c))
        BY <3>1, <4>1 DEF Renamed
      <4> QED
        BY <4>2, ClassifyIs DEF InBatch, ItemOf
    <3> QED
      BY <3>2, <3>3
  <2>2. CASE obs[f].state = "deleted"
    <3>1. Restored(inv, ItemOf("restored", f, 0, inv[f].c))
      BY <1>3, <2>2 DEF Restored, Matched, Present
    <3> QED
      BY <3>1, ClassifyIs DEF InBatch, ItemOf
  <2>3. CASE obs[f].state \in Live /\ obs[f].hash # inv[f].c
    <3>1. Modified(inv, ItemOf("modified", f, 0, inv[f].c))
      BY <1>3, <2>3 DEF Modified, Matched, Present, Live
    <3> QED
      BY <3>1, ClassifyIs DEF InBatch, ItemOf
  <2> QED
    BY <2>0, <2>1, <2>2, <2>3
<1> QED
  BY <1>2, <1>3

LEMMA ArchClassify ==
    ASSUME TypeInv, ArchInv, OneBatch, ClassifyInventory
    PROVE  ArchInv'
<1> DEFINE cs == Classify(inv).changes
<1>1. /\ pc = "inventory" /\ left = {}
      /\ changes' = cs /\ queue' = Slices(cs)
      /\ pc' \in {"dryEnd", "complete", "persist"}
      /\ pc' = "complete" => cs = {}
      /\ pc' = "persist" => cs # {}
      /\ UNCHANGED <<tree, store, inv, keys>>
  BY DEF ClassifyInventory, Goto
<1>2. inv \in [Files -> Entry] /\ batchSize \in Nat \ {0} /\ keys = <<>>
  BY <1>1, BatchSizeAssumption DEF TypeInv, TypeOK, KeysInv, Keyless
<1>3. /\ cs \subseteq Change /\ IsFiniteSet(cs)
      /\ Cardinality(cs) \in Nat /\ Cardinality(cs) <= batchSize
  <2>1. /\ cs \subseteq Change /\ IsFiniteSet(cs)
        /\ Cardinality(cs) \in Nat /\ Cardinality(cs) <= Cardinality(Files)
    BY <1>2, ChangesType, ChangesAreFew
  <2> HIDE DEF cs
  <2> QED
    BY <1>2, <2>1, FilesFinite DEF OneBatch
<1>4. /\ \A ch \in cs : /\ ch.path \in Files /\ ch.hash \in past[ch.path]
                        /\ ch.kind = "deleted" => ch.hash = 0
      /\ \A f \in Files : inv[f].c # 0 =>
            \/ obs[f].state \in Live /\ obs[f].hash = inv[f].c
            \/ InBatch(cs, f, inv[f].c)
  BY <1>1, ClassifyKnows DEF ArchInv
<1> HIDE DEF cs
<1>5. cs # {} => Slices(cs) = <<cs>>
  <2>1. \A ch \in cs : ch.path \in Nat
    BY <1>3, FilesFinite DEF Change
  <2> QED
    BY <1>2, <1>3, <2>1, SlicesType
<1>6. KnownIsPast'
  <2>1. \A f \in Files, x \in Contents : Known(f, x)' => Known(f, x) \/ InBatch(cs, f, x)
    BY <1>1 DEF Known, InStore, InBatch, store
  <2>2. \A f \in Files, x \in Contents : InBatch(cs, f, x) => x \in past[f]
    BY <1>4 DEF InBatch
  <2> QED
    BY <1>1, <2>1, <2>2 DEF ArchInv, KnownIsPast, tree
<1>7. StoreIsKept'
  BY <1>1 DEF ArchInv, StoreIsKept, InStore, InBatch, Kept, tree, store
<1>8. ReadIsKnown'
  <2>1. /\ \A f \in Files : inv'[f].c # 0 =>
             \/ obs'[f].state \in Live /\ obs'[f].hash = inv'[f].c
             \/ InBatch(changes', f, inv'[f].c)
        /\ \A ch \in changes' : ch.kind = "deleted" => ch.hash = 0
    BY <1>1, <1>4 DEF store
  <2> QED
    BY <2>1 DEF ReadIsKnown, InBatch
<1>9. ChangesAreKept'
  BY <1>1 DEF ChangesAreKept, InBatch
<1> QED
  BY <1>1, <1>2, <1>5, <1>6, <1>7, <1>8, <1>9 DEF ArchInv, CopyIsKept, ReadIsPast, BatchIsAll

\* The batch is persisted and handed to the Source.
LEMMA ArchPersist ==
    ASSUME TypeInv, ArchInv, PersistBatch
    PROVE  ArchInv'
<1>1. keys = <<>> /\ queue = <<changes>> /\ pc = "persist"
  BY DEF PersistBatch, ArchInv, BatchIsAll
<1>2. keys' = <<changes>> /\ pc' = "accept"
  <2>1. Len(queue) = 1 /\ Head(queue) = changes /\ Append(keys, Head(queue)) = <<changes>>
    BY <1>1
  <2> QED
    BY <2>1 DEF PersistBatch, Goto
<1>3. UNCHANGED <<tree, store, inv, changes>>
  BY DEF PersistBatch
<1>4. KnownIsPast' /\ StoreIsKept'
  BY <1>3 DEF ArchInv, KnownIsPast, StoreIsKept, Known, InStore, InBatch, Kept, tree, store
<1>5. ReadIsKnown'
  BY <1>1, <1>3 DEF ArchInv, ReadIsKnown, InBatch, store
<1> QED
  BY <1>2, <1>3, <1>4, <1>5 DEF ArchInv, CopyIsKept, ChangesAreKept, ReadIsPast, BatchIsAll

LEMMA ArchAccept ==
    ASSUME TypeInv, ArchInv, AcceptBatch
    PROVE  ArchInv'
<1>1. keys = <<changes>> /\ pc = "accept" /\ keys[1] = changes
  BY DEF AcceptBatch, ArchInv, BatchIsAll
<1>2. /\ UNCHANGED <<tree, store, inv, changes, keys>>
      /\ \/ pc' = "receipt" /\ changes \in receipts
         \/ pc' = "archive" /\ left' = Files
  BY <1>1 DEF AcceptBatch, Goto
<1>3. KnownIsPast' /\ StoreIsKept'
  BY <1>2 DEF ArchInv, KnownIsPast, StoreIsKept, Known, InStore, InBatch, Kept, tree, store
<1>4. ReadIsKnown'
  BY <1>1, <1>2 DEF ArchInv, ReadIsKnown, InBatch, store
<1>5. ChangesAreKept'
  <2>1. ASSUME pc' = "receipt", NEW f \in Files, NEW x \in Contents, InBatch(changes, f, x)
        PROVE  Kept(f, x, archived[f])
    BY <1>2, <2>1 DEF ArchInv, StoreIsKept, InStore
  <2> QED
    BY <1>2, <2>1 DEF ChangesAreKept, InBatch, Kept, tree, store
<1> QED
  BY <1>1, <1>2, <1>3, <1>4, <1>5 DEF ArchInv, CopyIsKept, ReadIsPast, BatchIsAll

\* The Source reads the directory again: what it reads is what is there.
LEMMA ArchRead ==
    ASSUME TypeInv, ArchInv, NEW g \in Files, ArchiveFile(g)
    PROVE  ArchInv'
<1>1. /\ pc = "archive" /\ copy' = [copy EXCEPT ![g] = file[g].c] /\ left' = left \ {g}
      /\ UNCHANGED <<tree, store, pc, inv, changes, keys>>
      /\ copy \in [Files -> Contents]
  BY DEF ArchiveFile, TypeInv, TypeOK
<1>2. KnownIsPast' /\ StoreIsKept'
  BY <1>1 DEF ArchInv, KnownIsPast, StoreIsKept, Known, InStore, InBatch, Kept, tree, store
<1>3. ReadIsKnown'
  BY <1>1 DEF ArchInv, ReadIsKnown, InBatch, store
<1>4. ASSUME NEW f \in Files \ left', NEW x \in Contents, Known(f, x)
      PROVE  Kept(f, x, copy'[f])
  <2>1. CASE f = g
    BY <1>1, <2>1 DEF Kept
  <2>2. CASE f # g
    BY <1>1, <1>4, <2>2 DEF ArchInv, CopyIsKept
  <2> QED
    BY <2>1, <2>2
<1>5. CopyIsKept'
  BY <1>1, <1>4 DEF CopyIsKept, Known, InStore, InBatch, Kept, tree, store
<1> QED
  BY <1>1, <1>2, <1>3, <1>5 DEF ArchInv, ChangesAreKept, ReadIsPast, BatchIsAll

\* What the Source has read becomes its current snapshot.
LEMMA ArchPublish ==
    ASSUME TypeInv, ArchInv, PublishSnapshot
    PROVE  ArchInv'
<1>1. /\ pc = "archive" /\ left = {} /\ archived' = copy /\ pc' = "receipt"
      /\ UNCHANGED <<tree, obs, receipts, work>>
  BY DEF PublishSnapshot, Goto
<1>2. \A f \in Files, x \in Contents : Known(f, x) => Kept(f, x, copy[f])
  BY <1>1 DEF ArchInv, CopyIsKept
<1>3. KnownIsPast'
  BY <1>1 DEF ArchInv, KnownIsPast, Known, InStore, InBatch, tree, work
<1>4. StoreIsKept' /\ ChangesAreKept'
  BY <1>1, <1>2 DEF StoreIsKept, ChangesAreKept, Known, InStore, InBatch, Kept, tree, work
<1>5. ReadIsKnown'
  BY <1>1 DEF ArchInv, ReadIsKnown, InBatch, work
<1> QED
  BY <1>1, <1>3, <1>4, <1>5 DEF ArchInv, CopyIsKept, ReadIsPast, BatchIsAll, work

\* The receipt says that the changes of the batch are in the archive.
LEMMA ArchReceipt ==
    ASSUME TypeInv, ArchInv, RecordReceipt
    PROVE  ArchInv'
<1>1. /\ pc = "receipt" /\ pc' \in {"receipt", "complete"} /\ keys = <<changes>>
      /\ UNCHANGED <<tree, obs, archived, work>>
      /\ receipts' = receipts \/ \E n \in Unrecorded(keys) : receipts' = receipts \cup {keys[n]}
  BY DEF RecordReceipt, Goto, ArchInv, BatchIsAll
<1>2. \A cs \in receipts' : cs \in receipts \/ cs = changes
  BY <1>1 DEF Unrecorded
<1>3. \A f \in Files, x \in Contents : InStore(f, x)' => InStore(f, x) \/ InBatch(changes, f, x)
  BY <1>1, <1>2 DEF InStore, InBatch
<1>4. KnownIsPast'
  <2>1. \A f \in Files, x \in Contents : Known(f, x)' => Known(f, x)
    BY <1>1, <1>3 DEF Known, InBatch, work
  <2> QED
    BY <1>1, <2>1 DEF ArchInv, KnownIsPast, tree
<1>5. StoreIsKept'
  BY <1>1, <1>3 DEF ArchInv, StoreIsKept, ChangesAreKept, Kept, tree
<1>6. ChangesAreKept' /\ ReadIsKnown'
  BY <1>1 DEF ArchInv, ChangesAreKept, ReadIsKnown, InBatch, Kept, tree, work
<1> QED
  BY <1>1, <1>4, <1>5, <1>6 DEF ArchInv, CopyIsKept, ReadIsPast, BatchIsAll, work

\* The new observations: each is a content the archive has, or has left behind.
LEMMA ArchComplete ==
    ASSUME TypeInv, ArchInv, CompleteScan
    PROVE  ArchInv'
<1>1. /\ pc = "complete" /\ obs' = [f \in Files |-> NewRow(f)]
      /\ pc' \in {"daemon", "idle"} /\ changes' = {}
      /\ UNCHANGED <<tree, receipts, archived>>
  BY DEF CompleteScan, Return, Finish, Goto
<1>2. ASSUME NEW f \in Files, NEW x \in Contents, InStore(f, x)'
      PROVE  InStore(f, x) \/ InBatch(changes, f, x)
  <2>0. obs \in [Files -> Row]
    BY DEF TypeInv, TypeOK
  <2>1. CASE \E cs \in receipts : InBatch(cs, f, x)
    BY <2>1 DEF InStore
  <2>2. CASE obs'[f].state \in Live /\ obs'[f].hash = x
    <3>1. CASE inv[f].c # 0
      <4>1. x = inv[f].c
        BY <1>1, <2>2, <3>1 DEF NewRow
      <4> QED
        BY <1>1, <3>1, <4>1 DEF ArchInv, ReadIsKnown, InStore
    <3>2. CASE inv[f].c = 0
      <4>1. \/ obs'[f] = NoRow \/ obs'[f] = [obs[f] EXCEPT !.state = "deleted"]
            \/ obs'[f] = obs[f]
            \/ obs'[f] = [obs[f] EXCEPT !.state = "missing"] /\ obs[f].state = "active"
        BY <1>1, <3>2 DEF NewRow
      <4>2. obs[f] \in Row
        BY <2>0
      <4>3. obs[f].state \in Live /\ obs[f].hash = x
        BY <2>2, <4>1, <4>2 DEF NoRow, Row, Live
      <4> QED
        BY <4>3 DEF InStore
    <3> QED
      BY <3>1, <3>2
  <2>3. CASE obs'[f].state = "deleted" /\ x = 0
    <3>1. \/ obs[f].state = "deleted"
          \/ \E ch \in changes : ch.kind = "deleted" /\ ch.path = f
      <4>1. obs[f] \in Row
        BY <2>0
      <4> QED
        BY <1>1, <2>3, <4>1 DEF NewRow, NoRow, Row
    <3>2. \A ch \in changes : ch.kind = "deleted" => ch.hash = 0
      BY <1>1 DEF ArchInv, ReadIsKnown
    <3> QED
      BY <2>3, <3>1, <3>2 DEF InStore, InBatch
  <2> QED
    BY <1>1, <1>2, <2>1, <2>2, <2>3 DEF InStore, InBatch
<1>3. KnownIsPast'
  <2>1. \A f \in Files, x \in Contents : Known(f, x)' => Known(f, x)
    BY <1>1, <1>2 DEF Known, InBatch
  <2> QED
    BY <1>1, <2>1 DEF ArchInv, KnownIsPast, tree
<1>4. StoreIsKept'
  BY <1>1, <1>2 DEF ArchInv, StoreIsKept, ChangesAreKept, Kept, tree
<1> QED
  BY <1>1, <1>3, <1>4 DEF ArchInv, CopyIsKept, ChangesAreKept, ReadIsPast, ReadIsKnown, BatchIsAll

NoReverts == reverts = 0 /\ OneBatch => ArchInv

LEMMA ArchInit ==
    ASSUME Init
    PROVE  ArchInv
<1>1. /\ obs = [f \in Files |-> NoRow] /\ receipts = {} /\ changes = {}
      /\ pc \in {"start", "idle"}
  BY DEF Init
<1>2. \A f \in Files, x \in Contents : ~ Known(f, x)
  BY <1>1 DEF Known, InStore, InBatch, NoRow, Live
<1> QED
  BY <1>1, <1>2
     DEF ArchInv, KnownIsPast, StoreIsKept, CopyIsKept, ChangesAreKept, ReadIsPast,
         ReadIsKnown, BatchIsAll, Known

\* Begin opens a scan; nothing has been read yet.
LEMMA ArchBegin ==
    ASSUME TypeInv, ArchInv, Begin
    PROVE  ArchInv'
<1>1. UNCHANGED <<tree, obs, receipts, archived>>
  BY DEF Begin
<1>2. CASE Return
  BY <1>1, <1>2, ArchOutside DEF Return, Finish, Goto, PC, Trying
<1>3. CASE ~ Return
  <2>1. pc' = "inventory" /\ left' = Files /\ changes' = changes
    BY <1>3 DEF Begin, Goto
  <2>2. KnownIsPast' /\ StoreIsKept'
    BY <1>1, <2>1 DEF ArchInv, KnownIsPast, StoreIsKept, Known, InStore, InBatch, Kept, tree
  <2> QED
    BY <2>1, <2>2 DEF ArchInv, CopyIsKept, ChangesAreKept, ReadIsPast, ReadIsKnown, BatchIsAll
<1> QED
  BY <1>2, <1>3

LEMMA NoRevertsStep ==
    ASSUME TypeInv, NoReverts, [Next]_vars
    PROVE  NoReverts'
<1> SUFFICES ASSUME reverts' = 0, OneBatch' PROVE ArchInv'
  BY DEF NoReverts
<1>1. reverts = 0 /\ OneBatch /\ ArchInv
  <2>1. reverts \in Nat
    BY BoundsAreNat DEF TypeInv, TypeOK
  <2>2. CASE User
    <3>1. PICK tr : Edit(tr)
      BY <2>2, UserEdits
    <3> QED
      BY <2>1, <3>1 DEF Edit, fixed, OneBatch, NoReverts
  <2>3. CASE ~ User
    <3>1. reverts' = reverts /\ batchSize' = batchSize
      BY <2>3
         DEF Next, Step, Command, Time, StartManual, StartResume, StartDaemon, StopDaemon,
             Pause, DaemonTick, Begin, ClassifyInventory, FinishDryRun, PersistBatch,
             AcceptBatch, PublishSnapshot, RecordReceipt, CompleteScan, FailScan,
             InventoryFile, ArchiveFile, IntervalElapses, GraceElapses, Throw, EventHint,
             Crash, vars, tree, fixed
    <3> QED
      BY <3>1 DEF OneBatch, NoReverts
  <2> QED
    BY <2>2, <2>3
<1> USE <1>1
<1>2. CASE \/ \E c \in {"manual", "dry"} : StartManual(c)
           \/ StartResume \/ StartDaemon \/ StopDaemon \/ DaemonTick
  <2>1. /\ UNCHANGED <<tree, obs, receipts, archived, changes>>
        /\ pc' \in PC \ (Trying \ {"dryEnd"})
    BY <1>2 DEF StartManual, StartResume, StartDaemon, StopDaemon, DaemonTick, Goto,
                store, work, PC, Trying
  <2> QED
    BY <2>1, ArchOutside
<1>3. CASE FinishDryRun \/ Throw \/ FailScan \/ Crash
  <2>1. /\ UNCHANGED <<tree, obs, receipts, archived>> /\ changes' = {}
        /\ pc' \in PC \ (Trying \ {"dryEnd"})
    BY <1>3 DEF FinishDryRun, Throw, FailScan, Crash, Return, Finish, Goto, store, PC, Trying
  <2> QED
    BY <2>1, ArchOutside
<1>4. CASE Pause \/ EventHint \/ IntervalElapses \/ UNCHANGED vars
  <2>1. UNCHANGED <<tree, obs, receipts, archived, pc, work>>
    BY <1>4 DEF Pause, EventHint, IntervalElapses, vars, store
  <2> QED
    BY <2>1, ArchQuiet
<1>5. CASE User
  BY <1>5, ArchEdit
<1>6. CASE \E f \in Files : InventoryFile(f) \/ ArchiveFile(f) \/ GraceElapses(f)
  BY <1>6, ArchInventory, ArchRead, ArchGrace
<1>7. CASE \/ Begin \/ ClassifyInventory \/ PersistBatch \/ AcceptBatch
           \/ PublishSnapshot \/ RecordReceipt \/ CompleteScan
  BY <1>7, ArchBegin, ArchClassify, ArchPersist, ArchAccept, ArchPublish, ArchReceipt,
     ArchComplete
<1> QED
  BY <1>2, <1>3, <1>4, <1>5, <1>6, <1>7 DEF Next, Step, Command, Time

\* When a scan would report nothing, every file is the one that was observed and
\* every row that has vanished is marked as deleted.
LEMMA NothingToReportMeans ==
    ASSUME TypeInv, NothingToReport
    PROVE  \A f \in Files :
             /\ file[f].c # 0 => obs[f].state \in Live /\ obs[f].hash = file[f].c
             /\ file[f].c = 0 => obs[f].state \in {"none", "deleted"}
<1>1. Classify(file).changes = {} /\ Classify(file).pending = {}
  BY DEF NothingToReport
<1>2. \A f \in Files : obs[f].state \in Live \cup {"none", "deleted"}
  BY DEF TypeInv, TypeOK, Row, Live
<1>3. \A ch : ~ Restored(file, ch) /\ ~ Modified(file, ch) /\ ~ Renamed(file, ch)
            /\ ~ Created(file, ch) /\ ~ Deleted(file, ch)
  BY <1>1, ClassifyIs
<1>4. NewPaths(file) = {}
  <2>1. ASSUME NEW g \in NewPaths(file) PROVE FALSE
    <3>1. CASE Renames(file)[g] = {}
      <4>1. Created(file, ItemOf("created", g, 0, file[g].c))
        BY <3>1 DEF Created
      <4> QED
        BY <1>3, <4>1
    <3>2. CASE Renames(file)[g] # {}
      <4>1. PICK h \in Renames(file)[g] : TRUE
        BY <3>2
      <4>2. Renamed(file, ItemOf("renamed", g, h, file[g].c))
        BY <4>1 DEF Renamed
      <4> QED
        BY <1>3, <4>2
    <3> QED
      BY <3>1, <3>2
  <2> QED
    BY <2>1
<1>5. Moving(file) = {}
  BY <1>4 DEF Moving
<1>6. ASSUME NEW f \in Files, file[f].c # 0
      PROVE  obs[f].state \in Live /\ obs[f].hash = file[f].c
  <2>1. obs[f].state # "none"
    BY <1>4, <1>6 DEF NewPaths, Present
  <2>2. f \in Matched(file)
    BY <1>6, <2>1 DEF Matched, Present
  <2>3. obs[f].state # "deleted"
    <3>1. obs[f].state = "deleted" => Restored(file, ItemOf("restored", f, 0, file[f].c))
      BY <2>2 DEF Restored
    <3> QED
      BY <1>3, <3>1
  <2>4. obs[f].hash = file[f].c
    <3>1. obs[f].hash # file[f].c => Modified(file, ItemOf("modified", f, 0, file[f].c))
      BY <2>2, <2>3 DEF Modified
    <3> QED
      BY <1>3, <3>1
  <2> QED
    BY <1>2, <2>1, <2>3, <2>4
<1>7. ASSUME NEW f \in Files, file[f].c = 0
      PROVE  obs[f].state \in {"none", "deleted"}
  <2>1. SUFFICES ASSUME obs[f].state \notin {"none", "deleted"} PROVE FALSE
    OBVIOUS
  <2>2. f \in Vanished(file) \ Moving(file)
    BY <1>5, <1>7, <2>1 DEF Vanished, Present
  <2>3. obs[f].state = "overdue" => Deleted(file, ItemOf("deleted", f, 0, 0))
    BY <2>2 DEF Deleted
  <2>4. obs[f].state # "overdue" => f \in Classify(file).pending
    BY <2>2, ClassifyIs
  <2> QED
    BY <1>1, <1>3, <2>3, <2>4
<1> QED
  BY <1>6, <1>7

LEMMA QuietMeansArchived ==
    ASSUME TypeInv, NoReverts
    PROVE  NothingUnarchived
<1> SUFFICES ASSUME reverts = 0, OneBatch, NothingToReport, NEW f \in Files,
                    file[f].c # 0 \/ obs[f].state # "none"
             PROVE  archived[f] = file[f].c
  BY DEF NothingUnarchived, Archived
<1>1. StoreIsKept
  BY DEF NoReverts, ArchInv
<1>2. file[f].c \in Contents
  BY DEF TypeInv, TypeOK, Entry
<1>3. InStore(f, file[f].c)
  BY NothingToReportMeans DEF InStore
<1> QED
  BY <1>1, <1>2, <1>3 DEF StoreIsKept, Kept

\* A difference between the directory and the Source's current snapshot stays
\* visible to the next scan: users edit files between the inventory and the
\* archive, scans throw, are killed or are replaced at every step, batches are
\* accepted again without being archived again, and yet a directory in which a scan
\* finds nothing to report is archived, as long as no path returns to an earlier
\* content and a scan's changes fit one batch (change-classifier.ts,
\* connection-scan.ts, source-archive.ts).
THEOREM DifferencesStayVisible == Spec => []NothingUnarchived
<1>1. Init => NoReverts
  BY ArchInit DEF NoReverts
<1>2. TypeInv /\ NoReverts /\ [Next]_vars => NoReverts'
  BY NoRevertsStep
<1>3. TypeInv /\ NoReverts => NothingUnarchived
  BY QuietMeansArchived
<1> QED
  BY <1>1, <1>2, <1>3, TypeAlways, PTL DEF Spec

=============================================================================
