-------------------------- MODULE KnowledgePublisher --------------------------
(***************************************************************************)
(* What the publish transaction computes: from the documents, revisions    *)
(* and chunks of one Source and the parsed files of one Snapshot, the next *)
(* documents, revisions and chunks.  Constant-level operators only.        *)
(*                                                                         *)
(* Rows are numbered in the order they are inserted.  A text is a number;  *)
(* equal texts have equal hashes.  Every file here has a parser: a file    *)
(* without one is present and has no draft.                                *)
(***************************************************************************)
EXTENDS Naturals, Sequences, FiniteSets, SequencesExt

CONSTANTS
    Paths,         \* logical paths, numbered in the order they sort
    MaxContent,    \* contents of a file are 1..MaxContent, 0: no file
    Configs,       \* chunker settings, named by their fingerprint
    ChunksOf,      \* [content, config -> the chunk drafts: text and anchor]
    Similarity     \* [text, text -> percent of shared words]

PathKey(path) == path      \* NFC keys: the paths of the model differ in theirs
Contents == 1 .. MaxContent

\* The texts that chunks may have.
Texts == UNION {{ChunksOf[c, g][k].text : k \in DOMAIN ChunksOf[c, g]} :
                c \in Contents, g \in Configs}

ASSUME ContentAssumption ==
    /\ MaxContent \in Nat \ {0} /\ IsFiniteSet(Paths) /\ Paths \subseteq Nat \ {0}
    /\ \A c \in Contents, g \in Configs : ChunksOf[c, g] \in Seq([text : Nat, anchor : Nat])
    /\ \A a, b \in Texts : Similarity[a, b] \in 0 .. 100

\* docs:    path, current revision (0: none), state
\* revs:    document, snapshot, settings, blob, and its chunks in order
\* chunks:  document, text, state
\* lineage: the chunk a new chunk was recorded to be a modification of
EmptyKnowledge == [docs |-> <<>>, revs |-> <<>>, chunks |-> <<>>, lineage |-> {}]

Min2(S) == CHOOSE x \in S : \A y \in S : x <= y
Distance(a, b) == IF a < b THEN b - a ELSE a - b

(* chunk-alignment *)

\* The first previous chunk with the text of the draft that no earlier draft has
\* taken, 0 if there is none.  previous: the revision's chunks with their texts.
ExactMatch(previous, taken, draft) ==
    LET free == {i \in DOMAIN previous : /\ previous[i].text = draft.text
                                         /\ \A k \in DOMAIN taken : taken[k] # i}
    IN IF free = {} THEN 0 ELSE Min2(free)

\* The previous chunk each draft has the text of.
Exact(previous, drafts) ==
    LET next(taken, n) == Append(taken, ExactMatch(previous, taken, drafts[n]))
        taken[n \in 0 .. Len(drafts)] == IF n = 0 THEN <<>> ELSE next(taken[n - 1], n)
    IN taken[Len(drafts)]

\* Among available previous chunks, the first of the most similar ones that are
\* nearest by ordinal.
Nearest(previous, available, text, ordinal) ==
    LET score(i) == Similarity[previous[i].text, text]
        similar == {i \in available : \A j \in available : score(j) <= score(i)}
        near == {i \in similar : \A j \in similar :
                    Distance(i, ordinal) <= Distance(j, ordinal)}
    IN Min2(near)

\* The previous chunk that the draft k without an exact match replaces, 0 if
\* none: the one with its anchor, else the most similar one from 15% on.
Replacement(previous, exact, taken, draft, k) ==
    LET available == {i \in DOMAIN previous :
                         i \notin Range(exact) /\ \A j \in DOMAIN taken : taken[j] # i}
        anchored == {i \in available : previous[i].anchor = draft.anchor}
        nearest == Nearest(previous, available, draft.text, k)
    IN IF exact[k] # 0 \/ available = {} THEN 0
       ELSE IF anchored # {} THEN Min2(anchored)
       ELSE IF Similarity[previous[nearest].text, draft.text] >= 15 THEN nearest ELSE 0

Replaced(previous, drafts, exact) ==
    LET next(taken, n) == Append(taken, Replacement(previous, exact, taken, drafts[n], n))
        taken[n \in 0 .. Len(drafts)] == IF n = 0 THEN <<>> ELSE next(taken[n - 1], n)
    IN taken[Len(drafts)]

(* knowledge-publisher *)

DocumentsAt(kb, path) == {d \in DOMAIN kb.docs : PathKey(kb.docs[d].path) = PathKey(path)}
One(S) == CHOOSE x \in S : TRUE     \* of rows that a UNIQUE constraint makes one

\* The document of a path, deleted or not, or a new one.
FindOrCreateDocument(kb, path) ==
    IF DocumentsAt(kb, path) # {} THEN kb
    ELSE [kb EXCEPT !.docs = Append(@, [path |-> path, rev |-> 0, state |-> "active"])]

ActivateDocument(kb, d, rev) ==
    [kb EXCEPT !.docs[d].state = "active", !.docs[d].rev = rev]

PreviousChunks(kb, rev) ==
    IF rev = 0 THEN <<>>
    ELSE [k \in DOMAIN kb.revs[rev].chunks |->
            [id |-> kb.revs[rev].chunks[k].id, anchor |-> kb.revs[rev].chunks[k].anchor,
             text |-> kb.chunks[kb.revs[rev].chunks[k].id].text]]

\* Mutant: the row ids of new chunks skip one.
SkippedId(kb, nth) == Len(kb.chunks) + nth + 1
NewChunkId(kb, nth) == Len(kb.chunks) + nth

\* A new revision: exact chunks are kept and made active, the other drafts
\* become new chunks, and what the previous revision had besides is tombstoned.
NewRevision(kb, d, snap, config, blob, drafts) ==
    LET previous == PreviousChunks(kb, kb.docs[d].rev)
        exact    == Exact(previous, drafts)
        replaced == Replaced(previous, drafts, exact)
        new      == {k \in DOMAIN drafts : exact[k] = 0}
        nth(k)   == Cardinality({j \in new : j <= k})
        id       == [k \in DOMAIN drafts |-> IF k \in new THEN NewChunkId(kb, nth(k))
                                             ELSE previous[exact[k]].id]
        unused   == {previous[i].id : i \in DOMAIN previous} \ Range(id)
        old      == [c \in DOMAIN kb.chunks |-> [kb.chunks[c] EXCEPT !.state =
                        IF c \in Range(id) THEN "active"
                        ELSE IF c \in unused THEN "tombstoned" ELSE @]]
        news     == [n \in 1 .. Cardinality(new) |->
                        [doc |-> d, text |-> drafts[CHOOSE k \in new : nth(k) = n].text,
                         state |-> "active"]]
    IN ActivateDocument(
         [kb EXCEPT
            !.revs = Append(@, [doc |-> d, snap |-> snap, config |-> config, blob |-> blob,
                                chunks |-> [k \in DOMAIN drafts |->
                                              [id |-> id[k], anchor |-> drafts[k].anchor]]]),
            !.chunks = old \o news,
            !.lineage = @ \cup {<<previous[replaced[k]].id, id[k]>> :
                                  k \in {j \in DOMAIN drafts : replaced[j] # 0}}],
         d, Len(kb.revs) + 1)

\* Mutant: a revision is reused for the path whatever its blob is.
UnchangedPath(kb, d, config, blob) ==
    LET cur == kb.docs[d].rev IN cur # 0 /\ kb.revs[cur].config = config
Unchanged(kb, d, config, blob) ==
    LET cur == kb.docs[d].rev
    IN cur # 0 /\ kb.revs[cur].blob = blob /\ kb.revs[cur].config = config

\* A document of the file.  A revision that is reused is only made current: the
\* states of its chunks are left as they are.
PublishRevision(kb, d, blob, content, snap, config) ==
    LET existing == {r \in DOMAIN kb.revs : /\ kb.revs[r].doc = d
                                            /\ kb.revs[r].snap = snap
                                            /\ kb.revs[r].config = config}
    IN IF Unchanged(kb, d, config, blob) THEN ActivateDocument(kb, d, kb.docs[d].rev)
       ELSE IF existing # {} THEN ActivateDocument(kb, d, One(existing))
       ELSE NewRevision(kb, d, snap, config, blob, ChunksOf[content, config])

PublishDocument(kb0, path, blob, content, snap, config) ==
    LET kb == FindOrCreateDocument(kb0, path)
    IN PublishRevision(kb, One(DocumentsAt(kb, path)), blob, content, snap, config)

\* A document moves with its path unless the new path has a document already.
MoveDocument(kb, r) ==
    IF DocumentsAt(kb, r[2]) # {} THEN kb
    ELSE [kb EXCEPT !.docs = [d \in DOMAIN kb.docs |->
            IF d \in DocumentsAt(kb, r[1]) THEN [kb.docs[d] EXCEPT !.path = r[2]]
            ELSE kb.docs[d]]]

ApplyRenames(kb, renames) ==
    LET order == SetToSeq(renames)
        after[n \in 0 .. Cardinality(renames)] ==
            IF n = 0 THEN kb ELSE MoveDocument(after[n - 1], order[n])
    IN after[Cardinality(renames)]

\* Mutant: the chunks of a file that is gone stay active.
TombstoneDocumentsOnly(kb, present) ==
    [kb EXCEPT !.docs = [d \in DOMAIN kb.docs |->
        IF kb.docs[d].path \in present THEN kb.docs[d]
        ELSE [kb.docs[d] EXCEPT !.state = "deleted"]]]
TombstoneMissing(kb, present) ==
    LET gone == {d \in DOMAIN kb.docs : kb.docs[d].state = "active"
                    /\ PathKey(kb.docs[d].path) \notin {PathKey(f) : f \in present}}
    IN [kb EXCEPT
          !.docs = [d \in DOMAIN kb.docs |->
              IF d \in gone THEN [kb.docs[d] EXCEPT !.state = "deleted"] ELSE kb.docs[d]],
          !.chunks = [c \in DOMAIN kb.chunks |->
              IF kb.chunks[c].doc \in gone THEN [kb.chunks[c] EXCEPT !.state = "tombstoned"]
              ELSE kb.chunks[c]]]

LastPath == CHOOSE n \in Paths \cup {0} : \A f \in Paths : f <= n

\* The whole transaction.  entries: the blob of each path, 0 if absent; text:
\* the contents that the parser found in the blobs.
Publish(kb, snap, config, entries, text, renames) ==
    LET present == {f \in Paths : entries[f] # 0}
        after[f \in 0 .. LastPath] ==
            IF f = 0 THEN ApplyRenames(kb, renames)
            ELSE IF f \notin present THEN after[f - 1]
            ELSE PublishDocument(after[f - 1], f, entries[f], text[f], snap, config)
    IN TombstoneMissing(after[LastPath], present)

(* knowledge-reader, fts-index *)

ChunkIds(kb, r) == {kb.revs[r].chunks[k].id : k \in DOMAIN kb.revs[r].chunks}

\* The rows a search may return: active chunks of the current revisions of
\* active documents.
ActiveRows(kb) ==
    {row \in (DOMAIN kb.chunks) \X (DOMAIN kb.revs) :
        LET c == row[1]  r == row[2]
        IN /\ kb.chunks[c].state = "active"
           /\ kb.docs[kb.chunks[c].doc].state = "active"
           /\ kb.docs[kb.chunks[c].doc].rev = r
           /\ c \in ChunkIds(kb, r)}

\* verifyKnowledge: active chunks that the current revision of their document
\* does not have.
Unmapped(kb) ==
    {c \in DOMAIN kb.chunks : /\ kb.chunks[c].state = "active"
                              /\ c \notin ChunkIds(kb, kb.docs[kb.chunks[c].doc].rev)}
=============================================================================
