---------------------------- MODULE ArtifactBuild ----------------------------
(***************************************************************************)
(* buildTopicArtifact: a snapshot of a Topic is rendered into a directory  *)
(* under runtime/tmp, which is renamed into the archive before the         *)
(* database says that the build is ready; latest.json is written last.     *)
(* The Topic has one Artifact and any number of builds of it.              *)
(***************************************************************************)
EXTENDS Commands, Sequences

VARIABLES
    artifact,  \* the row of the Artifact: status, latest build
    builds,    \* artifact_builds with their directory, in order of creation
    pointer    \* the build that latest.json names, 0: no file

artifactVars == <<artifact, builds, pointer>>

ArtifactInit ==
    /\ artifact = [status |-> "none", latest |-> 0]
    /\ builds = <<>> /\ pointer = 0

\* startArtifactBuild of the snapshot in the record of the command.
StartArtifact(p) ==
    /\ At(p, "a:start")
    /\ builds' = Append(builds, [state |-> "building", files |-> "none", snap |-> proc[p].snap,
                                 parent |-> artifact.latest])
    /\ artifact' = IF artifact.status = "none" THEN [artifact EXCEPT !.status = "stale"] ELSE artifact
    /\ Set(p, [pc |-> "a:write", build |-> Len(builds) + 1])
    /\ Step /\ UNCHANGED pointer

\* createArchiveWriter and its files, then publishArchive.
WriteArchive(p) ==
    /\ proc[p].pc \in {"a:write", "a:publish"}
    /\ builds' = [builds EXCEPT ![proc[p].build].files =
                    IF At(p, "a:write") THEN "temporary" ELSE "published"]
    /\ Goto(p, IF At(p, "a:write") THEN "a:publish" ELSE "a:finish")
    /\ Step /\ UNCHANGED <<artifact, pointer>>

FinishArtifact(p) ==
    /\ At(p, "a:finish")
    /\ builds' = [builds EXCEPT ![proc[p].build].state = IF @ = "building" THEN "ready" ELSE @]
    /\ artifact' = [status |-> "ready", latest |-> proc[p].build]
    /\ Goto(p, "a:pointer")
    /\ Step /\ UNCHANGED pointer

\* updateArtifactPointers.
UpdatePointers(p) ==
    /\ At(p, "a:pointer")
    /\ pointer' = proc[p].build
    /\ Set(p, Idle)
    /\ Step /\ UNCHANGED <<artifact, builds>>

\* Mutant: a build that is ready fails too.
FailAnyBuild(b) == [b EXCEPT !.state = "failed"]
FailBuilding(b) == [b EXCEPT !.state = IF @ = "building" THEN "failed" ELSE @]
RemoveTemporary(b) == [b EXCEPT !.files = IF @ = "temporary" THEN "none" ELSE @]

\* The catch block, for what throws once there is a directory; before that a
\* throw leaves the build as a kill does.
FailArtifact(p) ==
    /\ At(p, "a:failed")
    /\ builds' = [builds EXCEPT ![proc[p].build] = FailBuilding(RemoveTemporary(@))]
    /\ Set(p, Idle)
    /\ Step /\ UNCHANGED <<artifact, pointer>>

ArtifactThrows(p) ==
    /\ Throw(p, {"a:write", "a:publish", "a:finish", "a:pointer"}, "a:failed")
    /\ UNCHANGED artifactVars

ArtifactStep(p) ==
    \/ StartArtifact(p) \/ WriteArchive(p) \/ FinishArtifact(p) \/ UpdatePointers(p)
    \/ FailArtifact(p) \/ ArtifactThrows(p)
=============================================================================
