---------------------------- MODULE WorkspaceConfig ----------------------------
(***************************************************************************)
(* config set and config unset: the content of self.toml, its versions in  *)
(* the database and a file for each version, which the version and the     *)
(* hash of the content name.  The files are written before the transaction *)
(* and taken back when it fails.                                           *)
(***************************************************************************)
EXTENDS Workload

CONSTANT Settings    \* contents of self.toml; init writes the first

ASSUME SettingsAssumption == Settings \subseteq Nat /\ 1 \in Settings

VARIABLES
    toml,        \* the content of self.toml
    versions,    \* workspace_config_versions: version and content
    saved,       \* the files of runtime/config-history, named alike
    twins,       \* files that a second command wrote over
    mixed        \* two commands have overlapped

configVars == <<toml, versions, saved, twins, mixed>>

ConfigInit ==
    /\ toml = 1 /\ versions = {<<1, 1>>} /\ saved = versions /\ twins = {} /\ mixed = FALSE

Newest == CHOOSE v \in versions : \A w \in versions : w[1] <= v[1]
Setting == {p \in Busy : proc[p].pc \in {"c:latest", "c:save", "c:write", "c:commit", "c:back", "c:remove"}}

\* mutateConfig reads self.toml; a command that changes nothing ends at once.
ReadConfig(p) ==
    /\ \E new \in Settings \ {toml} :
         Launch(p, "config", [pc |-> "c:latest", old |-> toml, new |-> new, version |-> 0])
    /\ mixed' = (mixed \/ Setting # {}) /\ UNCHANGED <<toml, versions, saved, twins>>
ReadLatest(p) ==
    /\ At(p, "c:latest") /\ Become(p, [proc[p] EXCEPT !.pc = "c:save", !.version = Newest[1] + 1])
    /\ UNCHANGED configVars

HistoryFile(c) == <<c.version, c.new>>

SaveHistory(p) ==
    /\ At(p, "c:save") /\ Move(p, "c:write")
    /\ saved' = saved \cup {HistoryFile(proc[p])}
    /\ twins' = twins \cup ({HistoryFile(proc[p])} \cap saved)
    /\ UNCHANGED <<toml, versions, mixed>>
WriteConfig(p) ==
    /\ At(p, "c:write") /\ Move(p, "c:commit")
    /\ toml' = proc[p].new /\ UNCHANGED <<versions, saved, twins, mixed>>
\* The version is the primary key.
CommitConfig(p) ==
    /\ At(p, "c:commit")
    /\ LET c == proc[p]
       IN IF \A v \in versions : v[1] # c.version
          THEN versions' = versions \cup {<<c.version, c.new>>} /\ Finish(p)
          ELSE Move(p, "c:back") /\ UNCHANGED versions
    /\ UNCHANGED <<toml, saved, twins, mixed>>

\* Mutant: self.toml keeps what was written.
KeptContent(c) == c.new
OldContent(c) == c.old
\* The catch block.
WriteBack(p) ==
    /\ At(p, "c:back") /\ Move(p, "c:remove")
    /\ toml' = OldContent(proc[p]) /\ UNCHANGED <<versions, saved, twins, mixed>>
RemoveHistory(p) ==
    /\ At(p, "c:remove") /\ Finish(p)
    /\ saved' = saved \ {HistoryFile(proc[p])} /\ UNCHANGED <<toml, versions, twins, mixed>>
ConfigThrows(p) ==
    /\ p \in Busy /\ proc[p].pc \in {"c:write", "c:commit"}
    /\ Spend("throw") /\ Goto(p, "c:back") /\ UNCHANGED <<limit, configVars>>

ConfigStep(p) ==
    \/ ReadConfig(p) \/ ReadLatest(p) \/ SaveHistory(p) \/ WriteConfig(p) \/ CommitConfig(p)
    \/ WriteBack(p) \/ RemoveHistory(p) \/ ConfigThrows(p)
=============================================================================
