--------------------------- MODULE FragmentMerge ---------------------------
(***************************************************************************)
(* Reading the configuration, as loadConfig does it: the prow config is    *)
(* decoded and its embedded jobs tagged (yamlToConfig); an empty job-config *)
(* path returns at once; otherwise ReadJobConfig decodes a single file or  *)
(* walks a directory with filepath.Walk, merging each fragment into the    *)
(* accumulated JobConfig (mergeJobConfigs) as it is visited, and the       *)
(* result is merged under the prow config's jobs (mergeJobConfig).         *)
(*                                                                         *)
(* filepath.Walk visits a directory's entries in lexical order, depth      *)
(* first: the input gives the tree as that sequence.  An entry is a record *)
(* with its path, base name, extension, whether it is a directory, whether *)
(* its name starts with "..", the paths of the directories above it,       *)
(* whether Lstat or listing it fails, and its decoded fragment.            *)
(***************************************************************************)
EXTENDS Sequences, SequencesExt

CONSTANTS Repos, Names, Pairs, Paths, PrimaryPath, JobFilePath, YamlExts,
          ParseError, Pending, Error, Inputs,
          Basenames   \* base names of the entries of the directory

VARIABLES
  input,    \* the files on disk
  phase,    \* the statement being executed
  nc,       \* the JobConfig embedded in the prow config
  jc,       \* the JobConfig ReadJobConfig accumulates
  cursor,   \* the next entry of the walk
  skipped,  \* directories whose subtree the walk does not enter
  seen,     \* uniqueBasenames
  err,      \* "ok", or the error returned
  config    \* the JobConfig returned

vars == <<input, phase, nc, jc, cursor, skipped, seen, err, config>>

Job == [name : Names, src : Paths]
JobConfigs == [presets : Seq(SUBSET Pairs), pre : [Repos -> Seq(Job)],
               post : [Repos -> Seq(Job)], per : Seq(Job)]
EmptyJobConfig ==
  [presets |-> <<>>, pre |-> [r \in Repos |-> <<>>],
   post |-> [r \in Repos |-> <<>>], per |-> <<>>]

\* yamlToConfig: after decoding, every job is given SourcePath = path.
yamlToConfig(f, path) ==
  LET fix(js) == [i \in DOMAIN js |-> [name |-> js[i], src |-> path]]
  IN [presets |-> f.presets, pre |-> [r \in Repos |-> fix(f.pre[r])],
      post |-> [r \in Repos |-> fix(f.post[r])], per |-> fix(f.per)]

\* The validLabels loop: some label:value pair of one preset recurs in a
\* later one.
DuplicatedPresetPair(presets) ==
  \E i, j \in DOMAIN presets : i < j /\ presets[i] \cap presets[j] # {}

\* Mutant: a fragment's list for a repository replaces the earlier one.
MergeKeyed_overwrite(a, b) == [r \in Repos |-> IF b[r] # <<>> THEN b[r] ELSE a[r]]

\* c.Presubmits[repo] = a's jobs, then append b's (and the same for
\* Postsubmits).
MergeKeyed(a, b) == [r \in Repos |-> a[r] \o b[r]]

mergeJobConfigs(a, b) ==
  LET presets == a.presets \o b.presets
  IN IF DuplicatedPresetPair(presets)
     THEN [cfg |-> EmptyJobConfig, err |-> "duplicated preset 'label:value' pair"]
     ELSE [cfg |-> [presets |-> presets,
                    per  |-> a.per \o b.per,
                    pre  |-> MergeKeyed(a.pre, b.pre),
                    post |-> MergeKeyed(a.post, b.post)],
           err |-> "ok"]

Init ==
  /\ input \in Inputs
  /\ phase = "load_prow"
  /\ nc = EmptyJobConfig
  /\ jc = EmptyJobConfig
  /\ cursor = 1
  /\ skipped = {}
  /\ seen = {}
  /\ err = "ok"
  /\ config = EmptyJobConfig

Fail(e) == /\ err' = e
           /\ phase' = "done"

-----------------------------------------------------------------------------
(* loadConfig                                                              *)

\* Stat, decode and parseProwConfig of the prow config; with an empty
\* job-config path the prow config is returned as it is.
loadProwConfig ==
  /\ phase = "load_prow"
  /\ IF input.prowErr
     THEN Fail("prow config") /\ UNCHANGED <<nc, config>>
     ELSE LET c == yamlToConfig(input.prow, PrimaryPath)
          IN /\ nc' = c
             /\ IF input.jobPath = "none"
                THEN /\ config' = c
                     /\ phase' = "done"
                ELSE /\ phase' = "read_job_config"
                     /\ UNCHANGED config
             /\ UNCHANGED err
  /\ UNCHANGED <<input, jc, cursor, skipped, seen>>

\* ReadJobConfig: Stat the path; a single file is decoded as it is, a
\* directory is walked.
ReadJobConfig ==
  /\ phase = "read_job_config"
  /\ CASE input.jobPath = "missing" ->
            Fail("stat job config") /\ UNCHANGED jc
       [] input.jobPath = "file" /\ input.file = ParseError ->
            Fail("error unmarshaling") /\ UNCHANGED jc
       [] input.jobPath = "file" ->
            /\ jc' = yamlToConfig(input.file, JobFilePath)
            /\ phase' = "merge" /\ UNCHANGED err
       [] input.jobPath = "dir" ->
            phase' = "walk" /\ UNCHANGED <<jc, err>>
  /\ UNCHANGED <<input, nc, cursor, skipped, seen, config>>

-----------------------------------------------------------------------------
(* ReadJobConfig: the filepath.Walk callback, one entry at a time.         *)

\* Walk does not call the callback under a directory it was told to skip
\* (SkipDir) or could not list.
Visible(e) == e.above \cap skipped = {}

\* The entry is not read: Walk never reaches it, or the callback returns
\* nil for an Lstat or listing error (logging it), SkipDir for a ".."
\* directory, nil for a ".." file, a file of another extension and a
\* directory.  An unlistable directory is not entered.
WalkSkip ==
  /\ phase = "walk"
  /\ cursor <= Len(input.tree)
  /\ LET e == input.tree[cursor]
     IN /\ ~Visible(e) \/ e.readErr \/ e.dotdot \/ e.ext \notin YamlExts \/ e.isDir
        /\ skipped' = IF Visible(e) /\ e.isDir /\ (e.readErr \/ e.dotdot)
                      THEN skipped \cup {e.path} ELSE skipped
  /\ cursor' = cursor + 1
  /\ UNCHANGED <<input, phase, nc, jc, seen, err, config>>

\* Mutant: uniqueBasenames records the whole path.
WalkRead_insertPath ==
  /\ phase = "walk"
  /\ cursor <= Len(input.tree)
  /\ LET e == input.tree[cursor]
     IN /\ Visible(e) /\ ~e.readErr /\ ~e.dotdot /\ ~e.isDir
        /\ e.ext \in YamlExts
        /\ IF e.base \in seen
           THEN Fail("duplicated basename is not allowed") /\ UNCHANGED <<jc, seen>>
           ELSE /\ seen' = seen \cup {e.path}
                /\ IF e.frag = ParseError
                   THEN Fail("error unmarshaling") /\ UNCHANGED jc
                   ELSE LET m == mergeJobConfigs(jc, yamlToConfig(e.frag, e.path))
                        IN /\ jc' = m.cfg
                           /\ IF m.err # "ok" THEN Fail(m.err)
                              ELSE UNCHANGED <<err, phase>>
  /\ cursor' = cursor + 1
  /\ UNCHANGED <<input, nc, skipped, config>>

\* A fragment: its base name must be new; it is decoded and merged into
\* the accumulated JobConfig, and an error stops the walk.
WalkRead ==
  /\ phase = "walk"
  /\ cursor <= Len(input.tree)
  /\ LET e == input.tree[cursor]
     IN /\ Visible(e) /\ ~e.readErr /\ ~e.dotdot /\ ~e.isDir
        /\ e.ext \in YamlExts
        /\ IF e.base \in seen
           THEN Fail("duplicated basename is not allowed") /\ UNCHANGED <<jc, seen>>
           ELSE /\ seen' = seen \cup {e.base}
                /\ IF e.frag = ParseError
                   THEN Fail("error unmarshaling") /\ UNCHANGED jc
                   ELSE LET m == mergeJobConfigs(jc, yamlToConfig(e.frag, e.path))
                        IN /\ jc' = m.cfg
                           /\ IF m.err # "ok" THEN Fail(m.err)
                              ELSE UNCHANGED <<err, phase>>
  /\ cursor' = cursor + 1
  /\ UNCHANGED <<input, nc, skipped, config>>

\* The walk has returned without an error.
WalkEnd ==
  /\ phase = "walk"
  /\ cursor > Len(input.tree)
  /\ phase' = "merge"
  /\ UNCHANGED <<input, nc, jc, cursor, skipped, seen, err, config>>

\* mergeJobConfig: the prow config's jobs first, then the job config's.
mergeJobConfig ==
  /\ phase = "merge"
  /\ LET m == mergeJobConfigs(nc, jc)
     IN IF m.err # "ok" THEN Fail(m.err) /\ UNCHANGED config
        ELSE /\ config' = m.cfg
             /\ phase' = "done"
             /\ UNCHANGED err
  /\ UNCHANGED <<input, nc, jc, cursor, skipped, seen>>

Next ==
  \/ loadProwConfig
  \/ ReadJobConfig
  \/ WalkSkip
  \/ WalkRead
  \/ WalkEnd
  \/ mergeJobConfig

\* Reading is sequential code: once called it keeps executing.
Spec == Init /\ [][Next]_vars /\ WF_vars(Next)

-----------------------------------------------------------------------------
(* Properties                                                              *)

Phases == {"load_prow", "read_job_config", "walk", "merge", "done"}

TypeOK ==
  /\ phase \in Phases
  /\ {nc, jc, config} \subseteq JobConfigs
  /\ cursor \in 1..Len(input.tree) + 1
  /\ skipped \subseteq Paths
  /\ seen \subseteq Basenames

Succeeded == phase = "done" /\ err = "ok"

\* The outcome of reading as the abstract specification sees it.
ReadOutcome ==
  IF phase # "done" THEN Pending ELSE IF err = "ok" THEN config ELSE Error

Abstract == INSTANCE JobConfigRead WITH outcome <- ReadOutcome

\* The walk, the skips, the base-name check and the merges made fragment by
\* fragment return exactly what JobConfigRead promises in one step: the
\* prow config's jobs and then every read fragment's, in walk order and
\* per repository, tagged with their files, or an error; and reading
\* always returns.
ReadImplementsSpec == Abstract!Spec

\* Spec 4.1: a configuration never holds two presets that share a
\* label:value pair, whether the presets come from fragments or from the
\* prow config (mergeJobConfigs' check, loadConfig's early return).
PresetPairsUnique == Succeeded => ~DuplicatedPresetPair(config.presets)

\* Spec 7 and the input rules: a directory's .yaml/.yml files, other than
\* those named "..*" or under a "..*" directory, all reach the returned
\* configuration; none is silently dropped (filepath.Walk callback's error
\* branch).
Intended(tree, i) ==
  /\ ~tree[i].isDir /\ ~tree[i].dotdot /\ tree[i].ext \in YamlExts
  /\ tree[i].frag # ParseError
  /\ \A k \in DOMAIN tree : tree[k].path \in tree[i].above => ~tree[k].dotdot
JobsOf(c) == Range(c.per) \cup UNION {Range(c.pre[r]) \cup Range(c.post[r]) : r \in Repos}
NoFragmentDropped ==
  Succeeded /\ input.jobPath = "dir" =>
    \A i \in DOMAIN input.tree :
      Intended(input.tree, i) =>
        JobsOf(yamlToConfig(input.tree[i].frag, input.tree[i].path)) \subseteq JobsOf(config)

====
