--------------------------- MODULE JobConfigRead ---------------------------
(***************************************************************************)
(* What reading the configuration promises, as one step: loadConfig with   *)
(* ReadJobConfig and mergeJobConfig returns either an error or the prow    *)
(* config's jobs followed, repository by repository, by the jobs of every  *)
(* fragment it reads, in the lexical order of their paths, each job        *)
(* tagged with the path of the file that defined it (spec 4.1 and the      *)
(* order-preservation property of spec 8).                                 *)
(*                                                                         *)
(* The fragments read are the .yaml/.yml files of the directory that are   *)
(* not named "..*" and lie under no "..*" directory and no directory that  *)
(* cannot be listed.  The result is an error when the prow config cannot   *)
(* be read, when the job-config path does not exist, when a read fragment  *)
(* fails to parse, when two read fragments share a base name, or when two  *)
(* presets share a label:value pair -- this last one is checked only when  *)
(* a job-config path is given.                                             *)
(***************************************************************************)
EXTENDS Sequences, SequencesExt

CONSTANTS
  Repos,        \* repository keys of Presubmits and Postsubmits
  Names,        \* job names
  Pairs,        \* preset "label:value" pairs
  Paths,        \* file paths
  PrimaryPath,  \* path of the prow config
  JobFilePath,  \* path of the job config when it is a single file
  YamlExts,     \* extensions of fragments: .yaml and .yml
  ParseError,   \* a file that does not decode
  Pending,      \* no outcome yet
  Error,        \* the outcome of a failed read
  Inputs        \* the files on disk

VARIABLES input, outcome

Job == [name : Names, src : Paths]
JobConfigs == [presets : Seq(SUBSET Pairs), pre : [Repos -> Seq(Job)],
               post : [Repos -> Seq(Job)], per : Seq(Job)]

\* Every job of a decoded document carries the document's path.
Provenance(f, path) ==
  LET tag(js) == [i \in DOMAIN js |-> [name |-> js[i], src |-> path]]
  IN [presets |-> f.presets, pre |-> [r \in Repos |-> tag(f.pre[r])],
      post |-> [r \in Repos |-> tag(f.post[r])], per |-> tag(f.per)]

\* Spec 4.1: lists are concatenated, per repository for the keyed ones.
Concat(a, b) ==
  [presets |-> a.presets \o b.presets,
   pre  |-> [r \in Repos |-> a.pre[r] \o b.pre[r]],
   post |-> [r \in Repos |-> a.post[r] \o b.post[r]],
   per  |-> a.per \o b.per]

Clash(presets) ==
  \E i, j \in DOMAIN presets : i < j /\ presets[i] \cap presets[j] # {}

\* The entries of the directory that are read, in walk order.
Hidden(tree, i) ==
  \E k \in DOMAIN tree : tree[k].path \in tree[i].above /\ (tree[k].readErr \/ tree[k].dotdot)
IsRead(tree, i) ==
  /\ ~Hidden(tree, i)
  /\ ~tree[i].readErr /\ ~tree[i].dotdot /\ ~tree[i].isDir
  /\ tree[i].ext \in YamlExts
ReadEntries(tree) == SelectSeq([i \in DOMAIN tree |-> i], LAMBDA i : IsRead(tree, i))

DirOutcome(in) ==
  LET rd  == ReadEntries(in.tree)
      es  == [k \in DOMAIN rd |-> in.tree[rd[k]]]
      cfg == FoldLeft(LAMBDA acc, e : Concat(acc, Provenance(e.frag, e.path)),
                      Provenance(in.prow, PrimaryPath), es)
  IN IF \/ \E k \in DOMAIN es : es[k].frag = ParseError
        \/ \E k, l \in DOMAIN es : k < l /\ es[k].base = es[l].base
     THEN Error
     ELSE IF Clash(cfg.presets) THEN Error ELSE cfg

Outcome(in) ==
  CASE in.prowErr -> Error
    [] in.jobPath = "none" -> Provenance(in.prow, PrimaryPath)
    [] in.jobPath = "missing" -> Error
    [] in.jobPath = "file" ->
         IF in.file = ParseError THEN Error
         ELSE LET cfg == Concat(Provenance(in.prow, PrimaryPath),
                                Provenance(in.file, JobFilePath))
              IN IF Clash(cfg.presets) THEN Error ELSE cfg
    [] in.jobPath = "dir" -> DirOutcome(in)

Init == input \in Inputs /\ outcome = Pending

Return == /\ outcome = Pending
          /\ outcome' = Outcome(input)
          /\ UNCHANGED input

Spec == Init /\ [][Return]_<<input, outcome>> /\ WF_<<input, outcome>>(Return)

=============================================================================
