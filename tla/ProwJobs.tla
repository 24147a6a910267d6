------------------------------ MODULE ProwJobs ------------------------------
(***************************************************************************)
(* The job data model of src/pkg/prow/apiv1/config.go and the per-job      *)
(* operations the resolution pipeline applies to it: the Default Cascade,  *)
(* the Decoration Default Resolver, the Match-Structure Compiler and the   *)
(* per-job and per-list checks of the Validator.  Everything here is an    *)
(* operator; the pipeline that applies them in the code's order is         *)
(* JobConfigLoad.                                                          *)
(*                                                                         *)
(* Data abstraction.  A job is a record holding only what some branch of  *)
(* the code tests: a regex is the set of branches it matches, a pod spec   *)
(* is its shape, a DecorationConfig is a function from its fields to       *)
(* values or Unset, a trigger regex and a rerun command are a command word *)
(* and a job name (a regex matches a command when both agree).             *)
(***************************************************************************)
EXTENDS Integers, Sequences, FiniteSets, SequencesExt

CONSTANTS
  Names,            \* job names
  ValidNames,       \* the names matching jobNameRegex ^[A-Za-z0-9-._]+$
  Repos,            \* "org/repo" identifiers
  Orgs,             \* "org" identifiers
  RepoOrg,          \* [Repos -> Orgs]: strings.Split(repo, "/")[0]
  Branches,         \* branch names
  Patterns,         \* regexes that compile
  PatternBranches,  \* [Patterns -> SUBSET Branches]: what each one matches
  BadPattern,       \* a regex that regexp.Compile rejects
  DCFields,         \* the fields of a DecorationConfig
  DCValues,         \* the values a set field may hold
  LabelPairs,       \* label key:value pairs a job or a preset may carry
  EnvVars,          \* names of environment variables a preset injects
  Volumes,          \* names of volumes a preset injects
  Unset,            \* an unset field: "" or a nil pointer inside a struct
  Nil               \* a nil *DecorationConfig

ASSUME ValidNames \subseteq Names
ASSUME RepoOrg \in [Repos -> Orgs]
ASSUME PatternBranches \in [Patterns -> SUBSET Branches]

KubernetesAgent   == "kubernetes"
KnativeBuildAgent == "knative-build"
JenkinsAgent      == "jenkins"
TektonAgent       == "tekton-pipeline"
Agents == {"", KubernetesAgent, KnativeBuildAgent, JenkinsAgent, TektonAgent,
           "unknown-agent"}

\* The namespace a job runs in: unset, the controllers' pod namespace, or
\* another one.
PodNamespace == "pod-namespace"
Namespaces == {Unset, PodNamespace, "custom-namespace"}

\* Pod spec shapes: nil, one container with a command, one container with
\* empty command and args, init containers present, not exactly 1 container.
PodSpecs == {"none", "ok", "nocmd", "init", "multi"}

DecorationConfigs == [DCFields -> DCValues \cup {Unset}]

\* RerunAuthConfig: unset, a coherent policy, or allow_anyone together with
\* users or teams.
RerunAuths == {"none", "ok", "ambiguous"}

\* A trigger regex or a rerun command: command word and job name.
Commands == [cmd : {"test", "run"}, name : Names]
Triggers == Commands \cup {Unset, BadPattern}

NoRepo == ""          \* the orgRepo of a periodic without extra refs
DecorationKeys == Repos \cup Orgs \cup {"*"}

JobBaseFields == [name : Names, agent : Agents, spec : PodSpecs,
                  ns : Namespaces, eviction : BOOLEAN, maxConc : {-1, 0, 1},
                  labelsOK : BOOLEAN, labels : SUBSET LabelPairs,
                  env : Seq(EnvVars), vols : Seq(Volumes), decorate : BOOLEAN,
                  dc : DecorationConfigs \cup {Nil}, rerunAuth : RerunAuths]

BranchSets == SUBSET (Patterns \cup {BadPattern})

Presubmit == [name : Names, agent : Agents, spec : PodSpecs,
              ns : Namespaces, eviction : BOOLEAN, maxConc : {-1, 0, 1},
              labelsOK : BOOLEAN, labels : SUBSET LabelPairs,
              env : Seq(EnvVars), vols : Seq(Volumes), decorate : BOOLEAN,
              dc : DecorationConfigs \cup {Nil}, rerunAuth : RerunAuths,
              branches : BranchSets, skip : BranchSets,
              runIfChanged : Patterns \cup {Unset, BadPattern},
              alwaysRun : BOOLEAN, skipReport : BOOLEAN,
              context : Names \cup {Unset},
              trigger : Triggers, rerun : Commands \cup {Unset}]

Postsubmit == [name : Names, agent : Agents, spec : PodSpecs,
               ns : Namespaces, eviction : BOOLEAN, maxConc : {-1, 0, 1},
               labelsOK : BOOLEAN, labels : SUBSET LabelPairs,
               env : Seq(EnvVars), vols : Seq(Volumes), decorate : BOOLEAN,
               dc : DecorationConfigs \cup {Nil}, rerunAuth : RerunAuths,
               branches : BranchSets, skip : BranchSets,
               runIfChanged : Patterns \cup {Unset, BadPattern},
               context : Names \cup {Unset}]

Periodic == [name : Names, agent : Agents, spec : PodSpecs,
             ns : Namespaces, eviction : BOOLEAN, maxConc : {-1, 0, 1},
             labelsOK : BOOLEAN, labels : SUBSET LabelPairs,
             env : Seq(EnvVars), vols : Seq(Volumes), decorate : BOOLEAN,
             dc : DecorationConfigs \cup {Nil}, rerunAuth : RerunAuths,
             cron : {Unset, "cron"}, interval : {Unset, "1h", "bad"},
             extraRef : Repos \cup {NoRepo}]

-----------------------------------------------------------------------------
(* Early-return chains.  A Go function that runs checks in order and       *)
(* returns the first error is the first non-"ok" element of the sequence   *)
(* of its checks' results; a switch is its first arm whose case holds.     *)

FirstError(results) ==
  LET i == SelectInSeq(results, LAMBDA r : r # "ok")
  IN IF i = 0 THEN "ok" ELSE results[i]

Switch(arms) ==
  LET i == SelectInSeq(arms, LAMBDA a : a.when)
  IN IF i = 0 THEN "ok" ELSE arms[i].then

-----------------------------------------------------------------------------
(* Default Cascade                                                         *)

DefaultTriggerFor(name) == [cmd |-> "test", name |-> name]
DefaultRerunCommandFor(name) == [cmd |-> "test", name |-> name]

\* A compiled trigger regex accepts a command.  The empty regex accepts
\* everything, "" included.
TriggerMatches(trigger, command) ==
  \/ trigger = Unset
  \/ command # Unset /\ trigger = command

\* Mutant: the namespace is defaulted from a pod namespace that has not
\* been defaulted itself, and so is "".
defaultJobBase_emptyNs(base) ==
  [base EXCEPT !.agent = IF @ = "" THEN KubernetesAgent ELSE @,
               !.ns    = IF @ = Unset THEN "" ELSE @]

defaultJobBase(base) ==
  [base EXCEPT !.agent = IF @ = "" THEN KubernetesAgent ELSE @,
               !.ns    = IF @ = Unset THEN PodNamespace ELSE @]

defaultPresubmitFields(ps) ==
  LET b == defaultJobBase(ps)
      both == ps.trigger = Unset /\ ps.rerun = Unset
  IN [b EXCEPT !.context = IF @ = Unset THEN ps.name ELSE @,
               !.trigger = IF both THEN DefaultTriggerFor(ps.name) ELSE @,
               !.rerun   = IF both THEN DefaultRerunCommandFor(ps.name) ELSE @]

\* Mutant: a postsubmit's context is left unset.
defaultPostsubmitFields_noContext(ps) == defaultJobBase(ps)

defaultPostsubmitFields(ps) ==
  LET b == defaultJobBase(ps)
  IN [b EXCEPT !.context = IF @ = Unset THEN ps.name ELSE @]

defaultPeriodicFields(p) == defaultJobBase(p)

-----------------------------------------------------------------------------
(* Decoration Default Resolver                                             *)

\* DecorationConfig.ApplyDefault: every field set on d wins, an unset one
\* takes def's value; a nil side yields the other side.
ApplyDefault(d, def) ==
  CASE d = Nil -> def
    [] def = Nil -> d
    [] OTHER -> [f \in DCFields |-> IF d[f] # Unset THEN d[f] ELSE def[f]]

\* DecorationConfig.Validate: every field must be set; on a nil receiver
\* the first field access dereferences nil and panics.
DecorationValidate(d) ==
  IF d = Nil THEN "panic"
  ELSE IF \A f \in DCFields : d[f] # Unset THEN "ok"
  ELSE "invalid decoration config"

\* A map lookup: a missing key yields the nil pointer.
Lookup(ddc, key) == IF key \in DOMAIN ddc THEN ddc[key] ELSE Nil

OrgOf(repo) == IF repo \in Repos THEN RepoOrg[repo] ELSE repo

\* Mutant: the wildcard is applied over the repository entry the wrong way
\* round, so the wildcard's fields win.
GetDefaultDecorationConfigs_swapped(ddc, repo) ==
  LET def == Lookup(ddc, "*")
  IN IF repo \in DOMAIN ddc THEN ApplyDefault(def, ddc[repo])
     ELSE IF OrgOf(repo) \in DOMAIN ddc
          THEN ApplyDefault(def, ddc[OrgOf(repo)])
          ELSE def

GetDefaultDecorationConfigs(ddc, repo) ==
  LET def == Lookup(ddc, "*")
  IN IF repo \in DOMAIN ddc THEN ApplyDefault(ddc[repo], def)
     ELSE IF OrgOf(repo) \in DOMAIN ddc
          THEN ApplyDefault(ddc[OrgOf(repo)], def)
          ELSE def

\* setPresubmitDecorationDefaults, setPostsubmitDecorationDefaults and
\* setPeriodicDecorationDefaults; repo is the periodic's extraRefs[0].
setDecorationDefaults(job, ddc, repo) ==
  IF job.decorate
  THEN [job EXCEPT !.dc = ApplyDefault(@, GetDefaultDecorationConfigs(ddc, repo))]
  ELSE job

PeriodicRepo(p) == p.extraRef

-----------------------------------------------------------------------------
(* Match-Structure Compiler                                                *)

setBrancherRegexes(br) ==
  FirstError(<< IF BadPattern \in br.branches
                THEN "could not compile positive branch regex" ELSE "ok",
                IF BadPattern \in br.skip
                THEN "could not compile negative branch regex" ELSE "ok" >>)

setChangeRegexes(job) ==
  IF job.runIfChanged = BadPattern
  THEN "could not compile run_if_changed regex" ELSE "ok"

SetPresubmitRegex(ps) ==
  FirstError(<< IF ps.trigger = BadPattern
                THEN "could not compile trigger regex" ELSE "ok",
                IF ~TriggerMatches(ps.trigger, ps.rerun)
                THEN "rerun command does not match trigger" ELSE "ok",
                setBrancherRegexes(ps),
                setChangeRegexes(ps) >>)

SetPostsubmitRegex(ps) ==
  FirstError(<< setBrancherRegexes(ps), setChangeRegexes(ps) >>)

\* The first job of a list whose regexes fail, with its error.
NoJobError == [job |-> "", why |-> "ok"]
FirstJobError(js, Check(_)) ==
  LET i == SelectInSeq(js, LAMBDA j : Check(j) # "ok")
  IN IF i = 0 THEN NoJobError ELSE [job |-> js[i].name, why |-> Check(js[i])]

-----------------------------------------------------------------------------
(* Brancher                                                                *)

Matched(patterns) == UNION {PatternBranches[p] : p \in patterns \ {BadPattern}}

ShouldRun(br, branch) ==
  /\ br.branches = {} \/ branch \in Matched(br.branches)
  /\ branch \notin Matched(br.skip)

Intersects(a, b) == \E branch \in Branches : ShouldRun(a, branch) /\ ShouldRun(b, branch)

-----------------------------------------------------------------------------
(* Validator: per-job checks                                               *)

KnownAgents == {KubernetesAgent, KnativeBuildAgent, JenkinsAgent, TektonAgent}

\* Mutant: the error_on_eviction case is missing from the switch.
validateAgent_noEviction(v) ==
  LET k == KubernetesAgent  b == KnativeBuildAgent  p == TektonAgent
  IN Switch(<<
      [when |-> v.agent \notin KnownAgents, then |-> "ok"],
      [when |-> v.spec # "none" /\ v.agent # k, then |-> "job specs require agent kubernetes"],
      [when |-> v.agent = k /\ v.spec = "none", then |-> "kubernetes jobs require a spec"],
      [when |-> v.dc # Nil /\ v.agent \notin {k, b}, then |-> "decoration requires agent kubernetes or knative-build"],
      [when |-> v.ns = Unset, then |-> "failed to default namespace"],
      [when |-> v.ns # PodNamespace /\ v.agent \notin {b, p}, then |-> "namespace customization requires agent knative-build or tekton-pipeline"]
     >>)

validateAgent(v) ==
  LET k == KubernetesAgent  b == KnativeBuildAgent  p == TektonAgent
  IN Switch(<<
      [when |-> v.agent \notin KnownAgents, then |-> "ok"],
      [when |-> v.spec # "none" /\ v.agent # k, then |-> "job specs require agent kubernetes"],
      [when |-> v.agent = k /\ v.spec = "none", then |-> "kubernetes jobs require a spec"],
      [when |-> v.dc # Nil /\ v.agent \notin {k, b}, then |-> "decoration requires agent kubernetes or knative-build"],
      [when |-> v.eviction /\ v.agent # k, then |-> "error_on_eviction only applies to agent kubernetes"],
      [when |-> v.ns = Unset, then |-> "failed to default namespace"],
      [when |-> v.ns # PodNamespace /\ v.agent \notin {b, p}, then |-> "namespace customization requires agent knative-build or tekton-pipeline"]
     >>)

validatePodSpec(v) ==
  Switch(<< [when |-> v.spec = "init", then |-> "pod spec may not use init containers"],
            [when |-> v.spec = "multi", then |-> "pod spec must specify exactly 1 container"] >>)

validateLabels(v) == IF v.labelsOK THEN "ok" ELSE "invalid label"

validateDecoration(v) ==
  IF v.dc = Nil THEN "ok"
  ELSE FirstError(<< DecorationValidate(v.dc),
                     IF v.spec = "nocmd"
                     THEN "decorated job containers must specify command and/or args"
                     ELSE "ok" >>)

validateJobBase(v) ==
  LET first == FirstError(<<
         IF v.name \in ValidNames THEN "ok" ELSE "name: must match regex",
         IF v.maxConc < 0 THEN "max_concurrency must be non-negative" ELSE "ok",
         validateAgent(v), validatePodSpec(v), validateLabels(v) >>)
  IN IF first # "ok" \/ v.spec = "none" THEN first
     ELSE FirstError(<< IF v.rerunAuth = "ambiguous"
                        THEN "allow anyone is set to true and permitted users or groups are specified"
                        ELSE "ok",
                        validateDecoration(v) >>)

validateTriggering(job) ==
  FirstError(<<
    IF job.alwaysRun /\ job.runIfChanged # Unset
    THEN "always_run and run_if_changed are mutually exclusive" ELSE "ok",
    IF ~job.skipReport /\ job.context = Unset
    THEN "set to report but has no context configured" ELSE "ok",
    IF (job.trigger # Unset) # (job.rerun # Unset)
    THEN "both of job.Trigger and job.RerunCommand must be set" ELSE "ok" >>)

-----------------------------------------------------------------------------
(* Validator: per-list checks.  Each job is checked against the jobs of    *)
(* the same name accepted before it; the first failure ends the loop.     *)

JobError(name, why) == [job |-> name, why |-> why]

\* Mutant: an accepted job is not recorded in validPresubmits.
RECURSIVE validatePresubmitsFrom_noRecord(_, _, _)
validatePresubmitsFrom_noRecord(js, i, valid) ==
  IF i > Len(js) THEN NoJobError
  ELSE LET ps == js[i]
           dup == \E e \in valid : e.name = ps.name /\ Intersects(e, ps)
       IN IF dup THEN JobError(ps.name, "duplicated presubmit job")
          ELSE IF validateJobBase(ps) # "ok"
               THEN JobError(ps.name, validateJobBase(ps))
          ELSE IF validateTriggering(ps) # "ok"
               THEN JobError(ps.name, validateTriggering(ps))
          ELSE validatePresubmitsFrom_noRecord(js, i + 1, valid)

RECURSIVE validatePresubmitsFrom(_, _, _)
validatePresubmitsFrom(js, i, valid) ==
  IF i > Len(js) THEN NoJobError
  ELSE LET ps == js[i]
           dup == \E e \in valid : e.name = ps.name /\ Intersects(e, ps)
       IN IF dup THEN JobError(ps.name, "duplicated presubmit job")
          ELSE IF validateJobBase(ps) # "ok"
               THEN JobError(ps.name, validateJobBase(ps))
          ELSE IF validateTriggering(ps) # "ok"
               THEN JobError(ps.name, validateTriggering(ps))
          ELSE validatePresubmitsFrom(js, i + 1, valid \cup {ps})

validatePresubmits(js) == validatePresubmitsFrom(js, 1, {})

RECURSIVE validatePostsubmitsFrom(_, _, _)
validatePostsubmitsFrom(js, i, valid) ==
  IF i > Len(js) THEN NoJobError
  ELSE LET ps == js[i]
           dup == \E e \in valid : e.name = ps.name /\ Intersects(e, ps)
       IN IF dup THEN JobError(ps.name, "duplicated postsubmit job")
          ELSE IF validateJobBase(ps) # "ok"
               THEN JobError(ps.name, validateJobBase(ps))
          ELSE validatePostsubmitsFrom(js, i + 1, valid \cup {ps})

validatePostsubmits(js) == validatePostsubmitsFrom(js, 1, {})

RECURSIVE validatePeriodicsFrom(_, _, _)
validatePeriodicsFrom(js, i, seen) ==
  IF i > Len(js) THEN NoJobError
  ELSE LET p == js[i]
       IN IF p.name \in seen THEN JobError(p.name, "duplicated periodic job")
          ELSE IF validateJobBase(p) # "ok"
               THEN JobError(p.name, validateJobBase(p))
          ELSE validatePeriodicsFrom(js, i + 1, seen \cup {p.name})

validatePeriodics(js) == validatePeriodicsFrom(js, 1, {})

\* The schedule loop at the end of validateJobConfig.
PeriodicSchedule(p) ==
  CASE p.cron # Unset /\ p.interval # Unset -> "cron and interval cannot be both set"
    [] p.cron = Unset /\ p.interval = Unset -> "cron and interval cannot be both empty"
    [] p.cron = Unset /\ p.interval = "bad" -> "cannot parse duration"
    [] OTHER -> "ok"

-----------------------------------------------------------------------------
(* Preset Resolver.  Preset and mergePreset are not in the repository;     *)
(* they are modelled from spec 4.4, which names no case in which merging   *)
(* a preset fails, so resolvePresets here never returns an error.          *)

Preset == [labels : SUBSET LabelPairs, env : Seq(EnvVars), vols : Seq(Volumes)]

\* A volume is appended unless the pod already has one of that name.
AddVolume(vols, v) == IF v \in Range(vols) THEN vols ELSE Append(vols, v)

\* A preset all of whose label pairs the job carries appends its
\* environment to the container's and its volumes to the pod's.
mergePreset(preset, job) ==
  IF preset.labels \subseteq job.labels
  THEN [job EXCEPT !.env  = @ \o preset.env,
                   !.vols = FoldLeft(AddVolume, @, preset.vols)]
  ELSE job

\* Every preset in order, merged into the pod spec only if there is one.
resolvePresets(job, presets) ==
  IF job.spec = "none" THEN job
  ELSE FoldLeft(LAMBDA j, p : mergePreset(p, j), job, presets)

-----------------------------------------------------------------------------
(* Per-repository defaulting: decoration defaults and presets for each     *)
(* job, then the field defaults, then the regexes.  The loop ranges over   *)
(* copies of the jobs (for idx, ps := range presubmits): the decoration    *)
(* defaults are set on the slice element, the presets through the copy's  *)
(* Spec pointer, which the element shares.                                *)

\* Mutant: the presets are merged into a copy of the pod spec, not into the
\* job's own.
defaultPresubmits_presetsOnCopy(js, ddc, repo, presets) ==
  LET decorated == [i \in 1..Len(js) |-> setDecorationDefaults(js[i], ddc, repo)]
      defaulted == [i \in 1..Len(js) |-> defaultPresubmitFields(decorated[i])]
  IN [jobs |-> defaulted, err |-> FirstJobError(defaulted, SetPresubmitRegex)]

defaultPresubmits(js, ddc, repo, presets) ==
  LET decorated == [i \in 1..Len(js) |->
                      resolvePresets(setDecorationDefaults(js[i], ddc, repo), presets)]
      defaulted == [i \in 1..Len(js) |-> defaultPresubmitFields(decorated[i])]
  IN [jobs |-> defaulted, err |-> FirstJobError(defaulted, SetPresubmitRegex)]

defaultPostsubmits(js, ddc, repo, presets) ==
  LET decorated == [i \in 1..Len(js) |->
                      resolvePresets(setDecorationDefaults(js[i], ddc, repo), presets)]
      defaulted == [i \in 1..Len(js) |-> defaultPostsubmitFields(decorated[i])]
  IN [jobs |-> defaulted, err |-> FirstJobError(defaulted, SetPostsubmitRegex)]

\* The field defaults first, then the presets of each periodic.
defaultPeriodics(js, presets) ==
  [i \in 1..Len(js) |-> resolvePresets(defaultPeriodicFields(js[i]), presets)]

\* decorationRequested: some job of any kind sets decorate.
decorationRequested(pre, post, per) ==
  \/ \E r \in DOMAIN pre : \E i \in DOMAIN pre[r] : pre[r][i].decorate
  \/ \E r \in DOMAIN post : \E i \in DOMAIN post[r] : post[r][i].decorate
  \/ \E i \in DOMAIN per : per[i].decorate

=============================================================================
