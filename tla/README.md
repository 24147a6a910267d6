# TLA+ models of the Prow job-config loader

This directory holds TLA+ models of `src/pkg/prow/apiv1/config.go`, checked with TLC.
The file is Prow's configuration loader.
`Load(prowConfig, jobConfig)` reads the prow config and the job-config fragments, merges them and defaults every job.
It then compiles the job regexes, resolves the decoration defaults and validates everything.
It returns either a `*Config` or the first error it meets.

## The system

| Part | Code (config.go) | State it changes |
|---|---|---|
| Load orchestration | `Load` 504-525, `loadConfig` 594-633 | the `Config` being built; panics are recovered into an error |
| Prow component config | `parseProwConfig` 1047-1286, `validateComponentConfig` 886-899, `ValidateController`, `SlackReporter.DefaultAndValidate` | component defaults; **the global logrus level (1278)** |
| Fragment reader / merger | `ReadJobConfig` 528-591, `mergeJobConfig(s)` 700-762 | the merged `JobConfig`: presets, per-repo job lists, periodics |
| Decoration resolver | `finalizeJobConfig` 834-862, `GetDefaultDecorationConfigs` 274-284, `set*DecorationDefaults` 764-788 | `Plank.DefaultDecorationConfigs`, each decorated job's `DecorationConfig` |
| Default cascade | `defaultJobBase`, `default{Presubmit,Postsubmit,Periodic}Fields` 1459-1501 | agent, namespace, context, trigger, rerun command |
| Preset resolver | `resolvePresets` 1374-1384 (`mergePreset` is not in the repository) | pod specs |
| Match-structure compiler | `Set{Presubmit,Postsubmit}Regexes`, `setBrancherRegexes`, `setChangeRegexes` 1505-1577 | compiled regexes |
| Validator | `validateJobBase` 903-927, `validateAgent` 1326-1356, `validatePodSpec`, `validateLabels`, `validateDecoration`, `validateTriggering`, `validate{Presubmits,Postsubmits,Periodics}` 930-989, `validateJobConfig` 993-1031 | the periodics' parsed intervals |
| Lookups | `InRepoConfigEnabled`, `DirBlacklist`, `GetJobURLPrefix` | none |

`src/pkg/slack/slack_test.go` tests `BuildJobParams` and `parseParameterValue`.
Their code is not in the repository, and the spec does not describe it.

Load runs these parts in one sequence:

1. `loadConfig` (prow config, then the job config);
2. `finalizeJobConfig`: the decoration defaults, then one loop over the presubmit repositories, one over the postsubmit repositories, then the periodics;
3. `validateComponentConfig`;
4. `validateJobConfig`: a loop over the presubmit repositories, one over the postsubmit repositories, then the periodics and their schedules.

Each step returns at its first error.
Nothing in Load runs concurrently.
The nondeterminism a test does not control comes from the four loops over the `Presubmits` and `Postsubmits` maps, whose iteration order Go randomises.
There is also a second source: the recover() that turns a panic (a nil `'*'` decoration default) into an error.

## Modules

- **`ProwJobs.tla`** holds the data and the per-job code as pure operators.
  - **Jobs** are records with only the fields the code tests.
  - **A regex** is the set of branches it matches, or the model value `BadPattern` when it does not compile.
  - **A trigger or rerun command** is a record `[cmd, name]`. `Unset` stands for the empty string; the empty trigger matches everything.
  - **A `DecorationConfig`** is a function from its fields to a value or `Unset`. `Nil` is a nil pointer.
  - **A pod spec** is its shape: `none` (nil), `ok`, `nocmd`, `init` or `multi`.
  - **Code translation:** every `validate*`, `default*`, `Set*Regexes` and `GetDefaultDecorationConfigs` function is an operator with the same name.
  - **Early returns:** a chain of early-returning checks is `FirstError(<<...>>)` and a Go `switch` is `Switch(<<...>>)`, each in the code's order.
  - **Loops:** the validate loops are RECURSIVE operators carrying the code's `validPresubmits` and `validPeriodics` accumulators.
  - **Presets:** a job carries its label pairs, its container's environment and its pod's volumes (names only). `resolvePresets` folds `mergePreset` over `c.Presets` when the job has a pod spec; `defaultPresubmits` and `defaultPostsubmits` call it after the decoration defaults, `defaultPeriodics` after the field defaults, as the code does.
  - **Spec-modelled:** `ApplyDefault`, `Validate`, `ShouldRun`, `Intersects`, the `Preset` type and `mergePreset` are not in the repository, so they are modelled from spec.md. Spec §4.4 names no way for `mergePreset` to fail, so the error return of `resolvePresets` is never taken.
- **`JobConfigLoad.tla`** (EXTENDS ProwJobs) is Load as a state machine.
  - **State:** `phase` is the statement being executed. `pending` holds the repositories a map loop has not visited.
  - **Config fields:** `presubmits`, `postsubmits`, `periodics`, `ddc`, `presets` and `allRepos` are the fields of the `Config` being built.
  - **Result:** `err` is the returned error; `logLevel` is the global logrus level.
  - **Retries:** `loads` and `lastErr` let a caller retry on the same files.
  - **Actions:** there is one action per statement of Load, with a whole handler in each: `loadConfig`, `finalizeDecoration`, `DefaultPresubmitsOf(r)`, `DefaultPostsubmitsOf(r)`, `DefaultPeriodics`, `validateComponentConfig`, `ValidatePresubmitsOf(r)`, `ValidatePostsubmitsOf(r)` and `ValidatePeriodicsAndSchedules`.
  - **Map loops:** a loop body runs for any `r \in pending`, which is how map order is modelled. `End*` leaves a loop once `pending` is empty.
  - **Retry:** `Reload` is the caller calling Load again on unchanged files.
  - **Refinement:** `LoadOutcome` is pending until `phase = "done"`, then the returned job lists or `Error`. `Abstract == INSTANCE LoadSpec WITH outcome <- LoadOutcome, calls <- loads` maps Load onto its abstract specification.
- **`JobRules.tla`** (EXTENDS ProwJobs) restates spec.md's job rules without the code's check order or operators.
  - `SpecAcceptable(in)` is the spec's invariant set over the inputs: agents, triggers, duplicates on intersecting branches, schedules and the `'*'` default.
  - `SpecCascade` is the default cascade of spec §4.2 (agent, namespace, context, trigger and rerun command), the field-by-field decoration precedence (job, repo, org, wildcard), and the presets of §4.4 (`SpecInjected`: the matching presets' environment in order, and the first occurrence of each volume name the pod lacks), written independently of `defaultJobBase`, `default*Fields` and `resolvePresets`.
- **`LoadSpec.tla`** is the abstract specification of Load: a `Return` step sets `outcome` to `SpecResolve(input)` when `SpecAcceptable(input)`, else to `Error`; `Call` is the caller calling Load again, up to `MaxLoads`.
- **`MC_JobConfigLoad.tla`** defines the constants and four pools of inputs, one per question.
  - `PresubmitInputs`: every list of up to two of 11 presubmit shapes in `o1/r1`, with at most one more in `o2/r2`. The second repository gives the cross-repository cases: the map order of the repository loops, and an error in each repository.
  - `JobBaseInputs`: one postsubmit of every combination of agent × pod-spec shape × namespace × eviction × decoration × rerun policy × concurrency × labels, and every pair of 6 periodic shapes.
  - `DecorationInputs`: defaults at repo level (absent, nil or partial), org level and wildcard level (absent, nil, full or partial), and the deprecated default, under decorated and undecorated jobs of each kind.
  - `StageInputs`: failures of the prow config, the job config and the component config, and two log levels.
  - `PresetInputs`: valid configurations with no presets, or a preset needing `team:a` and one matching every job, in both orders and both injecting `V1`. The jobs are a presubmit with the label, a presubmit whose pod already has `V2`, a jenkins postsubmit without a pod spec and a periodic with two labels. The stages run uses `StageAndPresetInputs`, the union of the two.

- **`FragmentMerge.tla`** is reading the configuration, as `loadConfig` (594-633) does it.
  - **Prow config:** the prow config is decoded and `yamlToConfig` tags its jobs with their source path. An empty job-config path returns here.
  - **Job config:** otherwise `ReadJobConfig` decodes a single file, or walks a directory.
  - **The walk:** the directory is given as the sequence of entries `filepath.Walk` visits, in lexical depth-first order.
  - **Entries:** each entry records whether it is a directory, whether its name starts with `..`, whether listing it fails, and its decoded fragment (or `ParseError`).
  - **Actions:** `WalkSkip` and `WalkRead` are the Walk callback's branches, one entry per step. `WalkRead` keeps the base-name check and the merge of each fragment into the accumulated `JobConfig` (`mergeJobConfigs`, 723-762). `mergeJobConfig` (700-715) puts the prow config's jobs first.
  - **State:** `skipped` holds the directories Walk does not enter (`SkipDir`, or a listing error), and `seen` is `uniqueBasenames`.
- **`JobConfigRead.tla`** is the abstract specification of the same reading, as one `Return` step.
  - **Promise:** the prow config's jobs, followed by every read fragment's jobs in walk order and per repository, each tagged with its file; or an error.
  - **Refinement:** `FragmentMerge` maps its state to `outcome` (`ReadOutcome`: pending until `phase = "done"`, then the config or `Error`). It instantiates `JobConfigRead` under that mapping, and the `fragments` run checks `ReadImplementsSpec == Abstract!Spec`, liveness included.
- **`MC_FragmentMerge.tla`** is a seven-entry directory tree.
  - **Directories:** a `..data` directory; a subdirectory that may fail to be listed.
  - **Duplicates:** an optional second `a.yaml`.
  - **Extensions:** a `.yml` file and a `.txt` file.
  - **Fragments:** drawn from a pool in which presets clash and two fragments share a repository. A prow config with its own jobs or clashing presets completes the inputs.
- **`ComponentConfig.tla`** is `parseProwConfig` (1047-1286) and `validateComponentConfig` (886-899) with `ValidateController` (1422-1444) and `SlackReporter.DefaultAndValidate` (481-501).
  - **Scope:** only settings that can make parsing fail, or that parsing computes, are kept. A template, selector, URL or regex either parses or does not.
  - **`parseProwConfig`** is one action. Its checks are a `FirstError` chain in the code's order, and it stores the defaults. It also migrates the spyglass viewers to lenses, builds the regex cache, renames old viewer names and sets the logrus level.
  - **Lens order:** the migration ranges over the `Viewers` map, and `sort.Slice` sorts by name only. So `MigratedLensOrders` is every arrangement of the migrated lenses that is sorted by name, and the action picks one with `\E`.
  - **Reload:** `Reload` parses the same config again, keeping the previous lenses in `lastLenses`.
  - **Spec side:** `ComponentValid` states the rules on the config as written.
- **`MC_ComponentConfig.tla`** has three pools of configs. Each differs from a valid config in one group of settings:
  - controllers: plank, job types, up to two jenkins operators;
  - deck: viewers, lenses, size limit, rerun auth, log level;
  - the other flags, together with the slack reporter.
- **`Lookups.tla`** holds the per-repository lookups as operators over a loaded config: `InRepoConfigEnabled` (131-147), `Plank.GetJobURLPrefix` (286-297) and `OwnersDirBlacklist.DirBlacklist` (189-204).
  - **Keys:** a map key is the sequence of its `/`-separated segments, so `"org/repo"` is `<<org, repo>>`.
  - **Unset values:** a nil `*bool` or an absent entry is `Nil`; an absent string is `""`.
  - **Actions:** a caller issues queries; each query action records its answer.
  - **Reference:** `Narrowest` is the reference definition: the value of the most specific key that is set.
- **`MC_Lookups.tla`** has two orgs with one repository name each. It varies each part of the config over every assignment of unset and set values to its keys.

## Runs

| run | cfg | expect | properties |
|---|---|---|---|
| pipeline | `MC_JobConfigLoad_pipeline.cfg` | pass (about 175k states) | LoadStepsRefineSpec |
| stages | `MC_JobConfigLoad_stages.cfg` | pass (868) | TypeOK, LoadImplementsSpec |
| retry | `MC_JobConfigLoad_retry.cfg` | violation | RetryReproducesError |
| loglevel | `MC_JobConfigLoad_loglevel.cfg` | violation | FailedLoadKeepsLogLevel |
| specless | `MC_JobConfigLoad_specless.cfg` | violation | SpecLessJobsValidated |
| fragments | `MC_FragmentMerge_read.cfg` | pass (1.4k) | TypeOK, ReadImplementsSpec |
| presets_primary | `MC_FragmentMerge_presets.cfg` | violation | PresetPairsUnique |
| dropped_fragment | `MC_FragmentMerge_dropped.cfg` | violation | NoFragmentDropped |
| component | `MC_ComponentConfig.cfg` | pass (7.7k) | TypeOK, OutcomeMatchesRules |
| lens_order | `MC_ComponentConfig_LensOrderDeterministic.cfg` | violation | LensOrderDeterministic |
| lens_names | `MC_ComponentConfig_LensNamesCurrent.cfg` | violation | LensNamesCurrent |
| lookups | `MC_Lookups.cfg` | pass (8k) | TypeOK, LookupsFollowPrecedence |

The `pipeline` run uses `PipelineInputs`, the union of `PresubmitInputs`, `JobBaseInputs` and `DecorationInputs`.

- **LoadStepsRefineSpec:** every step of Load is a step of `LoadSpec` under the refinement mapping (safety part, `[][Next]_absVars`). So in every map order Load succeeds exactly on the inputs the spec accepts, and the jobs it returns are the spec's: every default of §4.2, and every decorated job carrying, field by field, its own value, else the repo default's (else the org's), else the wildcard's.
- **LoadImplementsSpec:** the full refinement, `LoadSpec`'s weak fairness included, so every call of Load also returns. On the preset inputs it also says that every job Load returns carries exactly the environment and volumes §4.4 gives it; the loop in `defaultPresubmits` merges presets through a copy of the job, which is right only because the copy shares the pod spec pointer. It is checked on the stages inputs; on the 175k-state pipeline the liveness part does not finish within the time budget, so the pipeline checks the safety part only.
- **TypeOK:** the type invariant of each module. In JobConfigLoad it is checked in the stages run, where a namespace defaulted before `PodNamespace` would show up as `""`.
- **ReadImplementsSpec:** the walk returns what `JobConfigRead` promises, and it always returns. Its checks are the skips, the base-name check between decoding and merging, and the merges done fragment by fragment.
- **LookupsFollowPrecedence:** every lookup follows "the narrowest match always takes precedence". For `InRepoConfigEnabled` this is the code's behaviour and the type comment's, not the function's doc comment (see the findings).
  - An explicit `false` for a repository wins over `true` for its org.
  - A repository's URL prefix wins over its org's.
  - A blacklist keeps the entries of every level, broadest first, with the preconfigured ones last.
- **OutcomeMatchesRules:** the component config is accepted exactly when it satisfies the rules, in every migration order. The rules include that `max_goroutines` 0 and `size_limit` 0 mean the default, and that the regex of every migrated viewer must compile.

Every property of a passing run has a mutant in PROJECT.json, and TLC finds each mutant's property violated.
Examples:

- forgetting to record an accepted presubmit;
- not defaulting a postsubmit's context to its name;
- dropping the eviction check of `validateAgent`;
- ignoring a component-config error;
- not validating `'*'`;
- applying the wildcard over the repo default;
- a map loop that does not advance;
- merging presets into a copy of the pod spec;
- a fragment list that overwrites the earlier one instead of appending;
- `uniqueBasenames` keyed by the whole path;
- defaulting every `max_goroutines <= 0`.

### Findings

The violation runs show where the code disagrees with spec.md or with its own comments.

- **retry.** Two repositories are invalid, one with a bad branch regex and one with a rerun command that does not match its trigger. The first Load fails with `could not compile positive branch regex` for job `n1`; a Load of the same files fails with `rerun command does not match trigger` for job `n2`. The error record holds only what Go's message holds (stage, job name, reason), so the two errors really differ as the caller sees them. The cause is map order at 864/871/996/1003. Spec §7 says a retry reproduces the same error, and §5 says error order is deterministic.
- **loglevel.** `parseProwConfig` calls `logrus.SetLevel` (1278) before later stages can fail, so a failed Load has changed the process. Spec §9 says the loader does not mutate ambient process state.
- **specless.** `validateJobBase` returns at 920-921 when the job has no spec. This skips the rerun-auth ambiguity check and `validateDecoration`, so a knative-build job with an invalid decoration config is accepted. Spec §4.6 states these rules for every job.
- **presets_primary.** With an empty job-config path, `loadConfig` returns at 620 before `mergeJobConfig`. Two presets of the prow config that share a `label:value` pair are therefore accepted, which spec §4.1 forbids.
- **dropped_fragment.** The Walk callback logs an Lstat or listing error and returns nil (549-552). So when a subdirectory cannot be listed, its fragments are dropped, and Load still succeeds.
- **lens_order.** The comment at 1140 says the migrated lenses are sorted so that their order is stable, because they are referenced by index. But the migration ranges over a map, and `sort.Slice` compares names only. Two parses of one config give the two `junit` lenses (of `re1` and `re2`) in different orders.
- **in-repo config (lookups run, passing).** The doc comment of `InRepoConfigEnabled` (127-130) says it is "a no-op that always returns false". The code returns the narrowest set entry, and the states of the lookups run include a `true` answer for `o2/r` without a fake in-repo config. `LookupsFollowPrecedence` checks what the code does, which is what the `InRepoConfig` type comment (121-123) describes, so it passes; the finding records that the function's own doc comment is wrong.
- **lens_names.** Old viewer names are renamed "for backwards compatibility" (1160-1176), but only after the lenses were migrated. A `build-log-viewer` viewer therefore becomes a lens of that old name.

## Bounds

- **Repositories:** two repositories in two orgs are the fewest for map order to matter, and for repo and org defaults to differ.
- **Presubmit lists:** two jobs per repository are enough for a duplicate. Two patterns over two branches give intersecting, disjoint and skip-excluded branch sets.
- **Names:** three names (two valid, one invalid).
- **Decoration fields:** two fields let a default be partial, so field-by-field precedence is visible.
- **Loads:** `MaxLoads = 2` where a retry matters, 1 elsewhere.
- **Fragments:** the directory tree has every kind of entry the Walk callback distinguishes:
  - a `..` directory;
  - an unlistable directory;
  - a duplicate base name in another directory;
  - both YAML extensions, and one other extension.

  Three fragments are enough for presets to clash and for two fragments to share a repository, so order within a repository is visible.
- **Component config:** the boundaries checked are `max_goroutines` -1, 0 and 5, `max_concurrency` -1 and 0, and `size_limit` -1, 0 and 5.
  - **Jenkins:** zero, one or two operators cover both selector rules.
  - **Viewers:** two regexes with a viewer of the same name are the smallest case where the sort does not fix the order. A regex with no viewers makes its regex unused.
  - **Renaming:** one entry of the renaming table is enough; the other two behave the same.

## Fairness

`Spec` has `WF_vars(Next)`. Load is sequential code with no waits, so once called it keeps executing until it returns.
The same holds for `FragmentMerge`, whose walk is a synchronous loop, and `ComponentConfig`: both have `WF_vars(Next)`. `ReadImplementsSpec` relies on it to check that reading returns.
`CHECK_DEADLOCK FALSE` is set because the final state (`phase = "done"` with no more calls) is the caller stopping, not a deadlock.

## Not modelled (yet)

- **JobConfigLoad's inputs:** it still takes the merged job lists from its input rather than from `FragmentMerge`. Its presets come from its input too, so `mergeJobConfigs`' check for clashing presets is not seen by it (`FragmentMerge` checks it). The two modules abstract a job differently: in `FragmentMerge` it is a name and a source path, in `ProwJobs` it is a record of the fields the validators test. Composing them would make every fragment of the walk carry full job records, which multiplies the pipeline's 175k states by the walk's input space.
- **`mergePreset`'s failures:** `mergePreset` is not in the repository and spec §4.4 describes no failure, so the error paths after `resolvePresets` (794-796, 810-812, 825-827) are not reachable in the model.
- **`ConfigPath`:** it only picks a default path and logs a warning.
- **Component settings:** settings of `parseProwConfig` that are only defaulted and never checked (durations, URLs, rate limits, namespaces) are left out.
- **YAML and gzip I/O** is pure I/O, and is not modelled.
- **`slack_test.go`'s subject** is not in the repository.

## Plan

1. Done:
   - `ProwJobs` and `JobConfigLoad`: defaulting, decoration precedence, regex compilation, validation and map order;
   - `FragmentMerge`, refining `JobConfigRead`;
   - `ComponentConfig`;
   - `Lookups`;
   - the preset resolver, inside `JobConfigLoad` and its refinement.
2. Compose `FragmentMerge` into `JobConfigLoad`, so that Load's job lists, and the presets the finalize loops see, come from the walk instead of the input.
3. Done: `LoadSpec`, Load as one step returning the spec's defaulted jobs or an error, refined by `JobConfigLoad`.
