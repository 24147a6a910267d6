---------------------------- MODULE JobConfigLoad ----------------------------
(***************************************************************************)
(* The public Load operation of src/pkg/prow/apiv1/config.go: loadConfig,  *)
(* then finalizeJobConfig (decoration defaults, then per repository the    *)
(* defaulting and regex compilation of its presubmits, then of its         *)
(* postsubmits, then the periodics), then validateComponentConfig, then    *)
(* validateJobConfig (per repository presubmits, postsubmits, then the     *)
(* periodics and their schedules), with the recover of Load turning a      *)
(* panic into an error.                                                     *)
(*                                                                         *)
(* The loops over Presubmits and Postsubmits range over Go maps, whose     *)
(* iteration order is unspecified and randomised: each repository visited  *)
(* is chosen by \E from the repositories still pending.  A caller may call *)
(* Load again on unchanged files (Reload), up to MaxLoads times.           *)
(***************************************************************************)
EXTENDS JobRules

CONSTANTS
  Pending,    \* LoadSpec's outcome of a call still running
  Error,      \* LoadSpec's outcome of a failed call
  Inputs,     \* the configurations on disk Load may be given
  MaxLoads    \* how many times a caller calls Load on the same files

VARIABLES
  input,        \* the files on disk: unchanged by Load
  phase,        \* the statement of Load being executed
  pending,      \* repositories the current map loop has not visited yet
  presubmits,   \* c.Presubmits:  [Repos -> Seq(Presubmit)]
  postsubmits,  \* c.Postsubmits: [Repos -> Seq(Postsubmit)]
  periodics,    \* c.Periodics
  ddc,          \* c.Plank.DefaultDecorationConfigs
  presets,      \* c.Presets
  allRepos,     \* c.AllRepos
  err,          \* the error Load is returning, NoErr while it runs
  logLevel,     \* the level of the process-wide logrus standard logger
  loads,        \* number of Load calls made so far
  lastErr       \* the error the previous Load call returned

vars == <<input, phase, pending, presubmits, postsubmits, periodics, ddc, presets,
          allRepos, err, logLevel, loads, lastErr>>

Phases == {"load", "finalize", "default_presubmits", "default_postsubmits",
           "default_periodics", "validate_component", "validate_presubmits",
           "validate_postsubmits", "validate_periodics", "done"}

\* The error Load returns, as its message tells it: the stage that wrapped
\* it, the job it names and the reason.  No message names the repository.
NoErr == [stage |-> "none", job |-> "", why |-> "ok"]
Err(stage, job, why) == [stage |-> stage, job |-> job, why |-> why]

EmptyJobs == [r \in Repos |-> <<>>]
RepoKeys(jobs) == {r \in Repos : jobs[r] # <<>>}

\* The process starts with logrus at its default level.
InitialLogLevel == "info"

Init ==
  /\ input \in Inputs
  /\ phase = "load"
  /\ pending = {}
  /\ presubmits = EmptyJobs
  /\ postsubmits = EmptyJobs
  /\ periodics = <<>>
  /\ ddc = <<>>
  /\ presets = <<>>
  /\ allRepos = {}
  /\ err = NoErr
  /\ logLevel = InitialLogLevel
  /\ loads = 1
  /\ lastErr = NoErr

\* Load returns: the error is final and the pipeline stops.
Fail(e) == /\ err' = e
           /\ phase' = "done"

-----------------------------------------------------------------------------
(* loadConfig: read and parse the prow config (parseProwConfig sets the    *)
(* logrus level as one of its last steps), then read and merge the job     *)
(* config.  Reading and merging are abstracted: their result is the job   *)
(* lists and the presets of the input, or an error flag.                   *)

loadConfig ==
  /\ phase = "load"
  /\ IF input.prowErr
     THEN /\ Fail(Err("load", "", "parseProwConfig"))
          /\ UNCHANGED <<logLevel, presubmits, postsubmits, periodics, ddc, presets>>
     ELSE /\ logLevel' = input.level
          /\ IF input.jobErr
             THEN /\ Fail(Err("load", "", "ReadJobConfig"))
                  /\ UNCHANGED <<presubmits, postsubmits, periodics, ddc, presets>>
             ELSE /\ phase' = "finalize"
                  /\ UNCHANGED err
                  /\ presubmits' = input.pre
                  /\ postsubmits' = input.post
                  /\ periodics' = input.per
                  /\ ddc' = input.ddc
                  /\ presets' = input.presets
  /\ UNCHANGED <<input, pending, allRepos, loads, lastErr>>

-----------------------------------------------------------------------------
(* finalizeJobConfig, decoration part: only when some job decorates, the   *)
(* deprecated default_decoration_config is migrated to the '*' key, the    *)
(* '*' default must exist and validate (Validate on a nil '*' panics and   *)
(* Load's recover returns the panic as an error), and the periodics get    *)
(* their decoration defaults.                                              *)

MigratedDefaults(old) == IF old # Nil THEN ("*" :> old) ELSE ddc

\* Mutant: the '*' default is never validated.
FinalizeDecorationError_noValidate(old) ==
  LET m == MigratedDefaults(old)
  IN FirstError(<<
       IF old # Nil /\ DOMAIN ddc # {}
       THEN "both default_decoration_config and default_decoration_configs are specified"
       ELSE "ok",
       IF DOMAIN m = {}
       THEN "both default_decoration_config and default_decoration_configs['*'] are missing"
       ELSE "ok",
       IF "*" \notin DOMAIN m THEN "default_decoration_configs['*'] is missing" ELSE "ok" >>)

FinalizeDecorationError(old) ==
  LET m == MigratedDefaults(old)
  IN FirstError(<<
       IF old # Nil /\ DOMAIN ddc # {}
       THEN "both default_decoration_config and default_decoration_configs are specified"
       ELSE "ok",
       IF DOMAIN m = {}
       THEN "both default_decoration_config and default_decoration_configs['*'] are missing"
       ELSE "ok",
       IF "*" \notin DOMAIN m THEN "default_decoration_configs['*'] is missing" ELSE "ok",
       DecorationValidate(Lookup(m, "*")) >>)

\* Mutant: the decoration defaults are checked whether or not a job
\* decorates.
finalizeDecoration_ungated ==
  /\ phase = "finalize"
  /\ LET e == FinalizeDecorationError(input.old)
         m == MigratedDefaults(input.old)
     IN IF e = "panic"
        THEN /\ Fail(Err("load", "", "panic loading config"))
             /\ UNCHANGED <<pending, ddc, periodics>>
        ELSE IF e # "ok"
        THEN /\ Fail(Err("finalize", "", e))
             /\ UNCHANGED <<pending, ddc, periodics>>
        ELSE /\ ddc' = m
             /\ periodics' = [i \in DOMAIN periodics |->
                     setDecorationDefaults(periodics[i], m, PeriodicRepo(periodics[i]))]
             /\ phase' = "default_presubmits"
             /\ pending' = RepoKeys(presubmits)
             /\ UNCHANGED err
  /\ UNCHANGED <<input, presets, presubmits, postsubmits, allRepos, logLevel, loads, lastErr>>

finalizeDecoration ==
  /\ phase = "finalize"
  /\ IF ~decorationRequested(presubmits, postsubmits, periodics)
     THEN /\ phase' = "default_presubmits"
          /\ pending' = RepoKeys(presubmits)
          /\ UNCHANGED <<err, ddc, periodics>>
     ELSE LET e == FinalizeDecorationError(input.old)
              m == MigratedDefaults(input.old)
          IN IF e = "panic"
             THEN /\ Fail(Err("load", "", "panic loading config"))
                  /\ UNCHANGED <<pending, ddc, periodics>>
             ELSE IF e # "ok"
             THEN /\ Fail(Err("finalize", "", e))
                  /\ UNCHANGED <<pending, ddc, periodics>>
             ELSE /\ ddc' = m
                  /\ periodics' = [i \in DOMAIN periodics |->
                          setDecorationDefaults(periodics[i], m, PeriodicRepo(periodics[i]))]
                  /\ phase' = "default_presubmits"
                  /\ pending' = RepoKeys(presubmits)
                  /\ UNCHANGED err
  /\ UNCHANGED <<input, presets, presubmits, postsubmits, allRepos, logLevel, loads, lastErr>>

-----------------------------------------------------------------------------
(* finalizeJobConfig, the loops over the repositories of c.Presubmits and  *)
(* of c.Postsubmits, then the periodics.                                   *)

\* Mutant: the loop does not move past a repository it has defaulted.
DefaultPresubmitsOf_stuck(r) ==
  /\ phase = "default_presubmits"
  /\ r \in pending
  /\ LET res == defaultPresubmits(presubmits[r], ddc, r, presets)
     IN /\ presubmits' = [presubmits EXCEPT ![r] = res.jobs]
        /\ IF res.err.why # "ok"
           THEN /\ Fail(Err("finalize", res.err.job, res.err.why))
                /\ UNCHANGED <<pending, allRepos>>
           ELSE /\ allRepos' = allRepos \cup {r}
                /\ UNCHANGED <<err, phase, pending>>
  /\ UNCHANGED <<input, presets, postsubmits, periodics, ddc, logLevel, loads, lastErr>>

DefaultPresubmitsOf(r) ==
  /\ phase = "default_presubmits"
  /\ r \in pending
  /\ LET res == defaultPresubmits(presubmits[r], ddc, r, presets)
     IN /\ presubmits' = [presubmits EXCEPT ![r] = res.jobs]
        /\ IF res.err.why # "ok"
           THEN /\ Fail(Err("finalize", res.err.job, res.err.why))
                /\ UNCHANGED <<pending, allRepos>>
           ELSE /\ pending' = pending \ {r}
                /\ allRepos' = allRepos \cup {r}
                /\ UNCHANGED <<err, phase>>
  /\ UNCHANGED <<input, presets, postsubmits, periodics, ddc, logLevel, loads, lastErr>>

DefaultPostsubmitsOf(r) ==
  /\ phase = "default_postsubmits"
  /\ r \in pending
  /\ LET res == defaultPostsubmits(postsubmits[r], ddc, r, presets)
     IN /\ postsubmits' = [postsubmits EXCEPT ![r] = res.jobs]
        /\ IF res.err.why # "ok"
           THEN /\ Fail(Err("finalize", res.err.job, res.err.why))
                /\ UNCHANGED <<pending, allRepos>>
           ELSE /\ pending' = pending \ {r}
                /\ allRepos' = allRepos \cup {r}
                /\ UNCHANGED <<err, phase>>
  /\ UNCHANGED <<input, presets, presubmits, periodics, ddc, logLevel, loads, lastErr>>

\* A map loop has visited every key: control passes to the next statement.
EndLoop(from, to, nextPending) ==
  /\ phase = from
  /\ pending = {}
  /\ phase' = to
  /\ pending' = nextPending
  /\ UNCHANGED <<input, presets, presubmits, postsubmits, periodics, ddc, allRepos,
                 err, logLevel, loads, lastErr>>

EndDefaultPresubmits ==
  EndLoop("default_presubmits", "default_postsubmits", RepoKeys(postsubmits))

EndDefaultPostsubmits ==
  EndLoop("default_postsubmits", "default_periodics", {})

DefaultPeriodics ==
  /\ phase = "default_periodics"
  /\ periodics' = defaultPeriodics(periodics, presets)
  /\ phase' = "validate_component"
  /\ UNCHANGED <<input, presets, pending, presubmits, postsubmits, ddc, allRepos, err,
                 logLevel, loads, lastErr>>

-----------------------------------------------------------------------------
(* validateComponentConfig: job_url_prefix_config URLs and the Slack       *)
(* reporter; its outcome is an input flag (ComponentConfig models it).     *)

\* Mutant: a failing component config is not reported.
validateComponentConfig_ignored ==
  /\ phase = "validate_component"
  /\ phase' = "validate_presubmits"
  /\ pending' = RepoKeys(presubmits)
  /\ UNCHANGED <<err, input, presets, presubmits, postsubmits, periodics, ddc, allRepos,
                 logLevel, loads, lastErr>>

validateComponentConfig ==
  /\ phase = "validate_component"
  /\ IF input.componentErr
     THEN /\ Fail(Err("component", "", "validateComponentConfig"))
          /\ UNCHANGED pending
     ELSE /\ phase' = "validate_presubmits"
          /\ pending' = RepoKeys(presubmits)
          /\ UNCHANGED err
  /\ UNCHANGED <<input, presets, presubmits, postsubmits, periodics, ddc, allRepos,
                 logLevel, loads, lastErr>>

-----------------------------------------------------------------------------
(* validateJobConfig                                                       *)

ValidatePresubmitsOf(r) ==
  /\ phase = "validate_presubmits"
  /\ r \in pending
  /\ LET res == validatePresubmits(presubmits[r])
     IN IF res.why # "ok"
        THEN /\ Fail(Err("validate", res.job, res.why))
             /\ UNCHANGED pending
        ELSE /\ pending' = pending \ {r}
             /\ UNCHANGED <<err, phase>>
  /\ UNCHANGED <<input, presets, presubmits, postsubmits, periodics, ddc, allRepos,
                 logLevel, loads, lastErr>>

ValidatePostsubmitsOf(r) ==
  /\ phase = "validate_postsubmits"
  /\ r \in pending
  /\ LET res == validatePostsubmits(postsubmits[r])
     IN IF res.why # "ok"
        THEN /\ Fail(Err("validate", res.job, res.why))
             /\ UNCHANGED pending
        ELSE /\ pending' = pending \ {r}
             /\ UNCHANGED <<err, phase>>
  /\ UNCHANGED <<input, presets, presubmits, postsubmits, periodics, ddc, allRepos,
                 logLevel, loads, lastErr>>

EndValidatePresubmits ==
  EndLoop("validate_presubmits", "validate_postsubmits", RepoKeys(postsubmits))

EndValidatePostsubmits ==
  EndLoop("validate_postsubmits", "validate_periodics", {})

\* validatePeriodics, then the schedule of every periodic in order.
ValidatePeriodicsAndSchedules ==
  /\ phase = "validate_periodics"
  /\ LET res == validatePeriodics(periodics)
         sched == FirstJobError(periodics, PeriodicSchedule)
     IN IF res.why # "ok" THEN Fail(Err("validate", res.job, res.why))
        ELSE IF sched.why # "ok" THEN Fail(Err("validate", sched.job, sched.why))
        ELSE /\ phase' = "done"
             /\ UNCHANGED err
  /\ UNCHANGED <<input, presets, pending, presubmits, postsubmits, periodics, ddc,
                 allRepos, logLevel, loads, lastErr>>

-----------------------------------------------------------------------------
(* The caller calls Load again on the same files: a fresh Config.          *)

Reload ==
  /\ phase = "done"
  /\ loads < MaxLoads
  /\ loads' = loads + 1
  /\ lastErr' = err
  /\ err' = NoErr
  /\ phase' = "load"
  /\ pending' = {}
  /\ presubmits' = EmptyJobs
  /\ postsubmits' = EmptyJobs
  /\ periodics' = <<>>
  /\ ddc' = <<>>
  /\ presets' = <<>>
  /\ allRepos' = {}
  /\ UNCHANGED <<input, logLevel>>

Next ==
  \/ loadConfig
  \/ finalizeDecoration
  \/ \E r \in Repos : DefaultPresubmitsOf(r)
  \/ EndDefaultPresubmits
  \/ \E r \in Repos : DefaultPostsubmitsOf(r)
  \/ EndDefaultPostsubmits
  \/ DefaultPeriodics
  \/ validateComponentConfig
  \/ \E r \in Repos : ValidatePresubmitsOf(r)
  \/ EndValidatePresubmits
  \/ \E r \in Repos : ValidatePostsubmitsOf(r)
  \/ EndValidatePostsubmits
  \/ ValidatePeriodicsAndSchedules
  \/ Reload

\* Load is sequential code: once called it keeps executing.
Spec == Init /\ [][Next]_vars /\ WF_vars(Next)

-----------------------------------------------------------------------------
(* Properties                                                              *)

TypeOK ==
  /\ phase \in Phases
  /\ pending \subseteq Repos
  /\ presubmits \in [Repos -> Seq(Presubmit)]
  /\ postsubmits \in [Repos -> Seq(Postsubmit)]
  /\ periodics \in Seq(Periodic)
  /\ DOMAIN ddc \subseteq DecorationKeys
  /\ presets \in Seq(Preset)
  /\ allRepos \subseteq Repos
  /\ err.stage \in {"none", "load", "finalize", "component", "validate"}
  /\ logLevel \in {"info", "debug"}
  /\ loads \in 1..MaxLoads

Succeeded == phase = "done" /\ err = NoErr
Failed == phase = "done" /\ err # NoErr

\* Spec 4.6 applies the per-job rules uniformly to all jobs: a job without
\* a pod spec (jenkins, knative-build) that Load returns also has an
\* unambiguous rerun policy and a valid decoration config.
SpecLessJobsValidated ==
  Succeeded =>
    \A j \in AllJobs(presubmits, postsubmits, periodics) :
      j.spec = "none" => j.rerunAuth # "ambiguous" /\ (j.dc # Nil => DCValid(j.dc))

\* Spec 7: retrying a Load on unchanged files reproduces the same error.
RetryReproducesError ==
  phase = "done" /\ loads > 1 => err = lastErr

\* Spec 9: the engine does not mutate ambient process state; a failed Load
\* leaves the process-wide log level as it found it.
FailedLoadKeepsLogLevel ==
  Failed /\ loads = 1 => logLevel = InitialLogLevel

\* The outcome of the current call as LoadSpec sees it: pending until Load
\* returns, then the job lists of the returned Config, or an error.
LoadOutcome ==
  IF phase # "done" THEN Pending
  ELSE IF err = NoErr THEN [pre |-> presubmits, post |-> postsubmits, per |-> periodics]
  ELSE Error

Abstract == INSTANCE LoadSpec WITH outcome <- LoadOutcome, calls <- loads

\* The stages of Load, the map loops in every order and the reloads
\* together implement LoadSpec: each call returns, once, and it returns
\* exactly the spec's resolution of the files (every job defaulted and
\* decorated as sections 4.2 and 4.3 say) or an error, the error exactly
\* when the spec rejects the files.
LoadImplementsSpec == Abstract!Spec

\* The same refinement without its liveness part: every step of Load, in
\* every map order, is a step LoadSpec allows or leaves its outcome
\* unchanged, so no call returns anything but Result(input).
LoadStepsRefineSpec == Abstract!SafetySpec

=============================================================================
