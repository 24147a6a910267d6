-------------------------- MODULE MC_JobConfigLoad --------------------------
(***************************************************************************)
(* Instances of JobConfigLoad for TLC.  Each run gives Load a set of       *)
(* small configurations on disk, chosen so that the cases the code         *)
(* distinguishes all occur: jobs of one name on overlapping and disjoint   *)
(* branches, in one or two repositories; triggers and rerun commands set,  *)
(* unset and mismatched; every agent against every pod-spec shape,         *)
(* namespace and decoration; and decoration defaults at repo, org and      *)
(* wildcard level, in the deprecated and the current form.                 *)
(***************************************************************************)
EXTENDS JobConfigLoad

MCNames == {"n1", "n2", "bad name"}
MCValidNames == {"n1", "n2"}
MCRepos == {"o1/r1", "o2/r2"}
MCOrgs == {"o1", "o2"}
MCRepoOrg == [r \in MCRepos |-> IF r = "o1/r1" THEN "o1" ELSE "o2"]
MCBranches == {"main", "dev"}
MCPatterns == {"^main$", "^dev$"}
MCPatternBranches == [p \in MCPatterns |-> IF p = "^main$" THEN {"main"} ELSE {"dev"}]
MCDCFields == {"utility_images", "gcs_configuration"}
\* A value names the level that set it: job, repo, org or wildcard.
MCDCValues == {"job", "repo", "org", "wild"}
MCLabelPairs == {"team:a", "team:b"}
MCEnvVars == {"E1", "E2"}
MCVolumes == {"V1", "V2"}

BaseJob(n) ==
  [name |-> n, agent |-> "", spec |-> "ok", ns |-> Unset, eviction |-> FALSE,
   maxConc |-> 0, labelsOK |-> TRUE, labels |-> {}, env |-> <<>>, vols |-> <<>>,
   decorate |-> FALSE, dc |-> Nil,
   rerunAuth |-> "none"]

Pre(n) == BaseJob(n) @@ [branches |-> {}, skip |-> {}, runIfChanged |-> Unset,
                         alwaysRun |-> FALSE, skipReport |-> FALSE,
                         context |-> Unset, trigger |-> Unset, rerun |-> Unset]

Post(n) == BaseJob(n) @@ [branches |-> {}, skip |-> {}, runIfChanged |-> Unset,
                          context |-> Unset]

Per(n) == BaseJob(n) @@ [cron |-> "cron", interval |-> Unset, extraRef |-> NoRepo]

Cmd(c, n) == [cmd |-> c, name |-> n]

NoJobs == [r \in MCRepos |-> <<>>]

Files(pre, post, per, defaults, old) ==
  [pre |-> pre, post |-> post, per |-> per, ddc |-> defaults, old |-> old, presets |-> <<>>,
   prowErr |-> FALSE, jobErr |-> FALSE, componentErr |-> FALSE, level |-> "info"]

-----------------------------------------------------------------------------
(* Presubmit pipeline: duplicates across branches, triggers, regexes.      *)

PresubmitPool ==
  { Pre("n1"),
    [Pre("n1") EXCEPT !.branches = {"^main$"}],
    [Pre("n1") EXCEPT !.branches = {"^dev$"}],
    [Pre("n1") EXCEPT !.skip = {"^main$"}],
    [Pre("n1") EXCEPT !.branches = {BadPattern}],
    [Pre("n2") EXCEPT !.trigger = Cmd("run", "n2"), !.rerun = Cmd("test", "n2")],
    [Pre("n2") EXCEPT !.trigger = Cmd("run", "n2")],
    [Pre("n2") EXCEPT !.rerun = Cmd("run", "n2")],
    [Pre("n2") EXCEPT !.trigger = Cmd("run", "n2"), !.rerun = Cmd("run", "n2")],
    [Pre("n2") EXCEPT !.alwaysRun = TRUE, !.runIfChanged = "^dev$"],
    Pre("bad name") }

\* Up to two presubmits in o1/r1, against which the second repository
\* adds at most one: the cross-repository cases are the map order of the
\* repository loops and an error in each repository.
PresubmitInputs ==
  { Files(("o1/r1" :> p1) @@ ("o2/r2" :> p2), NoJobs, <<>>, <<>>, Nil) :
      p1 \in BoundedSeq(PresubmitPool, 2), p2 \in BoundedSeq(PresubmitPool, 1) }

-----------------------------------------------------------------------------
(* Job-base rules: one postsubmit of every agent, pod-spec shape,          *)
(* namespace, eviction flag, decoration, rerun policy, concurrency and     *)
(* label validity; and lists of periodics with every schedule.             *)

FullDC == [f \in MCDCFields |-> "job"]
PartialDC == [f \in MCDCFields |-> IF f = "utility_images" THEN "job" ELSE Unset]

JobBasePool ==
  { [Post("n1") EXCEPT !.agent = a, !.spec = s, !.ns = ns, !.eviction = e,
                       !.dc = d, !.rerunAuth = ra, !.maxConc = m, !.labelsOK = l] :
      a \in Agents, s \in PodSpecs, ns \in Namespaces, e \in BOOLEAN,
      d \in {Nil, FullDC, PartialDC}, ra \in RerunAuths, m \in {-1, 0},
      l \in BOOLEAN }

PeriodicPool ==
  { Per("n1"),
    [Per("n1") EXCEPT !.cron = Unset, !.interval = "1h"],
    [Per("n1") EXCEPT !.interval = "1h"],
    [Per("n1") EXCEPT !.cron = Unset],
    [Per("n1") EXCEPT !.cron = Unset, !.interval = "bad"],
    Per("n2") }

JobBaseInputs ==
  { Files(NoJobs, [r \in MCRepos |-> IF r = "o1/r1" THEN <<j>> ELSE <<>>], <<>>, <<>>, Nil) :
      j \in JobBasePool }
  \cup
  { Files(NoJobs, NoJobs, per, <<>>, Nil) : per \in BoundedSeq(PeriodicPool, 2) }

-----------------------------------------------------------------------------
(* Decoration defaults at three levels, and the deprecated single default. *)

Level(v, fields) == [f \in MCDCFields |-> IF f \in fields THEN v ELSE Unset]

\* Each key is absent, maps to nil, or maps to a config.
DecorationDefaults ==
  { er @@ eo @@ ew :
      er \in {<<>>, ("o1/r1" :> Nil), ("o1/r1" :> Level("repo", {"utility_images"}))},
      eo \in {<<>>, ("o1" :> Level("org", MCDCFields))},
      ew \in {<<>>, ("*" :> Nil), ("*" :> Level("wild", MCDCFields)),
              ("*" :> Level("wild", {"gcs_configuration"}))} }

DecoratedPre ==
  { [Pre("n1") EXCEPT !.decorate = dec, !.dc = d] :
      dec \in BOOLEAN, d \in {Nil, Level("job", {"gcs_configuration"})} }

DecorationInputs ==
  { Files([r \in MCRepos |-> IF r = "o1/r1" THEN pre ELSE <<>>],
          [r \in MCRepos |-> IF r = "o2/r2" THEN post ELSE <<>>],
          per, defaults, old) :
      pre \in {<<>>} \cup {<<j>> : j \in DecoratedPre},
      post \in {<<>>, <<[Post("n1") EXCEPT !.decorate = TRUE]>>},
      per \in {<<>>, <<[Per("n1") EXCEPT !.decorate = TRUE]>>,
                     <<[Per("n1") EXCEPT !.decorate = TRUE, !.extraRef = "o1/r1"]>>},
      defaults \in DecorationDefaults,
      old \in {Nil, Level("wild", MCDCFields)} }

-----------------------------------------------------------------------------
(* Failures of other stages, and a log level set by the prow config.       *)

StageInputs ==
  { [Files([r \in MCRepos |-> IF r = "o1/r1" THEN pre ELSE <<>>], NoJobs, <<>>, <<>>, Nil)
       EXCEPT !.prowErr = pe, !.jobErr = je, !.componentErr = ce, !.level = lv] :
      pre \in {<<Pre("n1")>>, <<Pre("bad name")>>},
      pe \in BOOLEAN, je \in BOOLEAN, ce \in BOOLEAN, lv \in {"info", "debug"} }

-----------------------------------------------------------------------------
(* Presets: one that needs a label and one that matches every job, in      *)
(* both orders, both injecting volume V1, over jobs with and without the   *)
(* label, a job whose pod already has V2, and a job without a pod spec.    *)

PresetA == [labels |-> {"team:a"}, env |-> <<"E1">>, vols |-> <<"V1">>]
PresetAll == [labels |-> {}, env |-> <<"E2">>, vols |-> <<"V1", "V2">>]

PresetInputs ==
  { [Files([r \in MCRepos |-> IF r = "o1/r1" THEN pre ELSE <<>>],
           [r \in MCRepos |-> IF r = "o2/r2" THEN post ELSE <<>>], per, <<>>, Nil)
       EXCEPT !.presets = ps] :
      pre \in {<<[Pre("n1") EXCEPT !.labels = {"team:a"}]>>,
               <<[Pre("n1") EXCEPT !.vols = <<"V2">>]>>},
      post \in {<<>>, <<[Post("n1") EXCEPT !.agent = JenkinsAgent, !.spec = "none"]>>},
      per \in {<<>>, <<[Per("n2") EXCEPT !.labels = {"team:a", "team:b"}]>>},
      ps \in {<<>>, <<PresetA, PresetAll>>, <<PresetAll, PresetA>>} }

\* The stages of Load, and the presets each job of a valid configuration
\* receives.
StageAndPresetInputs == StageInputs \cup PresetInputs

\* The presubmit pipeline, the job-base checks and the decoration defaults,
\* all asked whether Load accepts exactly the valid configurations.
PipelineInputs == PresubmitInputs \cup JobBaseInputs \cup DecorationInputs

=============================================================================
