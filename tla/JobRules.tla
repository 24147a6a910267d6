------------------------------ MODULE JobRules ------------------------------
(***************************************************************************)
(* What spec.md says a resolved configuration is, written over the job     *)
(* records of ProwJobs without the code's order of checks: the default     *)
(* cascade (4.2), the decoration default resolver (4.3), and the rules of  *)
(* the invariant set (section 3, 4.5, 4.6).  A constant-level module: both *)
(* the model of Load and its abstract specification use it.                *)
(***************************************************************************)
EXTENDS ProwJobs

DCValid(d) == d # Nil /\ \A f \in DCFields : d[f] # Unset

\* Agent, spec, decoration and namespace compatibility (4.6); unknown
\* agents are let through.
SpecAgentRules(j) ==
  LET K == KubernetesAgent  B == KnativeBuildAgent  P == TektonAgent
  IN j.agent \in KnownAgents =>
       /\ (j.spec # "none") = (j.agent = K)
       /\ j.dc # Nil => j.agent \in {K, B}
       /\ j.eviction => j.agent = K
       /\ j.ns # PodNamespace => j.agent \in {B, P}

SpecJobRules(j) ==
  /\ j.name \in ValidNames
  /\ j.maxConc >= 0
  /\ j.labelsOK
  /\ j.spec \in {"none", "ok", "nocmd"}
  /\ SpecAgentRules(j)

\* The rules on what a job's container wraps: rerun authorisation is not
\* ambiguous, a decoration config validates and has a command to wrap.
SpecWrapRules(j) ==
  /\ j.rerunAuth # "ambiguous"
  /\ j.dc # Nil => DCValid(j.dc) /\ j.spec # "nocmd"

SpecPresubmitRules(j) ==
  /\ ~(j.alwaysRun /\ j.runIfChanged # Unset)
  /\ j.skipReport \/ j.context # Unset
  /\ (j.trigger = Unset) = (j.rerun = Unset)
  /\ j.trigger # BadPattern /\ TriggerMatches(j.trigger, j.rerun)
  /\ BadPattern \notin j.branches \cup j.skip /\ j.runIfChanged # BadPattern

SpecPostsubmitRules(j) ==
  BadPattern \notin j.branches \cup j.skip /\ j.runIfChanged # BadPattern

\* No two jobs of one name in one repository run on a common branch.
NoIntersectingDuplicates(js) ==
  \A i, k \in DOMAIN js : i < k /\ js[i].name = js[k].name => ~Intersects(js[i], js[k])

SpecPeriodicRules(per) ==
  /\ \A i, k \in DOMAIN per : i < k => per[i].name # per[k].name
  /\ \A i \in DOMAIN per : (per[i].cron = Unset) # (per[i].interval = Unset)
                           /\ per[i].interval # "bad"

AllJobs(pre, post, per) ==
  UNION {Range(pre[r]) \cup Range(post[r]) : r \in Repos} \cup Range(per)

\* A resolved configuration satisfies the invariant set; the wrap rules
\* are asked of the jobs that have a container (SpecLessJobsValidated asks
\* them of the others).
SnapshotValid(pre, post, per, defaults) ==
  /\ \A j \in AllJobs(pre, post, per) :
       SpecJobRules(j) /\ (j.spec # "none" => SpecWrapRules(j))
  /\ \A r \in Repos :
       /\ \A i \in DOMAIN pre[r] : SpecPresubmitRules(pre[r][i])
       /\ \A i \in DOMAIN post[r] : SpecPostsubmitRules(post[r][i])
       /\ NoIntersectingDuplicates(pre[r])
       /\ NoIntersectingDuplicates(post[r])
  /\ SpecPeriodicRules(per)
  /\ decorationRequested(pre, post, per) =>
       "*" \in DOMAIN defaults /\ DCValid(defaults["*"])

\* 4.3: the default for a repository is its org/repo entry, else its org
\* entry, else '*'; a field set on the job wins, else the located default's,
\* else the wildcard's.
SpecWildcard(in) == IF in.old # Nil THEN in.old ELSE Lookup(in.ddc, "*")
SpecDefaults(in) == IF in.old # Nil THEN ("*" :> in.old) ELSE in.ddc

SpecEffectiveDecoration(in, j, repo) ==
  LET defs == SpecDefaults(in)
      located == IF repo \in DOMAIN defs THEN defs[repo]
                 ELSE IF OrgOf(repo) \in DOMAIN defs THEN defs[OrgOf(repo)]
                 ELSE Nil
      chain == <<j.dc, located, SpecWildcard(in)>>
      FieldOf(f) == LET k == SelectInSeq(chain, LAMBDA d : d # Nil /\ d[f] # Unset)
                    IN IF k = 0 THEN Unset ELSE chain[k][f]
  IN IF ~j.decorate \/ \A k \in 1..3 : chain[k] = Nil THEN j.dc
     ELSE [f \in DCFields |-> FieldOf(f)]

\* 4.4: the presets whose every label pair the job carries, in order, add
\* their environment to the job's container and their volumes to its pod,
\* each volume name once: the first of the names the pod does not have.
SpecPresetsFor(j, presets) == SelectSeq(presets, LAMBDA p : p.labels \subseteq j.labels)
SpecInjected(j, presets) ==
  LET ms == SpecPresetsFor(j, presets)
      added == FlattenSeq([i \in DOMAIN ms |-> ms[i].vols])
      New(k) == added[k] \notin Range(j.vols) /\ \A m \in 1..k - 1 : added[m] # added[k]
      ks == SelectSeq([k \in DOMAIN added |-> k], New)
  IN IF j.spec = "none" THEN j
     ELSE [j EXCEPT !.env  = @ \o FlattenSeq([i \in DOMAIN ms |-> ms[i].env]),
                    !.vols = @ \o [i \in DOMAIN ks |-> added[ks[i]]]]

\* 4.2, the default cascade: the agent defaults to kubernetes, the
\* namespace to the pod namespace, a presubmit's or postsubmit's context
\* to its name, and a presubmit with neither trigger nor rerun command gets
\* "/test <name>" for both.
SpecTestCommand(name) == [cmd |-> "test", name |-> name]
SpecCascade(j, repo, in) ==
  [f \in DOMAIN j |->
     CASE f = "agent" /\ j.agent = "" -> KubernetesAgent
       [] f = "ns" /\ j.ns = Unset -> PodNamespace
       [] f = "context" /\ j.context = Unset -> j.name
       [] f \in {"trigger", "rerun"} /\ j.trigger = Unset /\ j.rerun = Unset ->
            SpecTestCommand(j.name)
       [] f = "dc" -> SpecEffectiveDecoration(in, j, repo)
       [] f \in {"env", "vols"} -> SpecInjected(j, in.presets)[f]
       [] OTHER -> j[f]]

\* The configuration the spec resolves the files to.
SpecResolve(in) ==
  [pre  |-> [r \in Repos |-> [i \in DOMAIN in.pre[r] |-> SpecCascade(in.pre[r][i], r, in)]],
   post |-> [r \in Repos |-> [i \in DOMAIN in.post[r] |-> SpecCascade(in.post[r][i], r, in)]],
   per  |-> [i \in DOMAIN in.per |-> SpecCascade(in.per[i], in.per[i].extraRef, in)]]

\* The files describe a configuration the spec accepts.
SpecAcceptable(in) ==
  LET res == SpecResolve(in)
  IN /\ ~in.prowErr /\ ~in.jobErr /\ ~in.componentErr
     /\ decorationRequested(in.pre, in.post, in.per) =>
          ~(in.old # Nil /\ DOMAIN in.ddc # {})
     /\ SnapshotValid(res.pre, res.post, res.per, SpecDefaults(in))


====
