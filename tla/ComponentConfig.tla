-------------------------- MODULE ComponentConfig --------------------------
(***************************************************************************)
(* The controller-level part of the prow config: parseProwConfig (called   *)
(* by loadConfig) with ValidateController, and validateComponentConfig     *)
(* with SlackReporter.DefaultAndValidate (called by Load after the jobs    *)
(* are finalized).  JobConfigLoad abstracts the outcome of both into two   *)
(* error flags; this module models what decides them.                      *)
(*                                                                         *)
(* Only the settings that can make parsing fail, or that parsing computes  *)
(* from others, are kept: durations and URLs that are only defaulted are   *)
(* left out.  A template, selector, URL or regex is a value that parses or *)
(* a value that does not.  Spyglass viewers form a map from a file regex   *)
(* to a list of viewer names; a lens is its name, its required and its     *)
(* optional file regexes.                                                  *)
(***************************************************************************)
EXTENDS Integers, Sequences, SequencesExt

CONSTANTS
  Regexes,         \* file regexes of spyglass lenses and viewers
  GoodRegexes,     \* those that compile
  ViewerNames,     \* viewer and lens names
  NameRank,        \* [ViewerNames -> Nat]: the order of names as strings
  OldViewers,      \* the renaming of old viewer names (a function)
  Inputs,          \* prow configs the process may read
  MaxLoads,        \* how many times the config is parsed
  Nil

ASSUME NameRank \in [ViewerNames -> Nat] /\ IsInjective(NameRank)

VARIABLES
  input,       \* the prow config as decoded
  phase,       \* "parse", "validate" or "done"
  comp,        \* the defaulted component settings
  err,         \* "ok" or the error returned
  logLevel,    \* the process-wide logrus level
  loads,       \* how many times the config has been parsed
  lastLenses   \* the spyglass lenses of the previous successful parse

vars == <<input, phase, comp, err, logLevel, loads, lastLenses>>

Controllers == [maxConcurrency : {-1, 0, 1}, maxGoroutines : {-1, 0, 5, 20},
                templatesOK : BOOLEAN]
JobTypes == {"presubmit", "postsubmit", "periodic"}
Selectors == {"", "master=a", "=bad"}
Lenses == [name : ViewerNames, required : SUBSET Regexes, optional : SUBSET Regexes]
LogLevels == {"info", "debug"}

FirstError(results) ==
  LET i == SelectInSeq(results, LAMBDA r : r # "ok")
  IN IF i = 0 THEN "ok" ELSE results[i]

\* The first error of a loop over a sequence.
FirstErrorOver(s, Check(_)) == FirstError([i \in DOMAIN s |-> Check(s[i])])

-----------------------------------------------------------------------------
(* ValidateController                                                      *)

\* Mutant: a default out of the settings' range.
DefaultMaxGoroutines_tenfold == 200

DefaultMaxGoroutines == 20

\* Mutant: a negative max_goroutines is defaulted too.
ValidateControllerDefaults_nonPositive(c) ==
  [c EXCEPT !.maxGoroutines = IF @ <= 0 THEN DefaultMaxGoroutines ELSE @]

ValidateControllerDefaults(c) ==
  [c EXCEPT !.maxGoroutines = IF @ = 0 THEN DefaultMaxGoroutines ELSE @]

ValidateController(c) ==
  FirstError(<< IF c.templatesOK THEN "ok" ELSE "parsing template",
                IF c.maxConcurrency < 0 THEN "controller has invalid max_concurrency" ELSE "ok",
                IF ValidateControllerDefaults(c).maxGoroutines <= 0
                THEN "controller has invalid max_goroutines" ELSE "ok" >>)

-----------------------------------------------------------------------------
(* parseProwConfig, in the order of its checks                             *)

DefaultJobTypesToReport(ts) == IF ts = <<>> THEN <<"presubmit", "postsubmit">> ELSE ts

JobTypesToReportError(ts) ==
  FirstErrorOver(DefaultJobTypesToReport(ts),
                 LAMBDA t : IF t \in {"presubmit", "postsubmit"} THEN "ok"
                            ELSE "invalid job_types_to_report")

\* One jenkins operator: its controller, its selector, and the selector
\* rules that depend on how many operators there are.
JenkinsOperatorError(ops, op) ==
  FirstError(<< ValidateController(op.ctrl),
                IF op.selector = "=bad" THEN "invalid jenkins_operators.label_selector" ELSE "ok",
                IF Len(ops) > 1 /\ op.selector = "" THEN "selector overlap" ELSE "ok",
                IF Len(ops) = 1 /\ ops[1].selector # "" THEN "label_selector is invalid for a single jenkins-operator" ELSE "ok" >>)

DefaultSizeLimit == 100000000

SizeLimitError(s) == IF s # 0 /\ s <= 0 THEN "invalid value for deck.spyglass.size_limit" ELSE "ok"

\* The lenses the old viewers map is migrated to: one lens per viewer of
\* every regex, requiring that regex.  The map is ranged over in an order
\* Go randomises, and sort.Slice orders the result by name only, so any
\* arrangement sorted by name may come out.
ViewerEntries(viewers) ==
  UNION {{<<re, i>> : i \in DOMAIN viewers[re]} : re \in DOMAIN viewers}
ViewerLens(viewers, e) ==
  [name |-> viewers[e[1]][e[2]], required |-> {e[1]}, optional |-> {}]
MigratedLensOrders(viewers) ==
  LET es == ViewerEntries(viewers)
      n  == Cardinality(es)
      rank(e) == NameRank[viewers[e[1]][e[2]]]
  IN { [k \in 1..n |-> ViewerLens(viewers, s[k])] :
         s \in { f \in [1..n -> es] : IsInjective(f) /\
                   \A k \in 1..n - 1 : rank(f[k]) <= rank(f[k + 1]) } }

\* RegexCache: every required and optional file regex of every lens.
RegexCache(lenses) == UNION {l.required \cup l.optional : l \in Range(lenses)}

RegexCacheError(lenses) ==
  IF RegexCache(lenses) \subseteq GoodRegexes THEN "ok" ELSE "cannot compile regexp"

\* Old viewer names are mapped to the new ones, in the viewers map only.
RenameViewers(viewers) ==
  [re \in DOMAIN viewers |->
     [i \in DOMAIN viewers[re] |->
        IF viewers[re][i] \in DOMAIN OldViewers THEN OldViewers[viewers[re][i]]
        ELSE viewers[re][i]]]

LogLevelOf(level) == IF level = "" THEN "info" ELSE level

\* logrus.ParseLevel of the defaulted level.
LogLevelError(level) ==
  IF LogLevelOf(level) \in LogLevels THEN "ok" ELSE "not a valid logrus Level"

\* url.Parse of github.link_url, defaulted to https://github.com.
LinkURLError(in) == IF in.linkURLOK THEN "ok" ELSE "unable to parse github.link_url"

-----------------------------------------------------------------------------
(* SlackReporter.DefaultAndValidate                                        *)

DefaultReportTemplate == "default"

SlackReporterDefaults(s) ==
  [s EXCEPT !.template = IF @ = "" THEN DefaultReportTemplate ELSE @]

SlackReporterError(s) ==
  LET t == SlackReporterDefaults(s).template
  IN FirstError(<< IF s.channel THEN "ok" ELSE "channel must be set",
                   IF t = "unparsable" THEN "failed to parse template" ELSE "ok",
                   IF t = "unexecutable" THEN "failed to execute report_template" ELSE "ok" >>)

-----------------------------------------------------------------------------
(* Actions                                                                 *)

Init ==
  /\ input \in Inputs
  /\ phase = "parse"
  /\ comp = Nil
  /\ err = "ok"
  /\ logLevel = "info"
  /\ loads = 1
  /\ lastLenses = Nil

Fail(e) == err' = e /\ phase' = "done"

\* parseProwConfig: every check in the code's order, the defaults it
\* stores, the viewers-to-lenses migration, the regex cache, the renaming
\* of old viewer names and, last, the process-wide log level.
parseProwConfig ==
  /\ phase = "parse"
  /\ \E old \in MigratedLensOrders(input.viewers) :
       LET lenses == input.lenses \o old
           e == FirstError(<<
                  ValidateController(input.plank),
                  JobTypesToReportError(input.jobTypes),
                  FirstErrorOver(input.jenkins, LAMBDA op : JenkinsOperatorError(input.jenkins, op)),
                  IF input.agentLogsOK THEN "ok" ELSE "parsing template for agent",
                  SizeLimitError(input.sizeLimit),
                  IF input.rerunAuth = "ambiguous" THEN "allow_anyone is set to true and authorized users or teams are specified" ELSE "ok",
                  RegexCacheError(lenses),
                  LinkURLError(input),
                  LogLevelError(input.logLevel) >>)
       IN IF e # "ok"
          THEN Fail(e) /\ UNCHANGED <<comp, logLevel>>
          ELSE /\ comp' = [plank |-> ValidateControllerDefaults(input.plank),
                           jenkins |-> [i \in DOMAIN input.jenkins |->
                                          [input.jenkins[i] EXCEPT !.ctrl = ValidateControllerDefaults(@)]],
                           jobTypes |-> DefaultJobTypesToReport(input.jobTypes),
                           sizeLimit |-> IF input.sizeLimit = 0 THEN DefaultSizeLimit ELSE input.sizeLimit,
                           lenses |-> lenses,
                           cache |-> RegexCache(lenses),
                           viewers |-> RenameViewers(input.viewers),
                           slack |-> input.slack]
               /\ logLevel' = LogLevelOf(input.logLevel)
               /\ phase' = "validate"
               /\ UNCHANGED err
  /\ UNCHANGED <<input, loads, lastLenses>>

\* validateComponentConfig: the job URL prefixes parse, and a slack
\* reporter, if configured, is defaulted and validated.
validateComponentConfig ==
  /\ phase = "validate"
  /\ LET e == FirstError(<<
                IF input.urlPrefixOK THEN "ok" ELSE "Invalid value for Planks job_url_prefix_config",
                IF input.slack = Nil THEN "ok" ELSE SlackReporterError(input.slack) >>)
     IN IF e # "ok"
        THEN Fail(e) /\ UNCHANGED comp
        ELSE /\ comp' = [comp EXCEPT !.slack = IF @ = Nil THEN Nil ELSE SlackReporterDefaults(@)]
             /\ phase' = "done"
             /\ UNCHANGED err
  /\ UNCHANGED <<input, logLevel, loads, lastLenses>>

\* The process reads the same prow config again.
Reload ==
  /\ phase = "done"
  /\ loads < MaxLoads
  /\ loads' = loads + 1
  /\ lastLenses' = IF err = "ok" THEN comp.lenses ELSE lastLenses
  /\ phase' = "parse"
  /\ err' = "ok"
  /\ comp' = Nil
  /\ UNCHANGED <<input, logLevel>>

Next == parseProwConfig \/ validateComponentConfig \/ Reload

Spec == Init /\ [][Next]_vars /\ WF_vars(Next)

-----------------------------------------------------------------------------
(* Properties                                                              *)

Succeeded == phase = "done" /\ err = "ok"

TypeOK ==
  /\ phase \in {"parse", "validate", "done"}
  /\ loads \in 1..MaxLoads
  /\ logLevel \in LogLevels
  /\ comp = Nil \/
       /\ comp.plank \in Controllers
       /\ \A i \in DOMAIN comp.jenkins : comp.jenkins[i].ctrl \in Controllers
       /\ comp.jobTypes \in Seq(JobTypes)
       /\ comp.lenses \in Seq(Lenses)
       /\ comp.cache \subseteq Regexes
  /\ lastLenses = Nil \/ lastLenses \in Seq(Lenses)

\* The rules the checks of parseProwConfig, ValidateController and
\* validateComponentConfig stand for, stated on the config as written: a
\* max_goroutines of 0 means the default, an empty job-type list means
\* presubmit and postsubmit, a size limit of 0 means the default, and
\* every regex a lens will use -- including those of viewers that are
\* migrated to lenses -- must compile.
ControllerValid(c) == c.templatesOK /\ c.maxConcurrency >= 0 /\ c.maxGoroutines >= 0
JenkinsValid(ops) ==
  \A i \in DOMAIN ops :
    /\ ControllerValid(ops[i].ctrl)
    /\ ops[i].selector # "=bad"
    /\ Len(ops) > 1 => ops[i].selector # ""
    /\ Len(ops) = 1 => ops[i].selector = ""
ComponentValid(in) ==
  /\ ControllerValid(in.plank)
  /\ Range(in.jobTypes) \subseteq {"presubmit", "postsubmit"}
  /\ JenkinsValid(in.jenkins)
  /\ in.agentLogsOK /\ in.linkURLOK /\ in.urlPrefixOK
  /\ in.sizeLimit >= 0
  /\ in.rerunAuth # "ambiguous"
  /\ \A l \in Range(in.lenses) : l.required \cup l.optional \subseteq GoodRegexes
  /\ {re \in DOMAIN in.viewers : in.viewers[re] # <<>>} \subseteq GoodRegexes
  /\ in.logLevel \in {""} \cup LogLevels
  /\ in.slack = Nil \/ (in.slack.channel /\ in.slack.template \notin {"unparsable", "unexecutable"})

\* Parsing and validating the component config succeeds exactly when the
\* config as written satisfies those rules, whatever order the viewers
\* map is migrated in.
OutcomeMatchesRules == phase = "done" => (err = "ok" <=> ComponentValid(input))

\* The comment at the migration: the ordering of lenses is stable, because
\* lenses are referenced by index elsewhere -- so parsing the same config
\* again yields the same lens sequence.
LensOrderDeterministic ==
  Succeeded /\ lastLenses # Nil => comp.lenses = lastLenses

\* Old viewer names are mapped to the new ones for backwards compatibility:
\* no lens of a parsed config carries an old viewer name.
LensNamesCurrent ==
  Succeeded => \A l \in Range(comp.lenses) : l.name \notin DOMAIN OldViewers

====
