------------------------- MODULE MC_ComponentConfig -------------------------
(***************************************************************************)
(* Prow configs that differ from a valid one in one group of settings at a *)
(* time: the controllers (plank, job types, jenkins operators), the deck   *)
(* settings (spyglass viewers and lenses, size limit, rerun auth, log      *)
(* level), and the remaining flags with the slack reporter.                *)
(***************************************************************************)
EXTENDS ComponentConfig

MCRegexes == {"re1", "re2", "bad"}
MCGoodRegexes == {"re1", "re2"}
MCViewerNames == {"build-log-viewer", "buildlog", "junit"}
\* The order of the names as Go strings: '-' sorts before 'l'.
MCNameRank == [n \in MCViewerNames |->
                 CASE n = "build-log-viewer" -> 1 [] n = "buildlog" -> 2 [] n = "junit" -> 3]
\* One entry of the code's oldViewers table.
MCOldViewers == [n \in {"build-log-viewer"} |-> "buildlog"]

Ctrl(conc, gor, tmpl) == [maxConcurrency |-> conc, maxGoroutines |-> gor, templatesOK |-> tmpl]
GoodCtrl == Ctrl(0, 0, TRUE)
Lens(n, req, opt) == [name |-> n, required |-> req, optional |-> opt]

Base ==
  [plank |-> GoodCtrl, jobTypes |-> <<>>, jenkins |-> <<>>,
   agentLogsOK |-> TRUE, sizeLimit |-> 0, rerunAuth |-> "none",
   viewers |-> <<>>, lenses |-> <<>>, linkURLOK |-> TRUE, logLevel |-> "",
   urlPrefixOK |-> TRUE, slack |-> Nil]

\* Jenkins operators: up to two, from a controller and a selector.
Operators == {[ctrl |-> c, selector |-> s] :
                c \in {GoodCtrl, Ctrl(-1, 0, TRUE)}, s \in Selectors}
OperatorLists == {<<>>} \cup {<<o>> : o \in Operators} \cup {<<o, p>> : o, p \in Operators}

ControllerInputs ==
  {[Base EXCEPT !.plank = c, !.jobTypes = t, !.jenkins = j] :
     c \in {Ctrl(x, y, z) : x \in {-1, 0}, y \in {-1, 0, 5}, z \in BOOLEAN},
     t \in {<<>>, <<"postsubmit">>, <<"presubmit", "periodic">>},
     j \in OperatorLists}

\* Viewers: a regex to a list of viewer names.
ViewerPool ==
  { <<>>,
    [re \in {"re1"} |-> <<"junit">>],
    [re \in {"re1", "re2"} |-> IF re = "re1" THEN <<"junit", "buildlog">> ELSE <<"junit">>],
    [re \in {"re1", "bad"} |-> IF re = "re1" THEN <<"build-log-viewer">> ELSE <<>>],
    [re \in {"bad"} |-> <<"junit">>] }
LensPool == { <<>>, <<Lens("junit", {"re2"}, {})>>, <<Lens("buildlog", {}, {"bad"})>> }

DeckInputs ==
  {[Base EXCEPT !.viewers = v, !.lenses = l, !.sizeLimit = s, !.rerunAuth = a, !.logLevel = g] :
     v \in ViewerPool, l \in LensPool, s \in {-1, 0, 5},
     a \in {"none", "ambiguous"}, g \in {"", "debug", "verbose"}}

SlackPool == {Nil} \cup [channel : BOOLEAN, template : {"", "ok", "unparsable", "unexecutable"}]

OtherInputs ==
  {[Base EXCEPT !.agentLogsOK = x, !.linkURLOK = y, !.urlPrefixOK = z, !.slack = k] :
     x, y, z \in BOOLEAN, k \in SlackPool}

MCInputs == ControllerInputs \cup DeckInputs \cup OtherInputs

\* Configs whose viewers are migrated: two regexes sharing a lens name,
\* and an old viewer name.
LensOrderInputs == {[Base EXCEPT !.viewers = v] : v \in ViewerPool}

=============================================================================
