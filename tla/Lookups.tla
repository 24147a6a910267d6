------------------------------ MODULE Lookups ------------------------------
(***************************************************************************)
(* The per-repository lookups of a loaded Config: InRepoConfigEnabled,     *)
(* Plank.GetJobURLPrefix and OwnersDirBlacklist.DirBlacklist.  A config    *)
(* is loaded, then queried any number of times; each query records its    *)
(* answer.                                                                 *)
(*                                                                         *)
(* A map key "org", "org/repo" or "*" is the sequence of its "/"-separated *)
(* segments, so strings.Split is the identity on keys and "org/repo" is    *)
(* <<org, repo>>.  A map value that is absent or a nil pointer is Nil; an  *)
(* absent string is "".                                                    *)
(***************************************************************************)
EXTENDS Sequences, SequencesExt

CONSTANTS
  Orgs, RepoNames,  \* segments of identifiers
  URLPrefixes,      \* job URL prefixes; "" is the empty string
  Dirs,             \* blacklist regexes written in the config
  Preconfigured,    \* the sequence of preconfiguredDefaults
  Configs,          \* loaded configs
  Nil

VARIABLES config, answer

vars == <<config, answer>>

Wildcard == <<"*">>
Ids == {<<o>> : o \in Orgs} \cup {<<o, r>> : o \in Orgs, r \in RepoNames}
Keys == Ids \cup {Wildcard}

\* Mutant: the pointer of the identifier's entry is dereferenced unchecked.
InRepoConfigEnabled_unchecked(c, identifier) ==
  IF c.fakeInRepoConfig THEN TRUE ELSE c.enabled[identifier]

\* InRepoConfigEnabled: a fake in-repo config (tests) enables everything;
\* otherwise the identifier's own entry, then its org's (for "org/repo"
\* identifiers only), then "*", else false.  Its doc comment calls it "a
\* no-op that always returns false"; the code does not, and neither does
\* this definition.  LookupsFollowPrecedence checks the code's behaviour.
InRepoConfigEnabled(c, identifier) ==
  CASE c.fakeInRepoConfig -> TRUE
    [] c.enabled[identifier] # Nil -> c.enabled[identifier]
    [] Len(identifier) = 2 /\ c.enabled[<<identifier[1]>>] # Nil -> c.enabled[<<identifier[1]>>]
    [] c.enabled[Wildcard] # Nil -> c.enabled[Wildcard]
    [] OTHER -> FALSE

\* Mutant: the org entry is consulted before the repository's.
GetJobURLPrefix_orgFirst(c, refs) ==
  CASE refs = Nil -> c.jobURLPrefix[Wildcard]
    [] c.jobURLPrefix[<<refs.org>>] # "" -> c.jobURLPrefix[<<refs.org>>]
    [] c.jobURLPrefix[<<refs.org, refs.repo>>] # "" -> c.jobURLPrefix[<<refs.org, refs.repo>>]
    [] OTHER -> c.jobURLPrefix[Wildcard]

\* GetJobURLPrefix: no refs means "*"; an empty value falls through.
GetJobURLPrefix(c, refs) ==
  CASE refs = Nil -> c.jobURLPrefix[Wildcard]
    [] c.jobURLPrefix[<<refs.org, refs.repo>>] # "" -> c.jobURLPrefix[<<refs.org, refs.repo>>]
    [] c.jobURLPrefix[<<refs.org>>] # "" -> c.jobURLPrefix[<<refs.org>>]
    [] OTHER -> c.jobURLPrefix[Wildcard]

\* DirBlacklist: the default list, the org's, the repository's, then the
\* preconfigured defaults unless they are ignored.
DirBlacklist(b, org, repo) ==
  LET listOf(k) == IF b.repos[k] = Nil THEN <<>> ELSE b.repos[k]
  IN b.default \o listOf(<<org>>) \o listOf(<<org, repo>>)
       \o (IF b.ignorePreconfiguredDefaults THEN <<>> ELSE Preconfigured)

Init == config \in Configs /\ answer = Nil

QueryInRepoConfig ==
  \E id \in Ids :
    answer' = [query |-> "inrepo", id |-> id, result |-> InRepoConfigEnabled(config, id)]

QueryJobURLPrefix ==
  \E refs \in {Nil} \cup [org : Orgs, repo : RepoNames] :
    answer' = [query |-> "urlprefix", id |-> refs, result |-> GetJobURLPrefix(config, refs)]

QueryDirBlacklist ==
  \E o \in Orgs, r \in RepoNames :
    answer' = [query |-> "blacklist", id |-> <<o, r>>,
               result |-> DirBlacklist(config.ownersDirBlacklist, o, r)]

Next == (QueryInRepoConfig \/ QueryJobURLPrefix \/ QueryDirBlacklist) /\ UNCHANGED config

Spec == Init /\ [][Next]_vars

-----------------------------------------------------------------------------
(* Properties                                                              *)

TypeOK ==
  answer = Nil \/
    CASE answer.query = "inrepo" -> answer.result \in BOOLEAN
      [] answer.query = "urlprefix" -> answer.result \in URLPrefixes
      [] answer.query = "blacklist" -> answer.result \in Seq(Dirs \cup Range(Preconfigured))

\* The keys that apply to an identifier, most specific first, as the
\* comments on InRepoConfig and JobURLPrefixConfig describe them.
Scope(id) == IF Len(id) = 2 THEN <<id, <<id[1]>>, Wildcard>> ELSE <<id, Wildcard>>

\* The value of the most specific key that is set, else dflt.
Narrowest(f, scope, unset, dflt) ==
  LET i == SelectInSeq(scope, LAMBDA k : f[k] # unset)
  IN IF i = 0 THEN dflt ELSE f[scope[i]]

\* Every answer follows "the narrowest match always takes precedence"
\* (the comments on the InRepoConfig and JobURLPrefixConfig types).  For
\* InRepoConfigEnabled this contradicts the doc comment on the function,
\* which says it always returns false: the states it reaches include a true
\* answer without a fake in-repo config.  An explicit false for a
\* repository wins over true for its org, a
\* repository's URL prefix over its org's, and a blacklist keeps every
\* entry of every level, broadest first, with the preconfigured ones last.
LookupsFollowPrecedence ==
  answer # Nil =>
    CASE answer.query = "inrepo" ->
           config.fakeInRepoConfig \/
           answer.result = Narrowest(config.enabled, Scope(answer.id), Nil, FALSE)
      [] answer.query = "urlprefix" ->
           answer.result =
             IF answer.id = Nil THEN config.jobURLPrefix[Wildcard]
             ELSE Narrowest(config.jobURLPrefix,
                            Scope(<<answer.id.org, answer.id.repo>>), "", "")
      [] answer.query = "blacklist" ->
           LET b == config.ownersDirBlacklist
               levels == SelectSeq(Reverse(Scope(answer.id)),
                                   LAMBDA k : k # Wildcard /\ b.repos[k] # Nil)
           IN answer.result =
                FoldLeft(LAMBDA acc, k : acc \o b.repos[k], b.default, levels)
                \o (IF b.ignorePreconfiguredDefaults THEN <<>> ELSE Preconfigured)

====
