------------------------------ MODULE MC_Lookups ------------------------------
(***************************************************************************)
(* Two orgs with one repository name each, so an org entry can apply to    *)
(* one identifier and not to another.  Each part of the config is varied   *)
(* over every assignment of unset and set values to its keys while the     *)
(* others stay empty.                                                      *)
(***************************************************************************)
EXTENDS Lookups

MCOrgs == {"o1", "o2"}
MCRepoNames == {"r"}
MCURLPrefixes == {"", "u1", "u2"}
MCDirs == {"d1", "d2"}
\* "\\.git$", "_output$", "vendor/.*/.*"
MCPreconfigured == <<"git", "output", "vendor">>

NoBlacklist == [repos |-> [k \in Ids |-> Nil], default |-> <<>>,
                ignorePreconfiguredDefaults |-> FALSE]
Empty == [fakeInRepoConfig |-> FALSE, enabled |-> [k \in Keys |-> Nil],
          jobURLPrefix |-> [k \in Keys |-> ""], ownersDirBlacklist |-> NoBlacklist]

MCConfigs ==
  {[Empty EXCEPT !.enabled = e] : e \in [Keys -> {Nil, TRUE, FALSE}]}
  \cup {[Empty EXCEPT !.fakeInRepoConfig = TRUE]}
  \cup {[Empty EXCEPT !.jobURLPrefix = u] : u \in [Keys -> MCURLPrefixes]}
  \cup {[Empty EXCEPT !.ownersDirBlacklist =
           [repos |-> r, default |-> d, ignorePreconfiguredDefaults |-> i]] :
          r \in [Ids -> {Nil, <<>>, <<"d1">>}], d \in {<<>>, <<"d2">>}, i \in BOOLEAN}

=============================================================================
