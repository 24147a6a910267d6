-------------------------- MODULE MC_FragmentMerge --------------------------
(***************************************************************************)
(* A job-config directory in filepath.Walk order:                          *)
(*   jobs/..data/            a kubernetes volume directory                 *)
(*   jobs/..data/a.yaml                                                    *)
(*   jobs/a.yaml                                                           *)
(*   jobs/sub/               may fail to be listed                         *)
(*   jobs/sub/a.yaml         optional: shares its base name with a.yaml    *)
(*   jobs/sub/b.yml                                                        *)
(*   jobs/sub/c.txt                                                        *)
(* with fragments drawn from a pool in which two presets clash, two        *)
(* fragments define jobs of the same repository, and one does not decode;  *)
(* and a prow config with or without embedded jobs and clashing presets.   *)
(***************************************************************************)
EXTENDS FragmentMerge

MCRepos == {"o/r1", "o/r2"}
MCNames == {"n1", "n2", "n3"}
MCPairs == {"p1", "p2"}
MCPaths == {"prow.yaml", "job.yaml", "jobs/..data", "jobs/..data/a.yaml",
            "jobs/a.yaml", "jobs/sub", "jobs/sub/a.yaml", "jobs/sub/b.yml",
            "jobs/sub/c.txt"}
MCBasenames == {"..data", "a.yaml", "sub", "b.yml", "c.txt"}
MCYamlExts == {".yaml", ".yml"}

Frag(presets, pre1, post2, per) ==
  [presets |-> presets, pre |-> [r \in MCRepos |-> IF r = "o/r1" THEN pre1 ELSE <<>>],
   post |-> [r \in MCRepos |-> IF r = "o/r2" THEN post2 ELSE <<>>], per |-> per]

F0 == Frag(<<>>, <<>>, <<>>, <<>>)
F1 == Frag(<<{"p1"}>>, <<"n1">>, <<>>, <<>>)
F2 == Frag(<<{"p2"}>>, <<"n2">>, <<"n1">>, <<"n2">>)
F3 == Frag(<<{"p1", "p2"}>>, <<>>, <<>>, <<"n1">>)
FragPool == {F1, F2, F3}

PrimaryPool ==
  { F0, Frag(<<>>, <<"n3">>, <<>>, <<>>), Frag(<<{"p1"}, {"p1"}>>, <<>>, <<>>, <<>>) }

Entry(path, base, ext, isDir, dotdot, above, readErr, frag) ==
  [path |-> path, base |-> base, ext |-> ext, isDir |-> isDir, dotdot |-> dotdot,
   above |-> above, readErr |-> readErr, frag |-> frag]

Tree(fa, fb, subErr, dup) ==
  << Entry("jobs/..data", "..data", "", TRUE, TRUE, {}, FALSE, F0),
     Entry("jobs/..data/a.yaml", "a.yaml", ".yaml", FALSE, FALSE, {"jobs/..data"}, FALSE, F1),
     Entry("jobs/a.yaml", "a.yaml", ".yaml", FALSE, FALSE, {}, FALSE, fa),
     Entry("jobs/sub", "sub", "", TRUE, FALSE, {}, subErr, F0) >>
  \o (IF dup THEN << Entry("jobs/sub/a.yaml", "a.yaml", ".yaml", FALSE, FALSE,
                           {"jobs/sub"}, FALSE, F0) >> ELSE <<>>)
  \o << Entry("jobs/sub/b.yml", "b.yml", ".yml", FALSE, FALSE, {"jobs/sub"}, FALSE, fb),
        Entry("jobs/sub/c.txt", "c.txt", ".txt", FALSE, FALSE, {"jobs/sub"}, FALSE, F1) >>

Files(prowErr, prow, jobPath, file, tree) ==
  [prowErr |-> prowErr, prow |-> prow, jobPath |-> jobPath, file |-> file, tree |-> tree]

MCInputs ==
  { Files(pe, p, jp, F0, <<>>) :
      pe \in BOOLEAN, p \in PrimaryPool, jp \in {"none", "missing"} }
  \cup
  { Files(FALSE, p, "file", f, <<>>) : p \in PrimaryPool, f \in FragPool \cup {ParseError} }
  \cup
  { Files(FALSE, p, "dir", F0, Tree(fa, fb, se, d)) :
      p \in PrimaryPool, fa \in FragPool \cup {ParseError}, fb \in FragPool,
      se \in BOOLEAN, d \in BOOLEAN }

=============================================================================
