-------------------------- MODULE MCDeployExecutor --------------------------
(***************************************************************************)
(* A small instance of DeployExecutor: the plans buildPlan makes, one that *)
(* was edited until its order names a target it has lost, and files with   *)
(* and without rewrites.                                                   *)
(***************************************************************************)
EXTENDS DeployExecutor

Spa == BuildPlan("spa-plus-api", "api", TRUE)

MCPlans ==
  {Spa, BuildPlan("spa-plus-api", "api", FALSE), BuildPlan("static", "api", FALSE),
   BuildPlan("functions", "api", FALSE), [Spa EXCEPT !.targets = {"backend"}]}

MCServices == {"api"}

Docs     == [source |-> "/docs/**", to |-> Index]
CatchAll == [source |-> Any, to |-> Index]
Wired    == [source |-> Api, to |-> "api"]

MCConfigs == {NoFile, <<Docs>>, <<Wired, Docs, CatchAll>>}
=============================================================================
