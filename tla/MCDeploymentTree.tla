-------------------------- MODULE MCDeploymentTree --------------------------
(***************************************************************************)
(* Small instances of DeploymentTree.                                      *)
(***************************************************************************)
EXTENDS DeploymentTree, TLC

\* 1 is a service in the environment 2; 3 is an environment by itself.
MCLabels == (1 :> {2}) @@ (2 :> {EnvLabel}) @@ (3 :> {EnvLabel})

MCLabelSets == {{}, {3}, {1}, {EnvLabel, 3}, {2, 3}}

\* One the other way round than the labels, and one of a deployment on itself.
MCDependencies == {<<2, 1>>, <<3, 3>>}

Symmetry == Permutations(Handler)
=============================================================================
