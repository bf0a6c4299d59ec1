---------------------------- MODULE MCCleanupScan ----------------------------
(* A production namespace with a claim, a crashing pod that mounts it and  *)
(* a service, a development namespace with an old config map, and a system *)
(* namespace with a finished pod whose claim has the same name.            *)
EXTENDS CleanupScan

Thing(kind, ns, name, idle, mounts) ==
  [kind |-> kind, ns |-> ns, name |-> name, idle |-> idle, mounts |-> mounts]

MCObjects ==
  {Thing("pod", "prod", "web", TRUE, "data"),
   Thing("service", "prod", "web", FALSE, ""),
   Thing("claim", "prod", "data", FALSE, ""),
   Thing("pod", "kube-system", "job", TRUE, "data"),
   Thing("configmap", "dev", "old", TRUE, "")}

MCNamespaces == {"dev", "kube-system", "prod"}
MCScopes == {All, "prod"}
MCSystem == {"kube-system"}

\* A deployment and a service that take turns in one namespace.
MCTurns ==
  {Thing("deployment", "prod", "web", FALSE, ""),
   Thing("service", "prod", "web", FALSE, "")}
MCOnlyProd == {"prod"}
MCAll == {All}
=============================================================================
