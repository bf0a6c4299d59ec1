------------------------------- MODULE InfraRules -------------------------------
(***************************************************************************)
(* `tend infra validate`: the kind of validation is given or inferred from *)
(* the target; helm and terraform are asked through their programs, which  *)
(* the context kills, and manifests are read without a context.  A target, *)
(* file or directory, may be there and still not open (readable).          *)
(* A result is an error or a set of issues <<where, rule>>, with warnings. *)
(* tool: whether the program is found, ends well (ok), was killed, and     *)
(* what it printed until then.                                             *)
(***************************************************************************)
EXTENDS PodRules

Failed == [err |-> TRUE, issues |-> {}, warnings |-> {}]
Result(issues, warnings) == [err |-> FALSE, issues |-> issues, warnings |-> warnings]

\* detectType.  A target is a path ("" and "." are the cluster) with an
\* extension, or a directory, with a Chart.yaml or without.
TypeOf(target) ==
  IF target.path \in {"", "."} THEN "helm"
  ELSE IF ~target.exists THEN "k8s"
  ELSE IF target.dir THEN IF target.chart THEN "helm" ELSE "k8s"
  ELSE IF target.ext \in {".tfplan", ".json"} THEN "terraform" ELSE "k8s"

-----------------------------------------------------------------------------
(* Terraform.                                                              *)

\* Mutant: the rule for all other resources is missing.
ChangeIssues_NoGeneric(change) ==
  LET deletes  == "delete" \in Range(change.actions)
      idle     == change.actions \in {<<>>, <<"no-op">>, <<"read">>}
      severity == IF deletes THEN "critical"
                  ELSE IF change.actions = <<"create">> THEN "medium" ELSE "high"
  IN IF idle THEN {}
     ELSE IF change.class \in {"iam", "network"} THEN {severity}
     ELSE IF deletes /\ change.class = "data" THEN {"critical"} ELSE {}

\* classifyChange: the severities of the issues of a change to a resource that
\* holds data, is about identities or the network, or none of these.
ChangeIssues(change) ==
  LET deletes  == "delete" \in Range(change.actions)
      idle     == change.actions \in {<<>>, <<"no-op">>, <<"read">>}
      severity == IF deletes THEN "critical"
                  ELSE IF change.actions = <<"create">> THEN "medium" ELSE "high"
  IN IF idle THEN {}
     ELSE IF change.class \in {"iam", "network"} THEN {severity}
     ELSE IF deletes THEN {IF change.class = "data" THEN "critical" ELSE "high"} ELSE {}

\* loadTerraformJSON and the checks of validateTerraform: a .json file is the
\* plan, for anything else the program is asked.
Terraform(target, tool) ==
  LET loaded == IF target.ext = ".json" THEN target.exists /\ ~target.dir /\ target.readable
                ELSE tool.found /\ tool.ok
      plan   == IF target.ext = ".json" THEN target.plan ELSE tool.plan
  IN IF ~loaded \/ ~plan.json \/ (plan.changes = <<>> /\ ~plan.versioned) THEN Failed
     ELSE Result(UNION {{i} \X ChangeIssues(plan.changes[i]) : i \in DOMAIN plan.changes}, {})

-----------------------------------------------------------------------------
(* Helm.                                                                   *)

Unhealthy == {"failed", "pending-install", "pending-upgrade", "pending-rollback",
              "uninstalling", "unknown"}

\* listReleases.
Releases(tool) ==
  IF ~tool.ok \/ ~tool.json THEN Failed
  ELSE Result({<<i, IF tool.releases[i] \in Unhealthy THEN "high" ELSE "low">> :
                 i \in {i \in DOMAIN tool.releases :
                          tool.releases[i] \in Unhealthy \cup {"superseded"}}}, {})

\* Mutant: a run that failed is an error only if it printed nothing.
Lint_Silent(tool) ==
  LET tag == [ERROR |-> "high", WARNING |-> "medium", INFO |-> "info"]
      tagged == {i \in DOMAIN tool.lines : tool.lines[i] \in DOMAIN tag}
  IN IF ~tool.ok /\ tool.lines = <<>> THEN Failed
     ELSE Result({<<i, tag[tool.lines[i]]>> : i \in tagged}, {})

\* lintChart: lines without a tag are passed over; a run that failed without an
\* [ERROR] line is an error.
Lint(tool) ==
  LET tag == [ERROR |-> "high", WARNING |-> "medium", INFO |-> "info"]
      tagged == {i \in DOMAIN tool.lines : tool.lines[i] \in DOMAIN tag}
  IN IF ~tool.ok /\ "ERROR" \notin Range(tool.lines) THEN Failed
     ELSE Result({<<i, tag[tool.lines[i]]>> : i \in tagged}, {})

Helm(target, tool) ==
  IF ~tool.found THEN Failed
  ELSE IF target.path \in {"", "."} THEN Releases(tool) ELSE Lint(tool)

-----------------------------------------------------------------------------
(* Manifests.                                                              *)

RuleSeverity(rule) ==
  CASE rule \in {"K8S101", "K8S102"} -> "high"
    [] rule \in {"K8S104", "K8S105"} -> "medium"
    [] rule \in {"K8S103", "K8S106"} -> "low"

\* checkInfraManifest.
FileIssues(f) ==
  {<<f.name, RuleSeverity(x[2])>> : x \in UNION {InfraFindings(m) : m \in Range(f.docs)}}

\* walkAndCheckManifests: files is what the target holds; `where` tells a
\* directory that is walked from one that is skipped or cannot be read.  A
\* target whose own name is one of skipInfraDirs is skipped as a whole.
Manifests(target) ==
  LET met == {f \in target.files : f.where = "walked" /\ f.yaml}
  IN IF ~target.exists \/ ~target.readable THEN Failed
     ELSE IF target.dir
          THEN Result(UNION {FileIssues(f) : f \in {f \in met : f.readable}},
                      {f.name : f \in {f \in met : ~f.readable}})
     ELSE Result(UNION {FileIssues(f) : f \in target.files}, {})

-----------------------------------------------------------------------------
(* The verdict.                                                            *)

SeverityRank(s) ==
  CASE s = "critical" -> 4 [] s = "high" -> 3 [] s = "medium" -> 2 [] s = "low" -> 1 [] OTHER -> 0

\* hasHigherThan: its comment and its name say higher, it means at least.
HasHigherThan(issues, threshold) ==
  \E x \in issues : SeverityRank(x[2]) >= SeverityRank(threshold)

Validation(type, target, tool) ==
  LET chosen == IF type = "" THEN TypeOf(target) ELSE type
  IN CASE chosen = "terraform" -> Terraform(target, tool)
       [] chosen = "helm" -> Helm(target, tool)
       [] chosen = "k8s" -> Manifests(target)
       [] OTHER -> Failed

Passes(r) == ~r.err /\ ~HasHigherThan(r.issues, "medium")

\* runInfraValidate.
InfraExit(r) == IF r.err THEN 1 ELSE IF Passes(r) THEN 0 ELSE 2
=============================================================================
