-------------------------------- MODULE Verdicts --------------------------------
(***************************************************************************)
(* The commands that judge what they have read by rules of their own: `log *)
(* analyze`, `security audit` of manifests and of pods, `cost scan` and    *)
(* `infra validate`.  A job is one run of one of them with its input; it   *)
(* finds, puts the findings in the order of the report, and ends with the  *)
(* exit code a script acts on.  The rules are those of the modules below.  *)
(***************************************************************************)
EXTENDS LogFindings, CostRules, InfraRules

\* The inputs.  A job is a record with the command and its own fields.
CONSTANTS LogJobs, ManifestJobs, CostJobs, InfraJobs

ASSUME VerdictsAssumption ==
  /\ \A j \in LogJobs : j.cmd = "log" /\ j.lines \in Seq(Lines) /\ j.since \in Nat /\ j.level \in STRING
  /\ \A j \in ManifestJobs : \/ j.cmd = "local" /\ j.manifest \in ManifestDocs
                             \/ j.cmd = "live" /\ j.pod \in PodSpecs
  /\ \A j \in CostJobs :
       /\ j.cmd = "cost"
       /\ LET days == PeriodEnd(j.today) - PeriodStart(j.since, j.today)
          IN days \in Nat /\ DOMAIN j.answer = 1..days
       /\ \A d \in DOMAIN j.answer : \A s \in DOMAIN j.answer[d] : j.answer[d][s] \in Int
  /\ \A j \in InfraJobs : j.cmd = "infra"

VARIABLES job, pc, found, report, exit
vars == <<job, pc, found, report, exit>>

Init ==
  /\ \/ job \in LogJobs
     \/ job \in ManifestJobs
     \/ job \in CostJobs
     \/ job \in InfraJobs
  /\ pc = "start"
  /\ found = {} /\ report = <<>> /\ exit = -1

EntriesOf(j) == Filtered(Entries(j.lines), j.since, j.level)

\* LogAnalyzer.Analyze after the lines are read.
AnalyzeLog ==
  /\ pc = "start" /\ job.cmd = "log"
  /\ found' = LogAnomalies(EntriesOf(job))
  /\ pc' = "report"
  /\ UNCHANGED <<job, report, exit>>

\* checkManifestDoc and checkPodSecurity; the list order is left out.
CheckPod ==
  /\ pc = "start" /\ job.cmd \in {"local", "live"}
  /\ found' = IF job.cmd = "local" THEN LocalFindings(job.manifest) ELSE LiveFindings(job.pod)
  /\ pc' = "end"
  /\ exit' = IF found' = {} THEN 0 ELSE 2
  /\ UNCHANGED <<job, report>>

\* AWSAnalyzer.Analyze and runCostScan; an error ends the command.
AnalyzeCost ==
  /\ pc = "start" /\ job.cmd = "cost"
  /\ LET failed == CostExit(job.provider, job.answers, job.answer) = 1
     IN /\ found' = IF failed THEN {} ELSE CostAnomalies(job.answer)
        /\ pc' = IF failed THEN "end" ELSE "report"
        /\ exit' = IF failed THEN 1 ELSE -1
  /\ UNCHANGED <<job, report>>

\* InfraValidator.Validate and runInfraValidate.
ValidateInfra ==
  /\ pc = "start" /\ job.cmd = "infra"
  /\ LET r == Validation(job.type, job.target, job.tool)
     IN found' = r.issues /\ exit' = InfraExit(r)
  /\ pc' = "end"
  /\ UNCHANGED <<job, report>>

Before(a, b) ==
  IF job.cmd = "log" THEN RankedBefore(a, b) ELSE AnomalyBefore(a, b, job.answer)

\* rankFindings, or the sorted anomalies: among equals any order may come out.
Rank ==
  /\ pc = "report" /\ found \ Range(report) # {}
  /\ \E f \in found \ Range(report) :
       /\ \A g \in found \ Range(report) : ~Before(g, f)
       /\ report' = Append(report, f)
  /\ UNCHANGED <<job, pc, found, exit>>

\* The report is printed: findings are problems.
PrintReport ==
  /\ pc = "report" /\ found = Range(report)
  /\ pc' = "end"
  /\ exit' = IF report = <<>> THEN 0 ELSE 2
  /\ UNCHANGED <<job, found, report>>

Ended == pc = "end" /\ UNCHANGED vars

Next == AnalyzeLog \/ CheckPod \/ AnalyzeCost \/ ValidateInfra \/ Rank \/ PrintReport \/ Ended

Spec == Init /\ [][Next]_vars

-----------------------------------------------------------------------------
(* Logs.                                                                   *)

Detected(cmd) == job.cmd = cmd /\ pc # "start"

\* What the pattern detector reports of messages with variable parts, the
\* cluster detector reports too, with all their relatives: the two have the
\* same threshold and the same notion of severe.
ClustersCoverPatterns ==
  Detected("log") => \A p \in found : p.kind = "pattern" /\ p.key[3] # "" =>
    \E c \in found : /\ c.kind = "cluster" /\ c.key = <<p.key[1], p.key[2]>>
                     /\ c.count >= p.count /\ c.first <= p.first /\ c.last >= p.last

\* A spike stands out: with n windows that hold an error, fewer than n / 3 are
\* spikes.  So a log whose errors fall into three windows has none, however
\* uneven they are.
SpikesAreRare ==
  Detected("log") =>
    LET errs    == Errors(EntriesOf(job))
        minutes == {errs[i].minute : i \in DOMAIN errs} \ {0}
        size    == WindowSize(Size(EntriesOf(job)))
        windows == IF minutes # {} THEN minutes ELSE {i \div size : i \in DOMAIN errs}
        spikes  == {f \in found : f.kind = "spike"}
    IN spikes # {} => 3 * Cardinality(spikes) < Cardinality(windows)

\* In the report spikes come first, and after them no finding is more severe
\* than the one above it, although the order looks at counts and the severity
\* at shares.
SeverityNeverRises ==
  Detected("log") => \A i, k \in DOMAIN report : i < k /\ report[i].kind # "spike" =>
    /\ report[k].kind # "spike"
    /\ LET n == Size(EntriesOf(job)) IN LogSeverity(report[k], n) <= LogSeverity(report[i], n)

\* --level only leaves out: the repeated messages of the report with --level
\* are those of the report without, as far as their level is high enough.
LevelOnlyHides ==
  Detected("log") =>
    LET all == Filtered(Entries(job.lines), job.since, "")
        kept(fs) == {f \in fs : job.level = "" \/ LevelRank(f.key[1]) >= LevelRank(job.level)}
    IN {f \in found : f.kind # "spike"} = kept(Patterns(all) \cup Clusters(all))

-----------------------------------------------------------------------------
(* Pods.                                                                   *)

\* Where the Kubernetes API has the pod spec of a kind that COMMANDS.md names.
Workloads == {"Pod", "Deployment", "StatefulSet", "DaemonSet", "ReplicaSet", "Job", "CronJob"}
ApiPlace(kind) ==
  CASE kind = "CronJob" -> "jobTemplate" [] kind = "Pod" -> "spec" [] OTHER -> "template"

\* The manifest of a workload that parses.
ReadManifest == Detected("local") /\ job.manifest.parses /\ job.manifest.kind \in Workloads
PodOf(m) == m.spec[ApiPlace(m.kind)]

\* A pod is judged the same in its manifest and in the cluster, apart from the
\* image tag, which only the manifest is asked for.
LiveAndLocalAgree ==
  ReadManifest => {f \in found : f[2] # "K8S008"} = LiveFindings(PodOf(job.manifest))

\* The two commands that read manifests find the same unpinned images among
\* the containers that both look at, wherever the kind has its pod spec.
ImageRulesAgree ==
  ReadManifest =>
    LET pod == PodOf(job.manifest)
        both == {i \in DOMAIN pod.containers : pod.containers[i].list = "app" /\ pod.containers[i].image # ""}
    IN \A i \in both : <<i, "K8S008">> \in found <=> <<i, "K8S104">> \in InfraFindings(job.manifest)

-----------------------------------------------------------------------------
(* Costs.                                                                  *)

\* A service is flagged only if its last day is dearer than its cheapest day of
\* the week before by more than the threshold, and must be flagged if it is
\* dearer by that and a fifth than the dearest one, unless that week was free.
AnomalyBracketed ==
  Detected("cost") /\ exit # 1 => \A s \in RecordsOf(job.answer) :
    LET costs == CostsOf(s, job.answer)
        n     == Len(costs)
        week  == {costs[d] : d \in (n - 7)..(n - 1)}
        paid  == \E d \in (n - 7)..(n - 1) : costs[d] > 0
    IN IF n < 8 THEN s \notin found
       ELSE /\ s \in found => costs[n] > Min(week) + 500
            /\ /\ paid /\ Min(week) >= 0
               /\ costs[n] > Max(week) + 500 /\ 5 * costs[n] > 6 * Max(week)
               => s \in found

-----------------------------------------------------------------------------
(* Infrastructure.                                                         *)

PlanOf(j) == IF j.target.ext = ".json" THEN j.target.plan ELSE j.tool.plan
ChosenType(j) == IF j.type = "" THEN TypeOf(j.target) ELSE j.type

\* A plan passes exactly if it deletes nothing and leaves identities and the
\* network alone.
PlanPassesIfHarmless ==
  Detected("infra") /\ ChosenType(job) = "terraform" /\ exit # 1 =>
    LET changes == Range(PlanOf(job).changes)
    IN exit = 0 <=> \A c \in changes :
         \/ c.actions \in {<<>>, <<"no-op">>, <<"read">>}
         \/ "delete" \notin Range(c.actions) /\ c.class \notin {"iam", "network"}

\* A program that was killed, or that ended badly, never yields a pass: only
\* what needs no program can pass then.
KilledNeverPasses ==
  Detected("infra") /\ exit = 0 /\ ~job.tool.ok =>
    \/ ChosenType(job) = "k8s"
    \/ ChosenType(job) = "terraform" /\ job.target.ext = ".json"
=============================================================================
