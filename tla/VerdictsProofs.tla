----------------------------- MODULE VerdictsProofs -----------------------------
(***************************************************************************)
(* Proofs about the rules by which the commands judge: for logs of any     *)
(* length, pods with any number of containers, plans with any changes,     *)
(* charts with any output and any costs.                                   *)
(***************************************************************************)
EXTENDS Verdicts, FiniteSetTheorems, SequenceTheorems, TLAPS

Jobs == LogJobs \cup ManifestJobs \cup CostJobs \cup InfraJobs

\* What a command has found is what its rules say of the input, and the exit
\* code of `infra validate` is that of the result.
FoundInv ==
  pc # "start" =>
    /\ job.cmd = "log" => found = LogAnomalies(EntriesOf(job))
    /\ job.cmd = "local" => found = LocalFindings(job.manifest)
    /\ job.cmd = "cost" => found = CostAnomalies(job.answer) \/ exit = 1
    /\ job.cmd = "infra" => exit = InfraExit(Validation(job.type, job.target, job.tool))

\* The report so far: nothing stands above what ought to come first, nor will
\* anything that is still to come.
ReportInv ==
  /\ report \in Seq(found)
  /\ job.cmd = "log" =>
       /\ \A i, k \in DOMAIN report : i < k => ~RankedBefore(report[k], report[i])
       /\ \A i \in DOMAIN report : \A g \in found \ Range(report) : ~RankedBefore(g, report[i])

IInv ==
  /\ job \in Jobs /\ pc \in {"start", "report", "end"}
  /\ pc = "start" => report = <<>>
  /\ pc # "end" => exit = -1
  /\ pc = "report" => job.cmd \in {"log", "cost"}
  /\ FoundInv /\ ReportInv

-----------------------------------------------------------------------------
(* The invariant.                                                          *)

\* A job of a command is one of the jobs given for it.
LEMMA JobOfCommand ==
  ASSUME job \in Jobs
  PROVE  /\ job.cmd = "log" => job \in LogJobs
         /\ job.cmd = "local" => job.manifest \in ManifestDocs
         /\ job.cmd = "cost" => job \in CostJobs
         /\ job.cmd \in {"log", "local", "live", "cost", "infra"}
  BY VerdictsAssumption DEF Jobs

\* An empty list shows nothing.
LEMMA NothingShown == <<>> \in Seq(found) /\ Range(<<>>) = {} /\ DOMAIN <<>> = {}
  BY DEF Range

\* A command starts with nothing found.
LEMMA InitInv == Init => IInv
  BY NothingShown DEF Init, IInv, Jobs, FoundInv, ReportInv

\* The first step of a command finds what there is to find.
LEMMA FindStep ==
  ASSUME IInv, AnalyzeLog \/ CheckPod \/ AnalyzeCost \/ ValidateInfra
  PROVE  IInv'
<1>1. /\ job' = job /\ report' = report /\ report = <<>> /\ pc' \in {"report", "end"}
      /\ pc' = "report" => job.cmd \in {"log", "cost"} /\ exit' = -1
  BY DEF IInv, AnalyzeLog, CheckPod, AnalyzeCost, ValidateInfra
<1>2. FoundInv'
  <2>1. CASE AnalyzeLog
    BY <2>1 DEF AnalyzeLog, FoundInv, EntriesOf
  <2>2. CASE CheckPod
    BY <2>2 DEF CheckPod, FoundInv
  <2>3. CASE AnalyzeCost
    BY <2>3 DEF AnalyzeCost, FoundInv
  <2>4. CASE ValidateInfra
    BY <2>4 DEF ValidateInfra, FoundInv
  <2> QED
    BY <2>1, <2>2, <2>3, <2>4
<1>3. ReportInv'
  BY <1>1, NothingShown DEF ReportInv
<1> QED
  BY <1>1, <1>2, <1>3 DEF IInv

\* What is put into the report comes before nothing that is in it, and nothing
\* that is left comes before it.
LEMMA RankStep ==
  ASSUME IInv, Rank
  PROVE  IInv'
<1> DEFINE left == found \ Range(report)
<1>1. PICK f \in left : /\ \A g \in left : ~Before(g, f)
                        /\ report' = Append(report, f)
  BY DEF Rank
<1>2. UNCHANGED <<job, pc, found, exit>> /\ pc = "report"
  BY DEF Rank
<1>3. report \in Seq(found) /\ f \in found
  BY <1>1 DEF IInv, ReportInv
<1>4. /\ report' \in Seq(found)
      /\ DOMAIN report' = 1..(Len(report) + 1) /\ DOMAIN report = 1..Len(report) /\ Len(report) \in Nat
      /\ \A i \in 1..Len(report) : report'[i] = report[i]
      /\ report'[Len(report) + 1] = f
  BY <1>1, <1>3
<1>5. Range(report') = Range(report) \cup {f}
  BY <1>4 DEF Range
<1>6. ASSUME job.cmd = "log"
      PROVE  /\ \A i, k \in DOMAIN report' : i < k => ~RankedBefore(report'[k], report'[i])
             /\ \A i \in DOMAIN report' : \A g \in found \ Range(report') : ~RankedBefore(g, report'[i])
  <2>1. \A g \in left : ~RankedBefore(g, f)
    BY <1>1, <1>6 DEF Before
  <2>2. \A i \in DOMAIN report : \A g \in left : ~RankedBefore(g, report[i])
    BY <1>6 DEF IInv, ReportInv
  <2>3. \A i, k \in DOMAIN report : i < k => ~RankedBefore(report[k], report[i])
    BY <1>6 DEF IInv, ReportInv
  <2>4. f \in left /\ \A g \in found \ Range(report') : g \in left
    BY <1>1, <1>5
  <2> HIDE DEF left
  <2> QED
    BY <1>4, <2>1, <2>2, <2>3, <2>4
<1>7. ReportInv'
  BY <1>2, <1>4, <1>6 DEF ReportInv
<1>8. FoundInv'
  BY <1>2 DEF IInv, FoundInv, EntriesOf
<1> QED
  BY <1>2, <1>7, <1>8 DEF IInv

\* Every step keeps the invariant.
LEMMA StepInv ==
  ASSUME IInv, [Next]_vars
  PROVE  IInv'
<1>1. CASE AnalyzeLog \/ CheckPod \/ AnalyzeCost \/ ValidateInfra
  BY <1>1, FindStep
<1>2. CASE Rank
  BY <1>2, RankStep
<1>3. CASE PrintReport
  <2>1. UNCHANGED <<job, found, report>> /\ pc = "report" /\ pc' = "end"
    BY <1>3 DEF PrintReport
  <2>2. FoundInv'
    BY <2>1 DEF IInv, FoundInv, EntriesOf
  <2>3. ReportInv'
    BY <2>1 DEF IInv, ReportInv
  <2> QED
    BY <2>1, <2>2, <2>3 DEF IInv
<1>4. CASE UNCHANGED vars
  BY <1>4 DEF IInv, FoundInv, ReportInv, EntriesOf, vars
<1> QED
  BY <1>1, <1>2, <1>3, <1>4 DEF Next, Ended

\* It holds throughout.
LEMMA Invariance == Spec => []IInv
  BY InitInv, StepInv, PTL DEF Spec

-----------------------------------------------------------------------------
(* Infrastructure.                                                         *)

Harmless(c) ==
  \/ c.actions \in {<<>>, <<"no-op">>, <<"read">>}
  \/ "delete" \notin Range(c.actions) /\ c.class \notin {"iam", "network"}

\* The ranks around the threshold.
LEMMA Ranks ==
  /\ SeverityRank("critical") = 4 /\ SeverityRank("high") = 3 /\ SeverityRank("medium") = 2
  BY DEF SeverityRank

\* A change has an issue exactly if it is not harmless, and then one that fails.
LEMMA IssuesOfChange ==
  ASSUME NEW c
  PROVE  /\ ChangeIssues(c) = {} <=> Harmless(c)
         /\ \A s \in ChangeIssues(c) : SeverityRank(s) >= 2
<1>1. ChangeIssues(c) \subseteq {"critical", "high", "medium"}
  BY DEF ChangeIssues
<1>2. CASE c.actions \in {<<>>, <<"no-op">>, <<"read">>}
  BY <1>2 DEF ChangeIssues, Harmless
<1>3. CASE c.actions \notin {<<>>, <<"no-op">>, <<"read">>}
  <2>1. ChangeIssues(c) = {} <=> "delete" \notin Range(c.actions) /\ c.class \notin {"iam", "network"}
    BY <1>3, Zenon DEF ChangeIssues
  <2> QED
    BY <1>1, <1>3, <2>1, Ranks DEF Harmless
<1> QED
  BY <1>2, <1>3

\* The verdict of `infra validate` for a result.
LEMMA VerdictOf ==
  ASSUME NEW issues, NEW warnings
  PROVE  /\ InfraExit(Failed) = 1
         /\ InfraExit(Result(issues, warnings)) \in {0, 2}
         /\ InfraExit(Result(issues, warnings)) = 0 <=> \A x \in issues : ~(SeverityRank(x[2]) >= 2)
  BY Ranks DEF InfraExit, Failed, Result, Passes, HasHigherThan

\* What `infra validate` has said of a job.
LEMMA ExitOfInfra ==
  ASSUME IInv, Detected("infra")
  PROVE  /\ exit = InfraExit(Validation(job.type, job.target, job.tool))
         /\ ChosenType(job) = "terraform" =>
              Validation(job.type, job.target, job.tool) = Terraform(job.target, job.tool)
         /\ ChosenType(job) = "helm" =>
              Validation(job.type, job.target, job.tool) = Helm(job.target, job.tool)
         /\ ChosenType(job) \notin {"terraform", "helm", "k8s"} =>
              Validation(job.type, job.target, job.tool) = Failed
  BY DEF IInv, FoundInv, Detected, ChosenType, Validation

\* A plan passes exactly if it deletes nothing and leaves identities and the
\* network alone, however many changes it has.
THEOREM HarmlessPlansPass == Spec => []PlanPassesIfHarmless
<1>1. IInv => PlanPassesIfHarmless
  <2> SUFFICES ASSUME IInv, Detected("infra"), ChosenType(job) = "terraform", exit # 1
               PROVE  exit = 0 <=> \A c \in Range(PlanOf(job).changes) : Harmless(c)
    BY DEF PlanPassesIfHarmless, Harmless
  <2> DEFINE changes == PlanOf(job).changes
             issues  == UNION {{i} \X ChangeIssues(changes[i]) : i \in DOMAIN changes}
  <2>1. exit = InfraExit(Terraform(job.target, job.tool))
    BY ExitOfInfra
  <2>2. Terraform(job.target, job.tool) = Failed \/ Terraform(job.target, job.tool) = Result(issues, {})
    BY DEF Terraform, PlanOf
  <2>3. exit = 0 <=> \A x \in issues : ~(SeverityRank(x[2]) >= 2)
    <3> HIDE DEF issues
    <3> QED
      BY <2>1, <2>2, VerdictOf
  <2>4. ASSUME \A x \in issues : ~(SeverityRank(x[2]) >= 2), NEW c \in Range(changes)
        PROVE  Harmless(c)
    <3>1. PICK i \in DOMAIN changes : c = changes[i]
      BY <2>4 DEF Range
    <3>2. \A s \in ChangeIssues(c) : <<i, s>> \in issues
      BY <3>1
    <3>3. ChangeIssues(c) = {}
      <4> HIDE DEF issues
      <4>1. \A t \in ChangeIssues(c) : FALSE
        BY <2>4, <3>2, IssuesOfChange
      <4> QED
        BY <4>1
    <3> QED
      BY <3>3, IssuesOfChange
  <2>5. ASSUME \A c \in Range(changes) : Harmless(c), NEW x \in issues
        PROVE  FALSE
    <3>1. PICK i \in DOMAIN changes : x \in {i} \X ChangeIssues(changes[i])
      BY <2>5
    <3>2. changes[i] \in Range(changes)
      BY <3>1 DEF Range
    <3> QED
      BY <2>5, <3>1, <3>2, IssuesOfChange
  <2> HIDE DEF issues
  <2> QED
    BY <2>3, <2>4, <2>5
<1> QED
  BY <1>1, Invariance, PTL

\* However a program ends that was killed or failed, and whatever it printed
\* until then, its target does not pass.
THEOREM KilledIsNoPass == Spec => []KilledNeverPasses
<1>1. IInv => KilledNeverPasses
  <2> SUFFICES ASSUME IInv, Detected("infra"), exit = 0, ~job.tool.ok
               PROVE  \/ ChosenType(job) = "k8s"
                      \/ ChosenType(job) = "terraform" /\ job.target.ext = ".json"
    BY DEF KilledNeverPasses
  <2>1. CASE ChosenType(job) = "terraform"
    <3>1. job.target.ext # ".json" => Terraform(job.target, job.tool) = Failed
      BY DEF Terraform
    <3> QED
      BY <2>1, <3>1, ExitOfInfra, VerdictOf
  <2>2. CASE ChosenType(job) = "helm"
    <3> DEFINE lines == job.tool.lines
    <3>1. exit = InfraExit(Helm(job.target, job.tool))
      BY <2>2, ExitOfInfra
    <3>2. Helm(job.target, job.tool) # Failed
      BY <3>1, VerdictOf
    <3>3. Helm(job.target, job.tool) = Lint(job.tool) /\ "ERROR" \in Range(lines)
      BY <3>2 DEF Helm, Releases, Lint
    <3>4. PICK i \in DOMAIN lines : lines[i] = "ERROR"
      BY <3>3 DEF Range
    <3>5. PICK issues : Lint(job.tool) = Result(issues, {}) /\ <<i, "high">> \in issues
      <4> DEFINE tag == [ERROR |-> "high", WARNING |-> "medium", INFO |-> "info"]
                 tagged == {k \in DOMAIN lines : lines[k] \in DOMAIN tag}
                 all == {<<k, tag[lines[k]]>> : k \in tagged}
      <4>1. Lint(job.tool) = Result(all, {})
        BY <3>3 DEF Lint
      <4>2. i \in tagged /\ tag[lines[i]] = "high"
        BY <3>4
      <4> QED
        BY <4>1, <4>2
    <3> QED
      BY <3>1, <3>3, <3>5, VerdictOf, Ranks
  <2>3. CASE ChosenType(job) \notin {"terraform", "helm", "k8s"}
    BY <2>3, ExitOfInfra, VerdictOf
  <2> QED
    BY <2>1, <2>2, <2>3
<1> QED
  BY <1>1, Invariance, PTL

-----------------------------------------------------------------------------
(* Pods.                                                                   *)

\* The two tables of the code are those of the API, for the kinds it knows.
LEMMA PlacesAgree ==
  ASSUME NEW kind \in Workloads
  PROVE  /\ PlaceOf(kind) = ApiPlace(kind) /\ InfraPlaceOf(kind) = ApiPlace(kind)
         /\ ApiPlace(kind) \in Places
  BY DEF Workloads, PlaceOf, InfraPlaceOf, ApiPlace, Places

\* A context with nothing set says as much as none.
LEMMA DecodedContext ==
  ASSUME NEW x \in SecurityContexts
  PROVE  /\ Decoded(x) # NoContext
         /\ Decoded(x)["uid"] = IF x # NoContext THEN x["uid"] ELSE "unset"
         /\ Decoded(x)["nonRoot"] = IF x # NoContext THEN x["nonRoot"] ELSE "unset"
         /\ Decoded(x)["privileged"] = IF x # NoContext THEN x["privileged"] ELSE "unset"
  BY DEF SecurityContexts, Decoded, EmptyPod, NoContext, Flags

\* So the user a container runs as is decided alike with and without it.
LEMMA RootAgrees ==
  ASSUME NEW pod \in SecurityContexts, NEW own \in SecurityContexts
  PROVE  RunsAsRoot(Decoded(pod), Decoded(own)) <=> RunsAsRoot(pod, own)
<1>1. PICK p : p = Decoded(pod)
  OBVIOUS
<1>2. PICK o : o = Decoded(own)
  OBVIOUS
<1>3. /\ p # NoContext /\ o # NoContext
      /\ p["uid"] = IF pod # NoContext THEN pod["uid"] ELSE "unset"
      /\ p["nonRoot"] = IF pod # NoContext THEN pod["nonRoot"] ELSE "unset"
      /\ o["uid"] = IF own # NoContext THEN own["uid"] ELSE "unset"
      /\ o["nonRoot"] = IF own # NoContext THEN own["nonRoot"] ELSE "unset"
  BY <1>1, <1>2, DecodedContext
<1>4. RunsAsRoot(p, o) <=> RunsAsRoot(pod, own)
  BY <1>3 DEF RunsAsRoot
<1> QED
  BY <1>1, <1>2, <1>4

\* The rules for a container of a manifest are those for one of the cluster,
\* and one about its image.
LEMMA RulesAgree ==
  ASSUME NEW c \in ContainerSpecs, NEW context \in SecurityContexts,
         NEW d, d = DecodedContainer(c)
  PROVE  /\ LocalContainerRules(d, Decoded(context)) \ {"K8S008"} = ContainerRules(c, context)
         /\ "K8S008" \in LocalContainerRules(d, Decoded(context)) <=> Unpinned(c.image)
<1>1. /\ d.context = Decoded(c.context) /\ d.limits = c.limits /\ d.list = c.list
      /\ d.probe = c.probe /\ d.image = c.image
  BY DEF ContainerSpecs, DecodedContainer
<1>2. c.context \in SecurityContexts
  BY DEF ContainerSpecs
<1>3. d.context.privileged = "true" <=> c.context # NoContext /\ c.context.privileged = "true"
  BY <1>1, <1>2, DecodedContext
<1>4. RunsAsRoot(Decoded(context), d.context) <=> RunsAsRoot(context, c.context)
  BY <1>1, <1>2, RootAgrees
<1> QED
  BY <1>1, <1>3, <1>4 DEF LocalContainerRules, ContainerRules

\* What decoding leaves of a pod.
LEMMA DecodedPodIs ==
  ASSUME NEW pod \in PodSpecs
  PROVE  /\ DecodedPod(pod).hostNetwork = pod.hostNetwork
         /\ DecodedPod(pod).hostPID = pod.hostPID
         /\ DecodedPod(pod).hostPaths = pod.hostPaths
         /\ DecodedPod(pod).context = Decoded(pod.context)
         /\ DOMAIN DecodedPod(pod).containers = DOMAIN pod.containers
         /\ \A i \in DOMAIN pod.containers :
              /\ DecodedPod(pod).containers[i] = DecodedContainer(pod.containers[i])
              /\ pod.containers[i] \in ContainerSpecs
<1> DEFINE list == [i \in DOMAIN pod.containers |-> DecodedContainer(pod.containers[i])]
<1>1. pod.containers \in Seq(ContainerSpecs)
  BY DEF PodSpecs
<1>2. \A i \in DOMAIN pod.containers : pod.containers[i] \in ContainerSpecs
  BY <1>1
<1>3. DecodedPod(pod) = [pod EXCEPT !.context = Decoded(pod.context), !.containers = list]
  BY DEF DecodedPod, PodSpecs
<1>4. /\ DecodedPod(pod).hostNetwork = pod.hostNetwork
      /\ DecodedPod(pod).hostPID = pod.hostPID
      /\ DecodedPod(pod).hostPaths = pod.hostPaths
      /\ DecodedPod(pod).context = Decoded(pod.context)
      /\ DecodedPod(pod).containers = list
  <2> HIDE DEF list
  <2> QED
    BY <1>3 DEF PodSpecs
<1> QED
  BY <1>2, <1>4

\* The findings about a manifest of a workload, one by one.
LEMMA LocalFindingsAre ==
  ASSUME NEW m \in ManifestDocs, m.parses, m.kind \in Workloads
  PROVE  LET pod == PodOf(m) IN
         /\ pod \in PodSpecs
         /\ LocalFindings(m) = PodLevel(pod) \cup
              OfContainers([i \in DOMAIN pod.containers |->
                LocalContainerRules(DecodedPod(pod).containers[i], Decoded(pod.context))])
<1>1. m.kind # "" /\ m.spec[PlaceOf(m.kind)] = PodOf(m) /\ PodOf(m) \in PodSpecs
  BY PlacesAgree DEF ManifestDocs, Workloads, PodOf
<1>2. PICK pod \in PodSpecs : pod = PodOf(m)
  BY <1>1
<1>3. PodLevel(DecodedPod(pod)) = PodLevel(pod)
  BY DecodedPodIs DEF PodLevel
<1> QED
  BY <1>1, <1>2, <1>3, DecodedPodIs DEF LocalFindings

\* The pairs of the findings about containers.
LEMMA ContainerFindings ==
  ASSUME NEW broken, NEW i, NEW r
  PROVE  <<i, r>> \in OfContainers(broken) <=> i \in DOMAIN broken /\ r \in broken[i]
  BY DEF OfContainers

\* A pod is judged the same in its manifest and in the cluster, whatever
\* containers it has and wherever its kind keeps it.
THEOREM ManifestAndClusterAgree == Spec => []LiveAndLocalAgree
<1>1. IInv => LiveAndLocalAgree
  <2> SUFFICES ASSUME IInv, ReadManifest
               PROVE  {f \in found : f[2] # "K8S008"} = LiveFindings(PodOf(job.manifest))
    BY DEF LiveAndLocalAgree
  <2>1. PICK m \in ManifestDocs : m = job.manifest
    BY JobOfCommand DEF IInv, ReadManifest, Detected
  <2>2. m.parses /\ m.kind \in Workloads /\ found = LocalFindings(m)
    BY <2>1 DEF IInv, FoundInv, ReadManifest, Detected
  <2>3. PICK pod \in PodSpecs : pod = PodOf(m)
    BY <2>2, LocalFindingsAre
  <2> DEFINE local == [i \in DOMAIN pod.containers |->
                         LocalContainerRules(DecodedPod(pod).containers[i], Decoded(pod.context))]
             live  == [i \in DOMAIN pod.containers |-> ContainerRules(pod.containers[i], pod.context)]
  <2>4. found = PodLevel(pod) \cup OfContainers(local)
    BY <2>2, <2>3, LocalFindingsAre
  <2>5. LiveFindings(pod) = PodLevel(pod) \cup OfContainers(live)
    BY DEF LiveFindings
  <2>6. ASSUME NEW i \in DOMAIN pod.containers
        PROVE  local[i] \ {"K8S008"} = live[i]
    <3>1. pod.context \in SecurityContexts
      BY DEF PodSpecs
    <3>2. PICK c \in ContainerSpecs : c = pod.containers[i]
      BY DecodedPodIs
    <3>3. PICK d : d = DecodedPod(pod).containers[i]
      OBVIOUS
    <3>4. d = DecodedContainer(c)
      BY <3>2, <3>3, DecodedPodIs
    <3>5. LocalContainerRules(d, Decoded(pod.context)) \ {"K8S008"} = ContainerRules(c, pod.context)
      BY <3>1, <3>4, RulesAgree
    <3> QED
      BY <3>2, <3>3, <3>5
  <2>7. \A f \in PodLevel(pod) : f[2] # "K8S008"
    BY DEF PodLevel
  <2>8. \A f \in OfContainers(local) \cup OfContainers(live) : f = <<f[1], f[2]>>
    <3> HIDE DEF local, live
    <3> QED
      BY DEF OfContainers
  <2>9. "K8S008" \notin UNION {live[i] : i \in DOMAIN pod.containers}
    BY <2>6
  <2>10. DOMAIN local = DOMAIN pod.containers /\ DOMAIN live = DOMAIN pod.containers
    OBVIOUS
  <2> HIDE DEF local, live
  <2>11. ASSUME NEW i, NEW r
         PROVE  <<i, r>> \in OfContainers(live) <=> <<i, r>> \in OfContainers(local) /\ r # "K8S008"
    BY <2>6, <2>9, <2>10, ContainerFindings
  <2> QED
    BY <2>1, <2>3, <2>4, <2>5, <2>7, <2>8, <2>11
<1> QED
  BY <1>1, Invariance, PTL

\* The two commands agree on unpinned images, for any containers.
THEOREM ImagesAgree == Spec => []ImageRulesAgree
<1>1. IInv => ImageRulesAgree
  <2> SUFFICES ASSUME IInv, ReadManifest, NEW i \in DOMAIN PodOf(job.manifest).containers,
                      PodOf(job.manifest).containers[i].list = "app",
                      PodOf(job.manifest).containers[i].image # ""
               PROVE  <<i, "K8S008">> \in found <=> <<i, "K8S104">> \in InfraFindings(job.manifest)
    BY DEF ImageRulesAgree
  <2>1. PICK m \in ManifestDocs : m = job.manifest
    BY JobOfCommand DEF IInv, ReadManifest, Detected
  <2>2. m.parses /\ m.kind \in Workloads /\ m.kind # "" /\ found = LocalFindings(m)
    BY <2>1 DEF IInv, FoundInv, ReadManifest, Detected, Workloads
  <2>3. PICK pod \in PodSpecs : pod = PodOf(m)
    BY <2>2, LocalFindingsAre
  <2>4. PICK c \in ContainerSpecs : c = pod.containers[i]
    BY <2>1, <2>3, DecodedPodIs
  <2> DEFINE local == [k \in DOMAIN pod.containers |->
                         LocalContainerRules(DecodedPod(pod).containers[k], Decoded(pod.context))]
  <2>5. <<i, "K8S008">> \in found <=> Unpinned(c.image)
    <3>1. found = PodLevel(pod) \cup OfContainers(local)
      BY <2>2, <2>3, LocalFindingsAre
    <3>2. <<i, "K8S008">> \notin PodLevel(pod)
      BY DEF PodLevel
    <3>3. pod.context \in SecurityContexts
      BY DEF PodSpecs
    <3>4. i \in DOMAIN local /\ ("K8S008" \in local[i] <=> Unpinned(c.image))
      <4>1. PICK d : d = DecodedPod(pod).containers[i]
        OBVIOUS
      <4>2. d = DecodedContainer(c)
        BY <2>1, <2>3, <2>4, <4>1, DecodedPodIs
      <4>3. "K8S008" \in LocalContainerRules(d, Decoded(pod.context)) <=> Unpinned(c.image)
        BY <3>3, <4>2, RulesAgree
      <4> QED
        BY <2>1, <2>3, <4>1, <4>3
    <3> HIDE DEF local
    <3> QED
      BY <3>1, <3>2, <3>4, ContainerFindings
  <2>6. <<i, "K8S104">> \in InfraFindings(m) <=> Unpinned(c.image)
    <3> DEFINE spec == m.spec[InfraPlaceOf(m.kind)]
    <3>1. spec = pod
      BY <2>2, <2>3, PlacesAgree DEF PodOf
    <3> DEFINE broken(d) == {r \in {"K8S104", "K8S105", "K8S106"} :
                               \/ r = "K8S104" /\ Unpinned(d.image) /\ d.image # ""
                               \/ r = "K8S105" /\ ~d.requests
                               \/ r = "K8S106" /\ ~d.liveness}
               app == {k \in DOMAIN spec.containers : spec.containers[k].list = "app"}
               own == {r \in {"K8S101", "K8S102", "K8S103"} :
                         \/ r = "K8S101" /\ m.name = ""
                         \/ r = "K8S102" /\ m.api = "deprecated"
                         \/ r = "K8S103" /\ m.kind = "Deployment" /\ m.replicas = 1}
    <3>2. InfraFindings(m) = ({0} \X own) \cup UNION {{k} \X broken(spec.containers[k]) : k \in app}
      BY <2>2, Zenon DEF InfraFindings
    <3>3. <<i, "K8S104">> \notin {0} \X own
      OBVIOUS
    <3>4. i \in app /\ spec.containers[i] = c
      BY <2>1, <2>3, <2>4, <3>1
    <3>5. "K8S104" \in broken(c) <=> Unpinned(c.image)
      BY <2>1, <2>3, <2>4
    <3> HIDE DEF broken, own, app, spec
    <3>6. <<i, "K8S104">> \in UNION {{k} \X broken(spec.containers[k]) : k \in app}
            <=> "K8S104" \in broken(spec.containers[i])
      <4> DEFINE all == [k \in app |-> broken(spec.containers[k])]
      <4>1. OfContainers(all) = UNION {{k} \X broken(spec.containers[k]) : k \in app}
        BY DEF OfContainers
      <4>2. i \in DOMAIN all /\ all[i] = broken(spec.containers[i])
        BY <3>4
      <4> HIDE DEF all
      <4>3. <<i, "K8S104">> \in OfContainers(all) <=> i \in DOMAIN all /\ "K8S104" \in all[i]
        BY ContainerFindings
      <4> QED
        BY <4>1, <4>2, <4>3
    <3> QED
      BY <3>2, <3>3, <3>4, <3>5, <3>6
  <2> QED
    BY <2>1, <2>5, <2>6
<1> QED
  BY <1>1, Invariance, PTL

-----------------------------------------------------------------------------
(* Logs.                                                                   *)

\* A set of naturals has a smallest element.
LEMMA MinIs ==
  ASSUME NEW S, S \subseteq Nat, S # {}
  PROVE  Min(S) \in S /\ \A y \in S : Min(S) <= y
<1>1. PICK x \in S : \A y \in S : ~(<<y, x>> \in OpToRel(<, Nat))
  BY WFMin, NatLessThanWellFounded
<1>2. \A y \in Nat : <<y, x>> \in OpToRel(<, Nat) <=> y < x
  BY DEF OpToRel
<1>3. \A y \in S : x <= y
  <2>1. \A y \in S : ~(y < x)
    BY <1>1, <1>2, Zenon
  <2> QED
    BY <2>1
<1> QED
  BY <1>3 DEF Min

\* A set of naturals with an upper bound has a greatest element.
LEMMA MaxIs ==
  ASSUME NEW n \in Nat, NEW S, S \subseteq 0..n, S # {}
  PROVE  Max(S) \in S /\ \A y \in S : y <= Max(S)
<1> DEFINE gaps == {n - x : x \in S}
<1>0. \A x \in S : x \in Nat /\ n - x \in Nat
  OBVIOUS
<1>1. gaps \subseteq Nat /\ gaps # {}
  BY <1>0
<1>2. PICK g \in gaps : \A y \in gaps : ~(<<y, g>> \in OpToRel(<, Nat))
  <2> HIDE DEF gaps
  <2> QED
    BY <1>1, WFMin, NatLessThanWellFounded
<1>3. \A y \in gaps : g <= y
  <2>1. \A y \in Nat : <<y, g>> \in OpToRel(<, Nat) <=> y < g
    BY <1>1 DEF OpToRel
  <2>2. \A y \in gaps : ~(y < g)
    BY <1>1, <1>2, <2>1, Zenon
  <2> QED
    BY <1>1, <2>2
<1>4. PICK x \in S : g = n - x
  OBVIOUS
<1>5. \A y \in S : y <= x
  BY <1>0, <1>3, <1>4
<1> QED
  BY <1>0, <1>5 DEF Max

\* Entries come from lines, and only finitely many of them.
LEMMA EntriesAre ==
  ASSUME NEW lines \in Seq(Lines), NEW since, NEW level
  PROVE  LET es == Filtered(Entries(lines), since, level) IN
         /\ DOMAIN es \subseteq 1..Len(lines) /\ Len(lines) \in Nat
         /\ IsFiniteSet(DOMAIN es) /\ Size(es) \in Nat
<1> DEFINE es == Filtered(Entries(lines), since, level)
<1>1. DOMAIN es \subseteq 1..Len(lines) /\ Len(lines) \in Nat
  <2>1. DOMAIN Entries(lines) \subseteq 1..Len(lines) /\ Len(lines) \in Nat
    <3>1. DOMAIN Entries(lines) = Messages(lines)
      BY DEF Entries
    <3>2. Messages(lines) \subseteq DOMAIN lines
      BY DEF Messages, Full
    <3> QED
      BY <3>1, <3>2
  <2>2. DOMAIN es \subseteq DOMAIN Entries(lines)
    BY DEF Filtered, Restrict
  <2> QED
    BY <2>1, <2>2
<1>2. IsFiniteSet(1..Len(lines))
  BY <1>1, FS_Interval
<1> HIDE DEF es
<1>3. IsFiniteSet(DOMAIN es) /\ Size(es) \in Nat
  BY <1>1, <1>2, FS_Subset, FS_CardinalityType DEF Size
<1> QED
  BY <1>1, <1>3 DEF es

\* The fields of a finding.
LEMMA FindingIs ==
  ASSUME NEW kind, NEW key, NEW count, NEW first, NEW last
  PROVE  /\ Finding(kind, key, count, first, last).kind = kind
         /\ Finding(kind, key, count, first, last).key = key
         /\ Finding(kind, key, count, first, last).count = count
         /\ Finding(kind, key, count, first, last).first = first
         /\ Finding(kind, key, count, first, last).last = last
  BY DEF Finding

\* What detectPatterns and detectClusters have of a group.
LEMMA RepeatedAre ==
  ASSUME NEW kind, NEW key, NEW least, NEW f \in Repeated(kind, key, least)
  PROVE  /\ f.kind = kind /\ f.key \in Range(key)
         /\ f.count = Cardinality(Group(key, f.key)) /\ f.count >= least
         /\ f.first = Min(Group(key, f.key)) /\ f.last = Max(Group(key, f.key))
         /\ f = Finding(kind, f.key, f.count, f.first, f.last)
<1>1. PICK k \in Range(key) :
        /\ Cardinality(Group(key, k)) >= least
        /\ f = Finding(kind, k, Cardinality(Group(key, k)), Min(Group(key, k)), Max(Group(key, k)))
  BY DEF Repeated
<1> QED
  BY <1>1, FindingIs

\* What the pattern detector reports.
LEMMA PatternsAre ==
  ASSUME NEW es, NEW f \in Patterns(es)
  PROVE  /\ f.kind = "pattern" /\ f.key \in Range(Message(es))
         /\ f.count = Cardinality(Group(Message(es), f.key)) /\ f.count >= MinRepeat
         /\ f.first = Min(Group(Message(es), f.key)) /\ f.last = Max(Group(Message(es), f.key))
<1>1. PICK key : key = Message(es)
  OBVIOUS
<1>2. f \in Repeated("pattern", key, MinRepeat)
  BY <1>1 DEF Patterns
<1>3. /\ f.kind = "pattern" /\ f.key \in Range(key)
      /\ f.count = Cardinality(Group(key, f.key)) /\ f.count >= MinRepeat
      /\ f.first = Min(Group(key, f.key)) /\ f.last = Max(Group(key, f.key))
  BY <1>2, RepeatedAre
<1> QED
  BY <1>1, <1>3

\* What the cluster detector reports.
LEMMA ClustersAre ==
  ASSUME NEW es, NEW f \in Clusters(es)
  PROVE  f.kind = "cluster"
<1>1. PICK key : key = Template(es)
  OBVIOUS
<1>2. f \in Repeated("cluster", key, MinRepeat)
  BY <1>1 DEF Clusters
<1> QED
  BY <1>2, RepeatedAre

\* The spike detector reports spikes.
LEMMA SpikesAre ==
  ASSUME NEW es, NEW f \in Spikes(es)
  PROVE  f.kind = "spike"
<1>1. f \in TimeSpikes(Errors(es)) \/ f \in LineSpikes(Errors(es), Size(es))
  BY DEF Spikes
<1>2. \E key, count, first, last : f = Finding("spike", key, count, first, last)
  <2>1. CASE f \in TimeSpikes(Errors(es))
    BY <2>1, Zenon DEF TimeSpikes
  <2>2. CASE f \in LineSpikes(Errors(es), Size(es))
    BY <2>2, Zenon DEF LineSpikes
  <2> QED
    BY <1>1, <2>1, <2>2
<1> QED
  BY <1>2, FindingIs

\* What `log analyze` has found in a job.
LEMMA FoundInLog ==
  ASSUME IInv, Detected("log")
  PROVE  /\ job.lines \in Seq(Lines)
         /\ found = Patterns(EntriesOf(job)) \cup Spikes(EntriesOf(job)) \cup Clusters(EntriesOf(job))
<1>1. job \in LogJobs /\ found = LogAnomalies(EntriesOf(job))
  BY JobOfCommand DEF IInv, FoundInv, Detected
<1> QED
  BY <1>1, VerdictsAssumption DEF LogAnomalies

\* A group is finite, and its count a number.
LEMMA CountsAre ==
  ASSUME IInv, Detected("log"), NEW f \in found, f.kind # "spike"
  PROVE  f.count \in Nat
<1> DEFINE es == EntriesOf(job)
<1>1. IsFiniteSet(DOMAIN es)
  BY FoundInLog, EntriesAre DEF EntriesOf
<1>2. f \in Patterns(es) \cup Clusters(es)
  BY FoundInLog, SpikesAre
<1>3. PICK key : f.count = Cardinality(Group(key, f.key)) /\ DOMAIN key \subseteq DOMAIN es
  <2> HIDE DEF es
  <2>1. DOMAIN Message(es) \subseteq DOMAIN es /\ DOMAIN Template(es) \subseteq DOMAIN es
    BY DEF Message, Template, Severe
  <2>2. CASE f \in Patterns(es)
    BY <2>1, <2>2, RepeatedAre DEF Patterns
  <2>3. CASE f \in Clusters(es)
    BY <2>1, <2>3, RepeatedAre DEF Clusters
  <2> QED
    BY <1>2, <2>2, <2>3
<1>4. Group(key, f.key) \subseteq DOMAIN es
  BY <1>3 DEF Group
<1> QED
  BY <1>1, <1>3, <1>4, FS_Subset, FS_CardinalityType

\* After the spikes no line of the report is more severe than the one above it,
\* for any number of entries and any order the sort gives to equals.
THEOREM SeverityFalls == Spec => []SeverityNeverRises
<1>1. IInv => SeverityNeverRises
  <2> SUFFICES ASSUME IInv, Detected("log"), NEW i \in DOMAIN report, NEW k \in DOMAIN report,
                      i < k, report[i].kind # "spike"
               PROVE  /\ report[k].kind # "spike"
                      /\ LogSeverity(report[k], Size(EntriesOf(job)))
                           <= LogSeverity(report[i], Size(EntriesOf(job)))
    BY DEF SeverityNeverRises
  <2>1. PICK n \in Nat : n = Size(EntriesOf(job))
    BY FoundInLog, EntriesAre DEF EntriesOf
  <2>2. PICK a \in found : a = report[i]
    BY DEF IInv, ReportInv
  <2>3. PICK b \in found : b = report[k]
    BY DEF IInv, ReportInv
  <2>4. ~RankedBefore(b, a)
    BY <2>2, <2>3 DEF IInv, ReportInv, Detected
  <2>5. b.kind # "spike" /\ ~(b.count > a.count)
    BY <2>2, <2>4 DEF RankedBefore
  <2>6. a.count \in Nat /\ b.count \in Nat
    BY <2>2, <2>5, CountsAre
  <2>7. LogSeverity(b, n) <= LogSeverity(a, n)
    BY <2>2, <2>5, <2>6 DEF LogSeverity
  <2> QED
    BY <2>1, <2>2, <2>3, <2>5, <2>7
<1> QED
  BY <1>1, Invariance, PTL

\* The extremes of a group grow apart as the group grows.
LEMMA Extremes ==
  ASSUME NEW n \in Nat, NEW T, T \subseteq 1..n, NEW S, S \subseteq T, S # {}
  PROVE  Min(T) <= Min(S) /\ Max(S) <= Max(T)
<1>0. \A y \in 1..n : y \in Nat /\ y \in 0..n
  OBVIOUS
<1>1. T \subseteq Nat /\ T \subseteq 0..n /\ S \subseteq Nat /\ S \subseteq 0..n /\ T # {}
  BY <1>0
<1>2. /\ Min(T) \in T /\ \A y \in T : Min(T) <= y
      /\ Min(S) \in S /\ \A y \in S : Min(S) <= y
  BY <1>1, MinIs
<1>3. /\ Max(T) \in T /\ \A y \in T : y <= Max(T)
      /\ Max(S) \in S /\ \A y \in S : y <= Max(S)
  BY <1>1, MaxIs
<1> QED
  BY <1>2, <1>3

\* A larger group of entries has more of them and reaches further.
LEMMA LargerGroup ==
  ASSUME NEW n \in Nat, NEW T, T \subseteq 1..n, IsFiniteSet(T), NEW C, C \subseteq T,
         NEW P, P \subseteq C, Cardinality(P) >= 3
  PROVE  /\ Cardinality(C) >= Cardinality(P) /\ Cardinality(C) >= 3
         /\ Min(C) <= Min(P) /\ Max(C) >= Max(P)
<1>1. /\ IsFiniteSet(C) /\ Cardinality(P) \in Nat /\ Cardinality(C) \in Nat
      /\ Cardinality(P) <= Cardinality(C)
  BY FS_Subset, FS_CardinalityType
<1>2. P # {} /\ C \subseteq 1..n
  BY FS_EmptySet
<1>3. Min(C) <= Min(P) /\ Max(P) <= Max(C)
  BY <1>2, Extremes
<1>4. \A y \in 1..n : y \in Nat /\ y \in 0..n
  OBVIOUS
<1>5. P \subseteq 0..n /\ C \subseteq 0..n /\ P \subseteq Nat /\ C \subseteq Nat /\ C # {}
  BY <1>2, <1>4
<1>6. Max(P) \in Nat /\ Max(C) \in Nat
  BY <1>2, <1>5, MaxIs
<1> QED
  BY <1>1, <1>3, <1>6

\* The pattern and the cluster detector group the same messages: a group of
\* equal messages with variable parts lies in one of messages alike.
LEMMA GroupsNest ==
  ASSUME NEW es, NEW k \in Range(Message(es)), k[3] # ""
  PROVE  /\ Group(Message(es), k) \subseteq Group(Template(es), <<k[1], k[2]>>)
         /\ Group(Template(es), <<k[1], k[2]>>) \subseteq DOMAIN es
         /\ <<k[1], k[2]>> \in Range(Template(es))
<1>1. \A j \in DOMAIN Message(es) : /\ j \in Severe(es)
                                    /\ Message(es)[j] = <<es[j].level, es[j].text, es[j].args>>
  BY DEF Message
<1>2. \A j \in Severe(es) : es[j].args # "" =>
        /\ j \in DOMAIN Template(es) /\ Template(es)[j] = <<es[j].level, es[j].text>>
  BY DEF Template
<1>3. PICK i \in DOMAIN Message(es) : k = Message(es)[i]
  BY DEF Range
<1>4. ASSUME NEW j \in DOMAIN Message(es), Message(es)[j] = k
      PROVE  j \in DOMAIN Template(es) /\ Template(es)[j] = <<k[1], k[2]>>
  <2>0. k = <<es[j].level, es[j].text, es[j].args>>
    BY <1>1, <1>4, Zenon
  <2>1. es[j].level = k[1] /\ es[j].text = k[2] /\ es[j].args = k[3]
    BY <2>0
  <2> QED
    BY <1>1, <1>2, <2>1
<1>5. Group(Message(es), k) \subseteq Group(Template(es), <<k[1], k[2]>>)
  BY <1>4 DEF Group
<1>6. Group(Template(es), <<k[1], k[2]>>) \subseteq DOMAIN es
  BY DEF Group, Template, Severe
<1>7. <<k[1], k[2]>> \in Range(Template(es))
  BY <1>3, <1>4 DEF Range
<1> QED
  BY <1>5, <1>6, <1>7

\* The cluster that holds the messages of a pattern.
LEMMA ClusterOfPattern ==
  ASSUME NEW n \in Nat, NEW es, DOMAIN es \subseteq 1..n, IsFiniteSet(DOMAIN es),
         NEW k \in Range(Message(es)), k[3] # "",
         Cardinality(Group(Message(es), k)) >= MinRepeat
  PROVE  \E c \in Clusters(es) :
           /\ c.kind = "cluster" /\ c.key = <<k[1], k[2]>>
           /\ c.count >= Cardinality(Group(Message(es), k))
           /\ c.first <= Min(Group(Message(es), k)) /\ c.last >= Max(Group(Message(es), k))
<1>1. PICK t, P, C : t = <<k[1], k[2]>> /\ P = Group(Message(es), k) /\ C = Group(Template(es), t)
  OBVIOUS
<1>2. P \subseteq C /\ C \subseteq DOMAIN es /\ t \in Range(Template(es))
  BY <1>1, GroupsNest
<1>3. Cardinality(P) >= 3
  BY <1>1 DEF MinRepeat
<1>4. /\ Cardinality(C) >= Cardinality(P) /\ Cardinality(C) >= 3
      /\ Min(C) <= Min(P) /\ Max(C) >= Max(P)
  BY <1>2, <1>3, LargerGroup
<1>5. PICK c : c = Finding("cluster", t, Cardinality(C), Min(C), Max(C))
  OBVIOUS
<1>6. c \in Clusters(es)
  BY <1>1, <1>2, <1>4, <1>5 DEF Clusters, Repeated, MinRepeat
<1>7. /\ c.kind = "cluster" /\ c.key = t /\ c.count = Cardinality(C)
      /\ c.first = Min(C) /\ c.last = Max(C)
  BY <1>5 DEF Finding
<1> QED
  BY <1>1, <1>4, <1>6, <1>7

\* Whatever the pattern detector reports of messages with variable parts, the
\* cluster detector reports with all its relatives, in a log of any length.
THEOREM ClustersCover == Spec => []ClustersCoverPatterns
<1>1. IInv => ClustersCoverPatterns
  <2> SUFFICES ASSUME IInv, Detected("log"), NEW p \in found, p.kind = "pattern", p.key[3] # ""
               PROVE  \E c \in found :
                        /\ c.kind = "cluster" /\ c.key = <<p.key[1], p.key[2]>>
                        /\ c.count >= p.count /\ c.first <= p.first /\ c.last >= p.last
    BY DEF ClustersCoverPatterns
  <2>1. PICK es : es = EntriesOf(job)
    OBVIOUS
  <2>2. PICK n \in Nat : DOMAIN es \subseteq 1..n /\ IsFiniteSet(DOMAIN es)
    BY <2>1, FoundInLog, EntriesAre DEF EntriesOf
  <2>3. found = Patterns(es) \cup Spikes(es) \cup Clusters(es)
    BY <2>1, FoundInLog
  <2>4. p \in Patterns(es)
    BY <2>3, SpikesAre, ClustersAre
  <2>5. PICK k : k = p.key
    OBVIOUS
  <2>6. /\ k \in Range(Message(es)) /\ k[3] # ""
        /\ p.count = Cardinality(Group(Message(es), k)) /\ p.count >= MinRepeat
        /\ p.first = Min(Group(Message(es), k)) /\ p.last = Max(Group(Message(es), k))
    BY <2>4, <2>5, PatternsAre
  <2>7. PICK c \in Clusters(es) :
          /\ c.kind = "cluster" /\ c.key = <<k[1], k[2]>>
          /\ c.count >= p.count /\ c.first <= p.first /\ c.last >= p.last
    BY <2>2, <2>6, ClusterOfPattern
  <2> QED
    BY <2>3, <2>5, <2>7
<1> QED
  BY <1>1, Invariance, PTL

OfLevel(part, all, r) ==
  /\ \A i : i \in DOMAIN part <=> i \in DOMAIN all /\ LevelRank(all[i][1]) >= r
  /\ \A i \in DOMAIN part : part[i] = all[i]

\* Groups whose keys say the level do not mix levels: keeping the entries of
\* high levels keeps the groups of these levels as they are.
LEMMA GroupsByLevel ==
  ASSUME NEW kind, NEW least, NEW r, NEW all, NEW part,
         OfLevel(part, all, r)
  PROVE  \A f : f \in Repeated(kind, part, least) <=>
                f \in Repeated(kind, all, least) /\ LevelRank(f.key[1]) >= r
<1>1. \A k : LevelRank(k[1]) >= r => Group(part, k) = Group(all, k)
  BY DEF Group, OfLevel
<1>2. Range(part) = {k \in Range(all) : LevelRank(k[1]) >= r}
  BY DEF Range, OfLevel
<1>3. ASSUME NEW f \in Repeated(kind, part, least)
      PROVE  f \in Repeated(kind, all, least) /\ LevelRank(f.key[1]) >= r
  <2>1. PICK k \in Range(part) :
          /\ Cardinality(Group(part, k)) >= least
          /\ f = Finding(kind, k, Cardinality(Group(part, k)), Min(Group(part, k)), Max(Group(part, k)))
    BY <1>3 DEF Repeated
  <2>2. k \in Range(all) /\ LevelRank(k[1]) >= r /\ Group(part, k) = Group(all, k)
    BY <1>1, <1>2
  <2>3. f \in Repeated(kind, all, least)
    BY <2>1, <2>2 DEF Repeated
  <2> QED
    BY <2>1, <2>2, <2>3, FindingIs
<1>4. ASSUME NEW f \in Repeated(kind, all, least), LevelRank(f.key[1]) >= r
      PROVE  f \in Repeated(kind, part, least)
  <2>1. PICK k \in Range(all) :
          /\ Cardinality(Group(all, k)) >= least
          /\ f = Finding(kind, k, Cardinality(Group(all, k)), Min(Group(all, k)), Max(Group(all, k)))
    BY <1>4 DEF Repeated
  <2>2. k \in Range(part) /\ Group(part, k) = Group(all, k)
    BY <1>1, <1>2, <1>4, <2>1, FindingIs
  <2> QED
    BY <2>1, <2>2 DEF Repeated
<1> QED
  BY <1>3, <1>4

\* The severe entries of a filtered log have the keys they have in the log.
LEMMA KeysByLevel ==
  ASSUME NEW es, NEW since, NEW level, level # ""
  PROVE  LET all  == Filtered(es, since, "")
             part == Filtered(es, since, level)
             r    == LevelRank(level)
         IN OfLevel(Message(part), Message(all), r) /\ OfLevel(Template(part), Template(all), r)
<1>1. PICK all, part, r :
        all = Filtered(es, since, "") /\ part = Filtered(es, since, level) /\ r = LevelRank(level)
  OBVIOUS
<1>2. /\ \A i : i \in DOMAIN part <=> i \in DOMAIN all /\ LevelRank(all[i].level) >= r
      /\ \A i \in DOMAIN part : part[i] = all[i]
  BY <1>1 DEF Filtered, Restrict
<1>3. /\ \A i : i \in Severe(part) <=> i \in Severe(all) /\ LevelRank(all[i].level) >= r
      /\ \A i \in Severe(part) : part[i] = all[i]
  BY <1>2 DEF Severe
<1>4. OfLevel(Message(part), Message(all), r)
  <2>1. /\ DOMAIN Message(all) = Severe(all)
        /\ \A i \in Severe(all) : Message(all)[i] = <<all[i].level, all[i].text, all[i].args>>
    BY DEF Message
  <2>2. /\ DOMAIN Message(part) = Severe(part)
        /\ \A i \in Severe(part) : Message(part)[i] = <<part[i].level, part[i].text, part[i].args>>
    BY DEF Message
  <2>3. ASSUME NEW i \in Severe(all)
        PROVE  Message(all)[i][1] = all[i].level
    <3>1. PICK k, x, y, z : k = Message(all)[i] /\ x = all[i].level /\ y = all[i].text /\ z = all[i].args
      OBVIOUS
    <3>2. k = <<x, y, z>>
      BY <2>1, <3>1
    <3>3. k[1] = x
      BY <3>2
    <3> QED
      BY <3>1, <3>3
  <2> QED
    BY <1>3, <2>1, <2>2, <2>3 DEF OfLevel
<1>5. OfLevel(Template(part), Template(all), r)
  <2>1. /\ \A i : i \in DOMAIN Template(all) <=> i \in Severe(all) /\ all[i].args # ""
        /\ \A i \in DOMAIN Template(all) : Template(all)[i] = <<all[i].level, all[i].text>>
    BY DEF Template
  <2>2. /\ \A i : i \in DOMAIN Template(part) <=> i \in Severe(part) /\ part[i].args # ""
        /\ \A i \in DOMAIN Template(part) : Template(part)[i] = <<part[i].level, part[i].text>>
    BY DEF Template
  <2>3. ASSUME NEW i \in DOMAIN Template(all)
        PROVE  Template(all)[i][1] = all[i].level
    <3>1. PICK k, x, y : k = Template(all)[i] /\ x = all[i].level /\ y = all[i].text
      OBVIOUS
    <3>2. k = <<x, y>>
      BY <2>1, <3>1
    <3>3. k[1] = x
      BY <3>2
    <3> QED
      BY <3>1, <3>3
  <2>4. \A i : i \in DOMAIN Template(part) <=>
               i \in DOMAIN Template(all) /\ LevelRank(Template(all)[i][1]) >= r
    <3>1. ASSUME NEW i, i \in DOMAIN Template(part)
          PROVE  i \in DOMAIN Template(all) /\ LevelRank(Template(all)[i][1]) >= r
      <4>1. i \in DOMAIN Template(all) /\ LevelRank(all[i].level) >= r
        BY <1>3, <2>1, <2>2, <3>1
      <4> QED
        BY <2>3, <4>1
    <3>2. ASSUME NEW i, i \in DOMAIN Template(all), LevelRank(Template(all)[i][1]) >= r
          PROVE  i \in DOMAIN Template(part)
      <4>1. i \in Severe(all) /\ all[i].args # "" /\ LevelRank(all[i].level) >= r
        BY <2>1, <2>3, <3>2
      <4> QED
        BY <1>3, <2>2, <4>1
    <3> QED
      BY <3>1, <3>2
  <2>5. \A i \in DOMAIN Template(part) : Template(part)[i] = Template(all)[i]
    BY <1>3, <2>1, <2>2
  <2> QED
    BY <2>4, <2>5 DEF OfLevel
<1> QED
  BY <1>1, <1>4, <1>5

\* --level keeps of the patterns and of the clusters those of high levels.
LEMMA LevelKeeps ==
  ASSUME NEW es, NEW since, NEW level, level # ""
  PROVE  LET all  == Filtered(es, since, "")
             part == Filtered(es, since, level)
         IN \A f : f \in Patterns(part) \cup Clusters(part) <=>
                   f \in Patterns(all) \cup Clusters(all) /\ LevelRank(f.key[1]) >= LevelRank(level)
<1>1. PICK a, b, r : /\ a = Message(Filtered(es, since, "")) /\ b = Message(Filtered(es, since, level))
                     /\ r = LevelRank(level)
  OBVIOUS
<1>2. OfLevel(b, a, r)
  BY <1>1, KeysByLevel
<1>3. \A f : f \in Repeated("pattern", b, MinRepeat) <=>
             f \in Repeated("pattern", a, MinRepeat) /\ LevelRank(f.key[1]) >= r
  BY <1>2, GroupsByLevel
<1>4. PICK c, d : /\ c = Template(Filtered(es, since, "")) /\ d = Template(Filtered(es, since, level))
  OBVIOUS
<1>5. OfLevel(d, c, r)
  BY <1>1, <1>4, KeysByLevel
<1>6. \A f : f \in Repeated("cluster", d, MinRepeat) <=>
             f \in Repeated("cluster", c, MinRepeat) /\ LevelRank(f.key[1]) >= r
  BY <1>5, GroupsByLevel
<1> QED
  BY <1>1, <1>3, <1>4, <1>6 DEF Patterns, Clusters

\* The repeated messages of a report with --level are those of the report
\* without, as far as their level is high enough, whatever the log holds.
THEOREM LevelHides == Spec => []LevelOnlyHides
<1>1. IInv => LevelOnlyHides
  <2> SUFFICES ASSUME IInv, Detected("log"),
                      NEW all, all = Filtered(Entries(job.lines), job.since, ""),
                      NEW part, part = EntriesOf(job)
               PROVE  {f \in found : f.kind # "spike"} =
                        {f \in Patterns(all) \cup Clusters(all) :
                           job.level = "" \/ LevelRank(f.key[1]) >= LevelRank(job.level)}
    BY DEF LevelOnlyHides
  <2>1. {f \in found : f.kind # "spike"} = Patterns(part) \cup Clusters(part)
    <3>1. found = Patterns(part) \cup Spikes(part) \cup Clusters(part)
      BY FoundInLog
    <3>2. \A f \in Patterns(part) \cup Clusters(part) : f.kind # "spike"
      BY PatternsAre, ClustersAre
    <3> QED
      BY <3>1, <3>2, SpikesAre
  <2>2. CASE job.level = ""
    <3>1. part = all
      BY <2>2 DEF EntriesOf
    <3> QED
      BY <2>1, <2>2, <3>1
  <2>3. CASE job.level # ""
    <3>1. PICK es, since, level : es = Entries(job.lines) /\ since = job.since /\ level = job.level
      OBVIOUS
    <3>2. all = Filtered(es, since, "") /\ part = Filtered(es, since, level) /\ level # ""
      BY <2>3, <3>1 DEF EntriesOf
    <3>3. \A f : f \in Patterns(part) \cup Clusters(part) <=>
                 f \in Patterns(all) \cup Clusters(all) /\ LevelRank(f.key[1]) >= LevelRank(level)
      <4>1. LET al == Filtered(es, since, "")
                pa == Filtered(es, since, level)
            IN \A f : f \in Patterns(pa) \cup Clusters(pa) <=>
                      f \in Patterns(al) \cup Clusters(al) /\ LevelRank(f.key[1]) >= LevelRank(level)
        BY <3>2, LevelKeeps
      <4> QED
        BY <3>2, <4>1
    <3> QED
      BY <2>1, <2>3, <3>1, <3>3
  <2> QED
    BY <2>2, <2>3
<1> QED
  BY <1>1, Invariance, PTL

-----------------------------------------------------------------------------
(* Bursts of errors.                                                       *)

\* If each of some windows holds three times the average, so do all of them
\* together.
LEMMA WindowsTogether ==
  ASSUME NEW win, IsFiniteSet(DOMAIN win), NEW S, IsFiniteSet(S), NEW n \in Nat, NEW total \in Nat,
         \A w \in S : Cardinality(Group(win, w)) * n >= 3 * total
  PROVE  Cardinality({i \in DOMAIN win : win[i] \in S}) * n >= (3 * total) * Cardinality(S)
<1> DEFINE In(U) == {i \in DOMAIN win : win[i] \in U}
           bad   == {U \in SUBSET S : ~(Cardinality(In(U)) * n >= (3 * total) * Cardinality(U))}
           sizes == {Cardinality(U) : U \in bad}
<1>1. ASSUME NEW U \in SUBSET S
      PROVE  /\ IsFiniteSet(U) /\ Cardinality(U) \in Nat
             /\ IsFiniteSet(In(U)) /\ Cardinality(In(U)) \in Nat
  <2>1. IsFiniteSet(U) /\ Cardinality(U) \in Nat
    BY FS_Subset, FS_CardinalityType
  <2>2. In(U) \in SUBSET DOMAIN win
    OBVIOUS
  <2> HIDE DEF In
  <2>3. IsFiniteSet(In(U)) /\ Cardinality(In(U)) \in Nat
    BY <2>2, FS_Subset, FS_CardinalityType
  <2> QED
    BY <2>1, <2>3
<1> SUFFICES ASSUME bad # {} PROVE FALSE
  OBVIOUS
<1>2. PICK U \in bad : \A V \in bad : Cardinality(U) <= Cardinality(V)
  <2>1. sizes \subseteq Nat /\ sizes # {}
    BY <1>1
  <2>2. Min(sizes) \in sizes /\ \A y \in sizes : Min(sizes) <= y
    <3> HIDE DEF sizes
    <3> QED
      BY <2>1, MinIs
  <2> QED
    BY <2>2
<1>3. U \in SUBSET S /\ ~(Cardinality(In(U)) * n >= (3 * total) * Cardinality(U))
  BY <1>2
<1>4. U # {}
  <2>1. In({}) = {} /\ Cardinality({}) = 0
    BY FS_EmptySet
  <2> QED
    BY <1>3, <2>1
<1>5. PICK w \in U : TRUE
  BY <1>4
<1>6. PICK V, G : V = U \ {w} /\ G = Group(win, w)
  OBVIOUS
<1>7. V \in SUBSET S /\ IsFiniteSet(U) /\ Cardinality(U) \in Nat /\ Cardinality(V) = Cardinality(U) - 1
  BY <1>1, <1>3, <1>5, <1>6, FS_RemoveElement
<1>8. Cardinality(In(V)) * n >= (3 * total) * Cardinality(V)
  <2>1. V \notin bad
    BY <1>2, <1>7
  <2> QED
    BY <1>7, <2>1
<1>9. Cardinality(In(U)) = Cardinality(In(V)) + Cardinality(G) /\ Cardinality(G) \in Nat
  <2>1. In(U) = In(V) \cup G /\ In(V) \cap G = {} /\ G \in SUBSET DOMAIN win
    BY <1>5, <1>6 DEF Group
  <2>2. IsFiniteSet(In(V)) /\ Cardinality(In(V)) \in Nat
    BY <1>1, <1>7
  <2> HIDE DEF In
  <2>3. IsFiniteSet(G) /\ Cardinality(G) \in Nat
    BY <2>1, FS_Subset, FS_CardinalityType
  <2> QED
    BY <2>1, <2>2, <2>3, FS_Union, FS_EmptySet
<1>10. Cardinality(G) * n >= 3 * total
  BY <1>3, <1>5, <1>6
<1>11. PICK a \in Nat, b \in Nat, k \in Nat :
         a = Cardinality(In(V)) /\ b = Cardinality(G) /\ k = Cardinality(U)
  BY <1>1, <1>7, <1>9
<1>12. (a + b) * n >= (3 * total) * k
  <2>1. a * n >= (3 * total) * (k - 1) /\ b * n >= 3 * total
    BY <1>7, <1>8, <1>10, <1>11
  <2>2. (a + b) * n = a * n + b * n
    OBVIOUS
  <2>3. (3 * total) * (k - 1) = (3 * total) * k - 3 * total
    OBVIOUS
  <2>4. PICK x \in Int, y \in Int, z \in Int : x = a * n /\ y = b * n /\ z = (3 * total) * k
    OBVIOUS
  <2> QED
    BY <2>1, <2>2, <2>3, <2>4
<1> QED
  BY <1>3, <1>9, <1>11, <1>12

\* Fewer than a third of the windows stand out.
LEMMA FewStandOut ==
  ASSUME NEW win, IsFiniteSet(DOMAIN win), NEW S \in SUBSET Range(win), S # {},
         \A w \in S : IsSpike(Cardinality(Group(win, w)), Cardinality(Range(win)), Cardinality(DOMAIN win))
  PROVE  IsFiniteSet(S) /\ 3 * Cardinality(S) < Cardinality(Range(win))
<1>1. PICK W, E : W = Range(win) /\ E = DOMAIN win
  OBVIOUS
<1>2. IsFiniteSet(W)
  <2>1. [i \in E |-> win[i]] \in Surjection(E, W)
    BY <1>1 DEF Surjection, Range
  <2> QED
    BY <1>1, <2>1, FS_Surjection
<1>3. /\ IsFiniteSet(S) /\ Cardinality(S) \in Nat /\ Cardinality(W) \in Nat /\ Cardinality(E) \in Nat
      /\ Cardinality(S) <= Cardinality(W) /\ (Cardinality(S) = Cardinality(W) => S = W)
  BY <1>1, <1>2, FS_Subset, FS_CardinalityType
<1>4. PICK s \in Nat, n \in Nat, t \in Nat : s = Cardinality(S) /\ n = Cardinality(W) /\ t = Cardinality(E)
  BY <1>3
<1>5. PICK I : I = {i \in DOMAIN win : win[i] \in S}
  OBVIOUS
<1>6. I \in SUBSET E /\ (I = E => S = W)
  BY <1>1, <1>5 DEF Range
<1>7. /\ IsFiniteSet(I) /\ Cardinality(I) \in Nat /\ Cardinality(I) <= t
      /\ (Cardinality(I) = t => S = W)
  BY <1>1, <1>4, <1>6, FS_Subset, FS_CardinalityType
<1>8. s >= 1 /\ s <= n
  BY <1>1, <1>3, <1>4, FS_EmptySet
<1>9. t >= 1
  BY <1>1, <1>3, <1>4, FS_EmptySet DEF Range
<1>10. PICK c \in Nat : c = Cardinality(I)
  BY <1>7
<1>11. c * n >= (3 * t) * s
  <2>1. \A w \in S : Cardinality(Group(win, w)) * n >= 3 * t
    BY <1>1, <1>4 DEF IsSpike
  <2> QED
    BY <1>3, <1>4, <1>5, <1>10, <2>1, WindowsTogether
<1>12. c <= t /\ (c = t => s = n)
  BY <1>4, <1>7, <1>10
<1>13. 3 * s < n
  <2> SUFFICES ASSUME 3 * s >= n PROVE FALSE
    OBVIOUS
  <2>1. (3 * t) * s = t * (3 * s)
    OBVIOUS
  <2>2. t * (3 * s) >= t * n
    OBVIOUS
  <2>3. CASE c = t
    <3>1. t * (3 * s) > t * n
      BY <1>8, <1>9, <1>12, <2>3
    <3> QED
      BY <1>11, <2>1, <2>3, <3>1
  <2>4. CASE c < t
    <3>1. c * n < t * n
      BY <1>8, <2>4
    <3> QED
      BY <1>11, <2>1, <2>2, <3>1
  <2> QED
    BY <1>12, <2>3, <2>4
<1> QED
  BY <1>1, <1>3, <1>4, <1>13

\* Windows of a minute: fewer than a third of them are spikes.
LEMMA TimeSpikesAreRare ==
  ASSUME NEW errs, IsFiniteSet(DOMAIN errs), TimeSpikes(errs) # {},
         NEW windows, windows = {errs[i].minute : i \in {i \in DOMAIN errs : errs[i].minute # 0}}
  PROVE  3 * Cardinality(TimeSpikes(errs)) < Cardinality(windows)
<1> DEFINE timed == {i \in DOMAIN errs : errs[i].minute # 0}
           of(m) == {i \in timed : errs[i].minute = m}
           spiky == {m \in windows : /\ Cardinality(windows) >= 2
                                     /\ IsSpike(Cardinality(of(m)), Cardinality(windows), Cardinality(timed))}
           Spike(m) == Finding("spike", <<m>>, Cardinality(of(m)), Min(of(m)), Max(of(m)))
<1>1. TimeSpikes(errs) = {Spike(m) : m \in spiky}
  BY Zenon DEF TimeSpikes
<1>2. PICK win : win = [i \in timed |-> errs[i].minute]
  OBVIOUS
<1>3. DOMAIN win = timed /\ Range(win) = windows
  BY <1>2 DEF Range
<1>4. IsFiniteSet(timed)
  BY FS_Subset
<1>5. \A m : of(m) = Group(win, m)
  BY <1>2 DEF Group
<1>6. \A m \in spiky : IsSpike(Cardinality(Group(win, m)), Cardinality(Range(win)), Cardinality(DOMAIN win))
  BY <1>3, <1>5
<1>7. spiky \in SUBSET Range(win)
  BY <1>3
<1> HIDE DEF spiky, Spike, timed, of
<1>8. spiky # {}
  BY <1>1
<1>9. IsFiniteSet(spiky) /\ 3 * Cardinality(spiky) < Cardinality(windows)
  BY <1>3, <1>4, <1>6, <1>7, <1>8, FewStandOut
<1>10. [m \in spiky |-> Spike(m)] \in Surjection(spiky, TimeSpikes(errs))
  BY <1>1 DEF Surjection
<1>11. IsFiniteSet(TimeSpikes(errs)) /\ Cardinality(TimeSpikes(errs)) <= Cardinality(spiky)
  BY <1>9, <1>10, FS_Surjection
<1>12. Cardinality(windows) \in Nat
  <2>1. [i \in timed |-> win[i]] \in Surjection(timed, windows)
    BY <1>3 DEF Surjection, Range
  <2> QED
    BY <1>4, <2>1, FS_Surjection, FS_CardinalityType
<1> QED
  BY <1>9, <1>11, <1>12, FS_CardinalityType

\* Windows of line numbers: fewer than a third of them are spikes.
LEMMA LineSpikesAreRare ==
  ASSUME NEW errs, IsFiniteSet(DOMAIN errs), NEW n, LineSpikes(errs, n) # {},
         NEW windows, windows = {i \div WindowSize(n) : i \in DOMAIN errs}
  PROVE  3 * Cardinality(LineSpikes(errs, n)) < Cardinality(windows)
<1> DEFINE size == WindowSize(n)
           of(w) == {i \in DOMAIN errs : i \div size = w}
           spiky == {w \in windows : IsSpike(Cardinality(of(w)), Cardinality(windows), Size(errs))}
           Spike(w) == Finding("spike", <<w>>, Cardinality(of(w)), w * size, (w + 1) * size - 1)
<1>1. LineSpikes(errs, n) = {Spike(w) : w \in spiky}
  BY Zenon DEF LineSpikes
<1>2. PICK win : win = [i \in DOMAIN errs |-> i \div size]
  OBVIOUS
<1>3. DOMAIN win = DOMAIN errs /\ Range(win) = windows
  <2> HIDE DEF size
  <2>1. windows = {i \div size : i \in DOMAIN errs}
    BY DEF size
  <2> QED
    BY <1>2, <2>1 DEF Range
<1>4. \A w : of(w) = Group(win, w)
  <2> HIDE DEF size
  <2> QED
    BY <1>2 DEF Group
<1>5. \A w \in spiky : IsSpike(Cardinality(Group(win, w)), Cardinality(Range(win)), Cardinality(DOMAIN win))
  BY <1>3, <1>4 DEF Size
<1>6. spiky \in SUBSET Range(win)
  BY <1>3
<1> HIDE DEF spiky, Spike, of, size
<1>7. spiky # {}
  BY <1>1
<1>8. IsFiniteSet(spiky) /\ 3 * Cardinality(spiky) < Cardinality(windows)
  BY <1>3, <1>5, <1>6, <1>7, FewStandOut
<1>9. [w \in spiky |-> Spike(w)] \in Surjection(spiky, LineSpikes(errs, n))
  BY <1>1 DEF Surjection
<1>10. IsFiniteSet(LineSpikes(errs, n)) /\ Cardinality(LineSpikes(errs, n)) <= Cardinality(spiky)
  BY <1>8, <1>9, FS_Surjection
<1>11. Cardinality(windows) \in Nat
  <2>1. [i \in DOMAIN errs |-> win[i]] \in Surjection(DOMAIN errs, windows)
    BY <1>3 DEF Surjection, Range
  <2> QED
    BY <2>1, FS_Surjection, FS_CardinalityType
<1> QED
  BY <1>8, <1>10, <1>11, FS_CardinalityType

\* A log whose errors fall into n windows has fewer than n / 3 spikes, for any
\* number of entries and windows.
THEOREM SpikesStandOut == Spec => []SpikesAreRare
<1>1. IInv => SpikesAreRare
  <2> DEFINE E == Errors(EntriesOf(job))
             M == {E[i].minute : i \in DOMAIN E} \ {0}
             L == {i \div WindowSize(Size(EntriesOf(job))) : i \in DOMAIN E}
             S == {f \in found : f.kind = "spike"}
  <2> SUFFICES ASSUME IInv, Detected("log"), S # {}
               PROVE  3 * Cardinality(S) < Cardinality(IF M # {} THEN M ELSE L)
    BY Zenon DEF SpikesAreRare
  <2>0. PICK es, errs, minutes, lines, spikes :
          /\ es = EntriesOf(job) /\ errs = Errors(es)
          /\ minutes = {errs[i].minute : i \in DOMAIN errs} \ {0}
          /\ lines = {i \div WindowSize(Size(es)) : i \in DOMAIN errs}
          /\ spikes = {f \in found : f.kind = "spike"} /\ spikes # {}
    OBVIOUS
  <2>00. M = minutes /\ L = lines /\ S = spikes
    BY <2>0
  <2> HIDE DEF E, M, L, S
  <2> SUFFICES 3 * Cardinality(spikes) < Cardinality(IF minutes # {} THEN minutes ELSE lines)
    BY <2>00, Zenon
  <2>1. IsFiniteSet(DOMAIN es)
    BY <2>0, FoundInLog, EntriesAre DEF EntriesOf
  <2>2. IsFiniteSet(DOMAIN errs)
    <3>1. DOMAIN errs \in SUBSET DOMAIN es
      BY <2>0 DEF Errors, Restrict
    <3> QED
      BY <2>1, <3>1, FS_Subset
  <2>3. spikes = Spikes(es)
    <3>1. found = Patterns(es) \cup Spikes(es) \cup Clusters(es)
      BY <2>0, FoundInLog
    <3>2. \A f \in Patterns(es) \cup Clusters(es) : f.kind # "spike"
      BY PatternsAre, ClustersAre
    <3> QED
      BY <2>0, <3>1, <3>2, SpikesAre
  <2>4. PICK n : n = Size(es)
    OBVIOUS
  <2>5. CASE \E i \in DOMAIN errs : errs[i].minute # 0
    <3>1. spikes = TimeSpikes(errs)
      BY <2>0, <2>3, <2>5 DEF Spikes
    <3>2. /\ minutes = {errs[i].minute : i \in {i \in DOMAIN errs : errs[i].minute # 0}}
          /\ minutes # {}
      BY <2>0, <2>5
    <3>3. 3 * Cardinality(TimeSpikes(errs)) < Cardinality(minutes)
      BY <2>0, <2>2, <3>1, <3>2, TimeSpikesAreRare
    <3> QED
      BY <3>1, <3>2, <3>3
  <2>6. CASE ~\E i \in DOMAIN errs : errs[i].minute # 0
    <3>1. spikes = LineSpikes(errs, n)
      BY <2>0, <2>3, <2>4, <2>6 DEF Spikes
    <3>2. minutes = {}
      BY <2>0, <2>6
    <3>3. 3 * Cardinality(LineSpikes(errs, n)) < Cardinality(lines)
      BY <2>0, <2>2, <2>4, <3>1, LineSpikesAreRare
    <3> QED
      BY <3>1, <3>2, <3>3
  <2> QED
    BY <2>5, <2>6
<1> QED
  BY <1>1, Invariance, PTL

-----------------------------------------------------------------------------
(* Costs.                                                                  *)

\* What the function that SumFunction iterates does: it takes an element out
\* of a set of indices and adds its value to the sum of the others.
Picked(s) == CHOOSE x \in s : TRUE
Adds(f, g, s) == g[s] = IF s = {} THEN 0 ELSE f[Picked(s)] + g[s \ {Picked(s)}]

\* Taking an element out of a set that is not empty makes it smaller.
LEMMA OneLess ==
  ASSUME NEW s, IsFiniteSet(s), s # {}
  PROVE  /\ Picked(s) \in s /\ IsFiniteSet(s \ {Picked(s)})
         /\ Cardinality(s) \in Nat /\ Cardinality(s) >= 1
         /\ Cardinality(s \ {Picked(s)}) = Cardinality(s) - 1
<1>1. Picked(s) \in s
  BY DEF Picked
<1>2. Cardinality(s) \in Nat /\ Cardinality(s) # 0
  BY FS_CardinalityType, FS_EmptySet
<1> QED
  BY <1>1, <1>2, FS_RemoveElement

\* There is such a function, for any finite number of indices.
LEMMA SumIsDefined ==
  ASSUME NEW f, IsFiniteSet(DOMAIN f), \A i \in DOMAIN f : f[i] \in Int
  PROVE  \E g : g = [s \in SUBSET DOMAIN f |->
                       IF s = {} THEN 0 ELSE f[Picked(s)] + g[s \ {Picked(s)}]]
<1> DEFINE Upto(n) == {s \in SUBSET DOMAIN f : Cardinality(s) <= n}
           bad == {n \in Nat : ~\E g \in [Upto(n) -> Int] : \A s \in Upto(n) : Adds(f, g, s)}
<1>1. \A s \in SUBSET DOMAIN f : IsFiniteSet(s)
  BY FS_Subset
<1>2. ASSUME bad # {} PROVE FALSE
  <2>1. PICK n \in bad : \A m \in bad : n <= m
    <3>1. Min(bad) \in bad /\ \A m \in bad : Min(bad) <= m
      <4>1. bad \subseteq Nat
        OBVIOUS
      <4> HIDE DEF bad
      <4> QED
        BY <1>2, <4>1, MinIs
    <3> QED
      BY <3>1
  <2>2. n \in Nat /\ ~\E g \in [Upto(n) -> Int] : \A s \in Upto(n) : Adds(f, g, s)
    BY <2>1
  <2>3. CASE n = 0
    <3>1. ASSUME NEW s \in Upto(0)
          PROVE  s = {}
      <4>1. IsFiniteSet(s) /\ Cardinality(s) \in Nat /\ Cardinality(s) <= 0
        BY <1>1, FS_CardinalityType
      <4>2. Cardinality(s) = 0
        BY <4>1
      <4> QED
        BY <4>1, <4>2, FS_EmptySet
    <3>2. PICK g : g = [s \in Upto(0) |-> 0]
      OBVIOUS
    <3>3. g \in [Upto(0) -> Int] /\ \A s \in Upto(0) : Adds(f, g, s)
      BY <3>1, <3>2 DEF Adds
    <3> QED
      BY <2>2, <2>3, <3>3
  <2>4. CASE n # 0
    <3>0. n \in Nat
      BY <2>2
    <3>1. n - 1 \in Nat /\ n - 1 \notin bad
      <4> HIDE DEF bad
      <4> QED
        BY <2>1, <2>4, <3>0
    <3>2. PICK h \in [Upto(n - 1) -> Int] : \A s \in Upto(n - 1) : Adds(f, h, s)
      BY <3>1
    <3>3. PICK g : g = [s \in Upto(n) |-> IF s = {} THEN 0 ELSE f[Picked(s)] + h[s \ {Picked(s)}]]
      OBVIOUS
    <3>4. ASSUME NEW s \in Upto(n), s # {}
          PROVE  Picked(s) \in DOMAIN f /\ s \ {Picked(s)} \in Upto(n - 1) /\ s \ {Picked(s)} \in Upto(n)
      <4>1. IsFiniteSet(s) /\ s \in SUBSET DOMAIN f /\ Cardinality(s) <= n
        BY <1>1
      <4>2. /\ Picked(s) \in s /\ Cardinality(s) \in Nat
            /\ Cardinality(s \ {Picked(s)}) = Cardinality(s) - 1
        BY <3>4, <4>1, OneLess
      <4>3. Cardinality(s \ {Picked(s)}) <= n - 1 /\ Cardinality(s \ {Picked(s)}) <= n
        BY <3>0, <4>1, <4>2
      <4> QED
        BY <4>1, <4>2, <4>3
    <3>5. \A s \in Upto(n - 1) : s \in Upto(n) /\ g[s] = h[s]
      <4>1. ASSUME NEW s \in Upto(n - 1)
            PROVE  s \in Upto(n) /\ g[s] = h[s]
        <5>1. s \in Upto(n)
          BY <1>1, <2>2, FS_CardinalityType
        <5>2. Adds(f, h, s)
          BY <3>2
        <5> HIDE DEF Upto
        <5> QED
          BY <3>3, <5>1, <5>2 DEF Adds
      <4> QED
        BY <4>1
    <3>6. g \in [Upto(n) -> Int]
      <4> SUFFICES ASSUME NEW s \in Upto(n)
                   PROVE  g[s] \in Int
        BY <3>3
      <4> HIDE DEF Upto
      <4> QED
        BY <3>2, <3>3, <3>4
    <3>7. \A s \in Upto(n) : Adds(f, g, s)
      <4> HIDE DEF Upto
      <4> QED
        BY <3>3, <3>4, <3>5 DEF Adds
    <3> QED
      BY <2>2, <3>6, <3>7
  <2> QED
    BY <2>3, <2>4
<1>3. PICK n \in Nat : n = Cardinality(DOMAIN f)
  BY FS_CardinalityType
<1>4. Upto(n) = SUBSET DOMAIN f
  BY <1>3, FS_Subset
<1>5. PICK g \in [SUBSET DOMAIN f -> Int] : \A s \in SUBSET DOMAIN f : Adds(f, g, s)
  <2> HIDE DEF Upto
  <2> QED
    BY <1>2, <1>4
<1>6. g = [s \in SUBSET DOMAIN f |-> IF s = {} THEN 0 ELSE f[Picked(s)] + g[s \ {Picked(s)}]]
  BY <1>5 DEF Adds
<1> QED
  BY <1>6

\* A sum of integers is that of an iteration over the sets of indices.
LEMMA SumIterates ==
  ASSUME NEW f, IsFiniteSet(DOMAIN f), \A i \in DOMAIN f : f[i] \in Int
  PROVE  \E g : /\ SumFunction(f) = g[DOMAIN f]
                /\ \A s \in SUBSET DOMAIN f : Adds(f, g, s)
<1> DEFINE Body(g) == [s \in SUBSET DOMAIN f |-> IF s = {} THEN 0 ELSE f[Picked(s)] + g[s \ {Picked(s)}]]
<1>1. PICK g : g = CHOOSE h : h = Body(h)
  OBVIOUS
<1>2. g = Body(g)
  <2>1. \E h : h = Body(h)
    BY SumIsDefined
  <2> HIDE DEF Body
  <2> QED
    BY <1>1, <2>1
<1>3. SumFunction(f) = g[DOMAIN f]
  BY <1>1, Zenon DEF SumFunction, SumFunctionOnSet, FoldFunctionOnSet, MapThenFoldSet, Picked
<1> QED
  BY <1>2, <1>3 DEF Adds

\* Of sets of a finite set, one that has a property has it with the least size.
LEMMA LeastSet ==
  ASSUME NEW D, IsFiniteSet(D), NEW sets \in SUBSET SUBSET D, sets # {}
  PROVE  \E s \in sets : \A t \in sets : Cardinality(s) <= Cardinality(t)
<1> DEFINE sizes == {Cardinality(s) : s \in sets}
<1>1. \A s \in sets : Cardinality(s) \in Nat
  <2>1. ASSUME NEW s \in sets PROVE Cardinality(s) \in Nat
    BY FS_Subset, FS_CardinalityType
  <2> QED
    BY <2>1
<1>2. sizes \subseteq Nat /\ sizes # {}
  BY <1>1
<1>3. Min(sizes) \in sizes /\ \A y \in sizes : Min(sizes) <= y
  <2> HIDE DEF sizes
  <2> QED
    BY <1>2, MinIs
<1> QED
  BY <1>3

\* A sum is as large as its parts allow; it is positive if they are not
\* negative and one of them is positive.
LEMMA SumBounds ==
  ASSUME NEW f, IsFiniteSet(DOMAIN f), NEW lo \in Int, NEW hi \in Int,
         \A i \in DOMAIN f : f[i] \in Int /\ lo <= f[i] /\ f[i] <= hi
  PROVE  /\ SumFunction(f) \in Int
         /\ lo * Cardinality(DOMAIN f) <= SumFunction(f)
         /\ SumFunction(f) <= hi * Cardinality(DOMAIN f)
         /\ lo >= 0 /\ (\E i \in DOMAIN f : f[i] > 0) => SumFunction(f) > 0
<1>1. PICK g : /\ SumFunction(f) = g[DOMAIN f]
               /\ \A s \in SUBSET DOMAIN f : Adds(f, g, s)
  BY SumIterates
<1> DEFINE Fine(s) == /\ g[s] \in Int
                      /\ lo * Cardinality(s) <= g[s] /\ g[s] <= hi * Cardinality(s)
                      /\ lo >= 0 /\ (\E i \in s : f[i] > 0) => g[s] > 0
           bad == {s \in SUBSET DOMAIN f : ~Fine(s)}
<1>2. ASSUME bad # {} PROVE FALSE
  <2>1. PICK s \in bad : \A t \in bad : Cardinality(s) <= Cardinality(t)
    <3>1. bad \in SUBSET SUBSET DOMAIN f
      OBVIOUS
    <3> HIDE DEF bad
    <3> QED
      BY <1>2, <3>1, LeastSet
  <2>2. s \in SUBSET DOMAIN f /\ ~Fine(s) /\ IsFiniteSet(s)
    BY <2>1, FS_Subset
  <2>3. CASE s = {}
    <3>1. g[s] = 0 /\ Cardinality(s) = 0
      BY <1>1, <2>2, <2>3, FS_EmptySet DEF Adds
    <3> QED
      BY <2>2, <2>3, <3>1
  <2>4. CASE s # {}
    <3>1. PICK p, t : p = Picked(s) /\ t = s \ {p}
      OBVIOUS
    <3>2. /\ p \in s /\ Cardinality(s) \in Nat /\ Cardinality(s) >= 1
          /\ Cardinality(t) = Cardinality(s) - 1
      BY <2>2, <2>4, <3>1, OneLess
    <3>3. t \in SUBSET DOMAIN f /\ Fine(t)
      <4>1. t \in SUBSET DOMAIN f
        BY <2>2, <3>1
      <4>2. t \notin bad
        <5> HIDE DEF bad
        <5> QED
          BY <2>1, <3>2
      <4> QED
        BY <4>1, <4>2
    <3>4. g[s] = f[p] + g[t]
      BY <1>1, <2>2, <2>4, <3>1 DEF Adds
    <3>5. PICK k \in Nat, x \in Int, y \in Int :
            k = Cardinality(t) /\ x = f[p] /\ y = g[t] /\ Cardinality(s) = k + 1
      BY <2>2, <3>2, <3>3
    <3>6. lo <= x /\ x <= hi /\ lo * k <= y /\ y <= hi * k
      BY <2>2, <3>2, <3>3, <3>5
    <3>7. lo * (k + 1) <= x + y /\ x + y <= hi * (k + 1)
      <4>1. lo * (k + 1) = lo * k + lo /\ hi * (k + 1) = hi * k + hi
        OBVIOUS
      <4>2. PICK a \in Int, b \in Int : a = lo * k /\ b = hi * k
        OBVIOUS
      <4> QED
        BY <3>6, <4>1, <4>2
    <3>8. ASSUME lo >= 0, NEW i \in s, f[i] > 0
          PROVE  x + y > 0
      <4>1. lo * k >= 0
        BY <3>8
      <4>2. x >= 0 /\ y >= 0
        BY <3>6, <3>8, <4>1
      <4>3. CASE i = p
        BY <3>5, <3>8, <4>2, <4>3
      <4>4. CASE i # p
        <5>1. i \in t
          BY <3>1, <3>8, <4>4
        <5>2. y > 0
          BY <3>3, <3>5, <3>8, <5>1
        <5> QED
          BY <4>2, <5>2
      <4> QED
        BY <4>3, <4>4
    <3>9. g[s] = x + y /\ Cardinality(s) = k + 1
      BY <3>4, <3>5
    <3>10. Fine(s)
      BY <3>7, <3>8, <3>9
    <3> QED
      BY <2>2, <3>10
  <2> QED
    BY <2>3, <2>4
<1>3. Fine(DOMAIN f)
  BY <1>2
<1> QED
  BY <1>1, <1>3

\* A finite set of integers has a smallest and a greatest element.
LEMMA IntExtremes ==
  ASSUME NEW D, IsFiniteSet(D), D \subseteq Int, D # {}
  PROVE  /\ Min(D) \in D /\ \A y \in D : Min(D) <= y
         /\ Max(D) \in D /\ \A y \in D : y <= Max(D)
<1> DEFINE Bounded(s) == \E lo, hi \in s : \A y \in s : lo <= y /\ y <= hi
           bad == {s \in SUBSET D : s # {} /\ ~Bounded(s)}
<1>1. ASSUME bad # {} PROVE FALSE
  <2>1. PICK s \in bad : \A t \in bad : Cardinality(s) <= Cardinality(t)
    <3>1. bad \in SUBSET SUBSET D
      OBVIOUS
    <3> HIDE DEF bad
    <3> QED
      BY <1>1, <3>1, LeastSet
  <2>2. s \in SUBSET D /\ s # {} /\ ~Bounded(s) /\ IsFiniteSet(s)
    BY <2>1, FS_Subset
  <2>3. PICK p, t : p = Picked(s) /\ t = s \ {p}
    OBVIOUS
  <2>4. p \in s /\ Cardinality(s) \in Nat /\ Cardinality(t) = Cardinality(s) - 1
    BY <2>2, <2>3, OneLess
  <2>5. t \notin bad
    <3> HIDE DEF bad
    <3> QED
      BY <2>1, <2>4
  <2>6. CASE t = {}
    <3>1. \A y \in s : y = p /\ p \in Int
      BY <2>2, <2>3, <2>4, <2>6
    <3>2. Bounded(s)
      BY <2>4, <3>1
    <3> QED
      BY <2>2, <3>2
  <2>7. CASE t # {}
    <3>1. PICK lo \in t, hi \in t : \A y \in t : lo <= y /\ y <= hi
      BY <2>2, <2>3, <2>5, <2>7
    <3>2. lo \in s /\ hi \in s /\ lo \in Int /\ hi \in Int /\ p \in Int /\ \A y \in s : y \in t \/ y = p
      BY <2>2, <2>3, <2>4
    <3>3. PICK a \in s, b \in s : a <= lo /\ a <= p /\ hi <= b /\ p <= b /\ a \in Int /\ b \in Int
      <4>1. PICK a \in s : a <= lo /\ a <= p /\ a \in Int
        BY <2>4, <3>2
      <4>2. PICK b \in s : hi <= b /\ p <= b /\ b \in Int
        BY <2>4, <3>2
      <4> QED
        BY <4>1, <4>2
    <3>4. \A y \in s : a <= y /\ y <= b
      <4>1. ASSUME NEW y \in s PROVE a <= y /\ y <= b
        <5>1. y \in Int
          BY <2>2
        <5>2. y = p \/ (lo <= y /\ y <= hi)
          BY <3>1, <3>2
        <5>3. CASE y = p
          BY <3>3, <5>3
        <5>4. CASE lo <= y /\ y <= hi
          <6>1. lo \in Int /\ hi \in Int /\ a \in Int /\ b \in Int /\ a <= lo /\ hi <= b
            BY <3>2, <3>3
          <6>2. \A u, v, x \in Int : u <= v /\ v <= x => u <= x
            OBVIOUS
          <6> QED
            BY <5>1, <5>4, <6>1, <6>2, Zenon
        <5> QED
          BY <5>2, <5>3, <5>4
      <4> QED
        BY <4>1
    <3> QED
      BY <2>2, <3>4
  <2> QED
    BY <2>6, <2>7
<1>2. Bounded(D)
  BY <1>1
<1>3. PICK lo, hi \in D : \A y \in D : lo <= y /\ y <= hi
  BY <1>2
<1> QED
  BY <1>3 DEF Min, Max

\* What the cost of a service is, day by day.
LEMMA CostsAre ==
  ASSUME NEW j \in CostJobs, NEW s
  PROVE  LET costs == CostsOf(s, j.answer) IN
         /\ costs \in Seq(Int) /\ DOMAIN costs = 1..Len(costs)
<1>1. PICK n \in Nat : DOMAIN j.answer = 1..n
  BY VerdictsAssumption
<1>2. CostsOf(s, j.answer) \in [1..n -> Int]
  BY <1>1, VerdictsAssumption DEF CostsOf
<1> QED
  BY <1>1, <1>2

\* The window is the seven days before the last one.
LEMMA WindowIs ==
  ASSUME NEW costs \in Seq(Int), NEW n \in Nat, n = Len(costs), n >= 8
  PROVE  /\ DOMAIN Window(costs) = 1..7
         /\ \A i \in 1..7 : Window(costs)[i] = costs[n - 8 + i] /\ n - 8 + i \in (n - 7)..(n - 1)
<1>1. PICK w : w = SubSeq(costs, n - 7, n - 1)
  OBVIOUS
<1>2. n - 7 \in 1..(Len(costs) + 1) /\ n - 1 \in ((n - 7) - 1)..Len(costs)
  OBVIOUS
<1>3. (n - 1) - (n - 7) + 1 = 7
  OBVIOUS
<1>4. w \in Seq(Int) /\ Len(w) = 7 /\ \A i \in 1..7 : w[i] = costs[(n - 7) + i - 1]
  BY <1>1, <1>2, <1>3, SubSeqProperties
<1>5. \A i \in 1..7 : (n - 7) + i - 1 = n - 8 + i /\ n - 8 + i \in (n - 7)..(n - 1)
  OBVIOUS
<1>6. w = Window(costs)
  BY <1>1 DEF Window, RollingWindow
<1> QED
  BY <1>4, <1>5, <1>6

\* A week has seven days.
LEMMA Seven == IsFiniteSet(1..7) /\ Cardinality(1..7) = 7
<1>1. \A a, b \in Int : IsFiniteSet(a..b) /\ Cardinality(a..b) = IF a > b THEN 0 ELSE b - a + 1
  BY FS_Interval
<1>2. 1 \in Int /\ 7 \in Int /\ (IF 1 > 7 THEN 0 ELSE 7 - 1 + 1) = 7
  OBVIOUS
<1> QED
  BY <1>1, <1>2, Zenon

\* What seven days cost together, with the least and the most that one costs.
LEMMA SevenDays ==
  ASSUME NEW w, DOMAIN w = 1..7, \A i \in 1..7 : w[i] \in Int
  PROVE  /\ SumFunction(w) \in Int /\ Min(Range(w)) \in Int /\ Max(Range(w)) \in Int
         /\ 7 * Min(Range(w)) <= SumFunction(w) /\ SumFunction(w) <= 7 * Max(Range(w))
         /\ Min(Range(w)) >= 0 /\ (\E i \in 1..7 : w[i] > 0) => SumFunction(w) > 0
<1>1. PICK week : week = Range(w)
  OBVIOUS
<1>2. week \subseteq Int /\ week # {} /\ (\A i \in 1..7 : w[i] \in week)
  <2>1. 1 \in 1..7
    OBVIOUS
  <2> QED
    BY <1>1, <2>1 DEF Range
<1>3. IsFiniteSet(week)
  <2>1. [i \in 1..7 |-> w[i]] \in Surjection(1..7, week)
    BY <1>1 DEF Surjection, Range
  <2> QED
    BY <2>1, Seven, FS_Surjection
<1>4. /\ Min(week) \in week /\ \A y \in week : Min(week) <= y
      /\ Max(week) \in week /\ \A y \in week : y <= Max(week)
  BY <1>2, <1>3, IntExtremes
<1>5. PICK lo \in Int, hi \in Int : lo = Min(week) /\ hi = Max(week)
  BY <1>2, <1>4
<1>6. \A i \in 1..7 : lo <= w[i] /\ w[i] <= hi
  BY <1>2, <1>4, <1>5
<1>7. /\ SumFunction(w) \in Int
      /\ lo * 7 <= SumFunction(w) /\ SumFunction(w) <= hi * 7
      /\ lo >= 0 /\ (\E i \in 1..7 : w[i] > 0) => SumFunction(w) > 0
  BY <1>6, Seven, SumBounds
<1> QED
  BY <1>1, <1>5, <1>7

\* Two functions that take the same values.
LEMMA SameImage ==
  ASSUME NEW f, NEW g, NEW S, NEW T,
         \A i \in S : \E d \in T : f[i] = g[d], \A d \in T : \E i \in S : f[i] = g[d]
  PROVE  {f[i] : i \in S} = {g[d] : d \in T}
  OBVIOUS

\* The days before the last one by their number in the week.
LEMMA DaysOfWeek ==
  ASSUME NEW n \in Nat, n >= 8, NEW d \in (n - 7)..(n - 1)
  PROVE  d \in 1..n /\ d - n + 8 \in 1..7 /\ n - 8 + (d - n + 8) = d
  OBVIOUS

\* What the days before the last one cost together.
LEMMA WeekIs ==
  ASSUME NEW costs \in Seq(Int), NEW n \in Nat, n = Len(costs), n >= 8
  PROVE  LET sum  == SumFunction(Window(costs))
             week == {costs[d] : d \in (n - 7)..(n - 1)}
         IN /\ sum \in Int /\ Min(week) \in Int /\ Max(week) \in Int
            /\ 7 * Min(week) <= sum /\ sum <= 7 * Max(week)
            /\ Min(week) >= 0 /\ (\E d \in (n - 7)..(n - 1) : costs[d] > 0) => sum > 0
<1>1. PICK w : w = Window(costs)
  OBVIOUS
<1>2. /\ DOMAIN w = 1..7
      /\ \A i \in 1..7 : w[i] = costs[n - 8 + i] /\ n - 8 + i \in (n - 7)..(n - 1)
  BY <1>1, WindowIs
<1>3. \A d \in (n - 7)..(n - 1) : d \in 1..n /\ d - n + 8 \in 1..7 /\ n - 8 + (d - n + 8) = d
  BY DaysOfWeek
<1>4. \A d \in (n - 7)..(n - 1) : d - n + 8 \in 1..7 /\ w[d - n + 8] = costs[d]
  BY <1>2, <1>3
<1>5. Range(w) = {costs[d] : d \in (n - 7)..(n - 1)}
  <2>1. PICK days, seven : days = (n - 7)..(n - 1) /\ seven = 1..7
    OBVIOUS
  <2>2. /\ \A i \in seven : \E d \in days : w[i] = costs[d]
        /\ \A d \in days : \E i \in seven : w[i] = costs[d]
    BY <1>2, <1>4, <2>1
  <2>3. Range(w) = {w[i] : i \in seven}
    BY <1>2, <2>1 DEF Range
  <2>4. {w[i] : i \in seven} = {costs[d] : d \in days}
    BY <2>2, SameImage
  <2> QED
    BY <2>1, <2>3, <2>4
<1>6. \A i \in 1..7 : w[i] \in Int
  <2>1. \A d \in 1..n : costs[d] \in Int
    OBVIOUS
  <2> QED
    BY <1>2, <1>3, <2>1
<1>7. (\E d \in (n - 7)..(n - 1) : costs[d] > 0) => \E i \in 1..7 : w[i] > 0
  BY <1>4
<1>8. /\ SumFunction(w) \in Int /\ Min(Range(w)) \in Int /\ Max(Range(w)) \in Int
      /\ 7 * Min(Range(w)) <= SumFunction(w) /\ SumFunction(w) <= 7 * Max(Range(w))
      /\ Min(Range(w)) >= 0 /\ (\E i \in 1..7 : w[i] > 0) => SumFunction(w) > 0
  BY <1>2, <1>6, SevenDays
<1> QED
  BY <1>1, <1>5, <1>7, <1>8

\* A flagged service is dearer than on its cheapest day, and one that is dearer
\* than on its dearest day is flagged, for any costs, negative ones included.
THEOREM AnomaliesBracketed == Spec => []AnomalyBracketed
<1>1. IInv => AnomalyBracketed
  <2> DEFINE Costs(s) == CostsOf(s, job.answer)
             Days(s) == (Len(Costs(s)) - 7)..(Len(Costs(s)) - 1)
             Week(s) == {Costs(s)[d] : d \in Days(s)}
             LastDay(s) == Costs(s)[Len(Costs(s))]
  <2> SUFFICES ASSUME IInv, Detected("cost"), exit # 1, NEW s \in RecordsOf(job.answer)
               PROVE  IF Len(Costs(s)) < 8 THEN s \notin found
                      ELSE /\ s \in found => LastDay(s) > Min(Week(s)) + 500
                           /\ /\ \E d \in Days(s) : Costs(s)[d] > 0
                              /\ Min(Week(s)) >= 0
                              /\ LastDay(s) > Max(Week(s)) + 500 /\ 5 * LastDay(s) > 6 * Max(Week(s))
                              => s \in found
    BY Zenon DEF AnomalyBracketed
  <2>0. PICK costs, n, week : /\ costs = CostsOf(s, job.answer) /\ n = Len(costs)
                              /\ week = {costs[d] : d \in (n - 7)..(n - 1)}
    OBVIOUS
  <2> SUFFICES IF n < 8 THEN s \notin found
               ELSE /\ s \in found => costs[n] > Min(week) + 500
                    /\ /\ \E d \in (n - 7)..(n - 1) : costs[d] > 0
                       /\ Min(week) >= 0
                       /\ costs[n] > Max(week) + 500 /\ 5 * costs[n] > 6 * Max(week)
                       => s \in found
    BY <2>0
  <2> HIDE DEF Costs, Days, Week, LastDay
  <2>1. job \in CostJobs /\ found = CostAnomalies(job.answer)
    BY JobOfCommand DEF IInv, FoundInv, Detected
  <2>2. costs \in Seq(Int) /\ n \in Nat /\ DOMAIN costs = 1..n
    BY <2>0, <2>1, CostsAre
  <2>3. s \in found <=> IsAnomaly(costs)
    BY <2>0, <2>1 DEF CostAnomalies
  <2>4. CASE n < 8
    BY <2>0, <2>2, <2>3, <2>4 DEF IsAnomaly, RollingWindow
  <2>5. CASE n >= 8
    <3>1. PICK sum : sum = SumFunction(Window(costs))
      OBVIOUS
    <3>2. PICK lo, hi : lo = Min(week) /\ hi = Max(week)
      OBVIOUS
    <3>3. /\ sum \in Int /\ lo \in Int /\ hi \in Int /\ 7 * lo <= sum /\ sum <= 7 * hi
          /\ lo >= 0 /\ (\E d \in (n - 7)..(n - 1) : costs[d] > 0) => sum > 0
      BY <2>0, <2>2, <2>5, <3>1, <3>2, WeekIs
    <3>4. PICK last \in Int : last = costs[n]
      BY <2>2, <2>5
    <3>5. s \in found <=> sum > 0 /\ 5 * (7 * last - sum) > sum /\ 7 * last - sum > 7 * 500
      <4>1. Last(costs) = last
        BY <2>0, <3>4 DEF Last
      <4> QED
        BY <2>0, <2>2, <2>3, <2>5, <3>1, <4>1 DEF IsAnomaly, RollingWindow, ThresholdAbs
    <3>6. s \in found => last > lo + 500
      BY <3>3, <3>5
    <3>7. sum > 0 /\ last > hi + 500 /\ 5 * last > 6 * hi => s \in found
      BY <3>3, <3>5
    <3> QED
      BY <2>2, <2>5, <3>2, <3>3, <3>4, <3>6, <3>7
  <2> QED
    BY <2>2, <2>4, <2>5
<1> QED
  BY <1>1, Invariance, PTL
=============================================================================
