------------------------------ MODULE MCVerdicts ------------------------------
(* Inputs of the judging commands: for each rule the cases on both sides of  *)
(* its boundaries.                                                           *)
EXTENDS Verdicts

-----------------------------------------------------------------------------
(* Logs.                                                                     *)

Line(shape, word, text, args, minute) ==
  [shape |-> shape, word |-> word, text |-> text, args |-> args, minute |-> minute]

LogJob(lines, since, level) == [cmd |-> "log", lines |-> lines, since |-> since, level |-> level]

\* Four times ten lines that begin with n errors, with times or without: the
\* smallest number of windows in which one can hold three times the average.
\* Odd tens hold one message with a variable part, even tens one without.
Ten(n, k, timed) ==
  [i \in 1..10 |-> Line("plain", IF i <= n THEN "ERROR" ELSE "INFO",
                        IF k % 2 = 0 THEN "net" ELSE "disk",
                        CASE k = 1 -> "1" [] k = 3 -> "3" [] OTHER -> "", IF timed THEN k ELSE 0)]

Bursts ==
  {LogJob(FlattenSeq([k \in 1..4 |-> Ten(n[k], k, timed)]), 0, "") :
     n \in [1..4 -> {0, 1, 2, 9}], timed \in BOOLEAN}

\* Three groups of two or three equal lines a minute apart.
Equal(n, word, args, k) == [i \in 1..n |-> Line("plain", word, "disk", args, k)]

Repeats ==
  {LogJob(FlattenSeq([k \in 1..3 |-> Equal(g[k][1], g[k][2], g[k][3], k)]), since, level) :
     g \in [1..3 -> {2, 3} \X {"ERROR", "WARN"} \X {"", "1", "2"}],
     <<since, level>> \in {<<0, "">>, <<2, "error">>}}

\* Two groups of three lines whose shapes need not be the same.
Mixtures ==
  {LogJob(FlattenSeq([k \in 1..2 |-> [i \in 1..3 |-> Line(g[k][1], g[k][2], "disk", "1", k)]]), since, level) :
     g \in [1..2 -> ({"json", "syslog", "plain"} \X {"CRITICAL", "ERROR", "DEBUG", "", "odd"})
                     \cup ({"nginx", "blank"} \X {"ERROR", "WARN", "INFO"})],
     since \in {0, 2}, level \in {"", "warn", "error"}}

\* The other words for a level; lines of nothing but a time between others.
OtherWords ==
  {LogJob([i \in 1..6 |-> Line("json", IF i % 2 = 0 THEN w1 ELSE w2, "disk", "1", 1)], 0, level) :
     w1 \in {"EMERG", "ALERT", "CRIT", "ERR", "NOTICE", "VERBOSE"}, w2 \in {"CRITICAL", "ERROR"},
     level \in {"", "error"}}

Wordless ==
  {LogJob([i \in 1..n |-> IF i \in bare THEN Line("plain", "", "", "", 1) ELSE Line("plain", "ERROR", text, "1", 1)],
          0, "") :
     n \in {4, 5}, bare \in SUBSET {1, 3, 4}, text \in {"", "disk"}}

MCLogJobs == Bursts \cup Repeats \cup Mixtures \cup OtherWords \cup Wordless

-----------------------------------------------------------------------------
(* Pods.                                                                     *)

Contexts(privileged) ==
  [privileged : privileged, uid : {"unset", "0", "1000"}, nonRoot : {"unset", "true", "false"}]
    \cup {NoContext}

Container(list, context, limits, image) ==
  [list |-> list, context |-> context, limits |-> limits, probe |-> limits, image |-> image,
   requests |-> limits, liveness |-> limits]

Pod(host, paths, context, containers) ==
  [hostNetwork |-> host, hostPID |-> host, hostPaths |-> paths,
   context |-> context, containers |-> containers]

Lists == {"app", "init", "ephemeral"}

\* One container with every pair of contexts; two with every pair of images.
MCPods ==
  {Pod(host, 0, context, <<Container(list, own, limits, "pinned")>>) :
     host \in BOOLEAN, context \in Contexts({"unset"}), list \in Lists,
     own \in Contexts({"unset", "true"}), limits \in BOOLEAN}
  \cup
  {Pod(FALSE, paths, NoContext, <<Container(l1, NoContext, TRUE, i1), Container(l2, NoContext, TRUE, i2)>>) :
     paths \in {0, 2}, l1 \in Lists, l2 \in Lists,
     i1 \in {"", "untagged", "latest", "pinned"}, i2 \in {"latest", "pinned"}}

Manifest(kind, name, api, replicas, pod) ==
  [parses |-> TRUE, kind |-> kind, name |-> name, api |-> api, replicas |-> replicas,
   spec |-> [p \in Places |-> IF p = ApiPlace(kind) THEN pod ELSE EmptyPod]]

MCManifestJobs ==
  {[cmd |-> "live", pod |-> pod] : pod \in MCPods}
  \cup {[cmd |-> "local", manifest |-> Manifest(kind, "m", "v1", 1, pod)] :
          kind \in Workloads, pod \in MCPods}
  \cup {[cmd |-> "local", manifest |-> m] :
          m \in {Manifest("List", "m", "v1", 0, EmptyPod), Manifest("", "m", "v1", 0, EmptyPod),
                 [Manifest("Pod", "m", "v1", 0, EmptyPod) EXCEPT !.parses = FALSE]}}

-----------------------------------------------------------------------------
(* Costs.                                                                    *)

Today == 100

\* A week with k days at one cost and the rest at another, its next day, and
\* `before` days that must not count.
Costs(before, k, a, b, last) ==
  [i \in 1..before |-> 9000] \o [i \in 1..7 |-> IF i <= k THEN a ELSE b] \o <<last>>

\* The second service has a steep rise, or the same costs, or appears only on
\* the last day, or is not there.
Answer(costs, other) ==
  [d \in DOMAIN costs |->
     CASE other = "rise" -> [s \in {"a", "b"} |->
              IF s = "a" THEN costs[d] ELSE IF d = Len(costs) THEN 3000 ELSE 100]
       [] other = "same" -> [s \in {"a", "b"} |-> costs[d]]
       [] other = "new" /\ d = Len(costs) -> [s \in {"a", "b"} |-> IF s = "a" THEN costs[d] ELSE 9000]
       [] OTHER -> [s \in {"a"} |-> costs[d]]]

CostJob(provider, answers, since, answer) ==
  [cmd |-> "cost", provider |-> provider, answers |-> answers,
   since |-> since, today |-> Today, answer |-> answer]

MCCostJobs ==
  {CostJob("aws", TRUE, IF before = 22 THEN 0 ELSE 91 - before,
           Answer(Costs(before, k, a, b, last), other)) :
     before \in {0, 1, 22}, k \in {1, 6}, a \in {-300, 0, 100, 2000, 3000}, b \in {0, 100, 2000, 3000},
     last \in {0, 600, 601, 2500, 2501, 3600, 3601}, other \in {"none", "rise", "same", "new"}}
  \cup {CostJob("aws", TRUE, 92, Answer([i \in 1..7 |-> c], "new")) : c \in {0, 3000}}
  \cup {CostJob(p, ok, 91, Answer(Costs(0, 7, 100, 100, 3000), "none")) :
          p \in {"", "aws", "gcp", "other"}, ok \in BOOLEAN}

-----------------------------------------------------------------------------
(* Infrastructure.                                                           *)

Tool(there, ok, json, plan, releases, lines) ==
  [found |-> there, ok |-> ok, json |-> json, plan |-> plan, releases |-> releases, lines |-> lines]
Plan(json, versioned, changes) == [json |-> json, versioned |-> versioned, changes |-> changes]
NoPlan == Plan(FALSE, FALSE, <<>>)
NoTool == Tool(FALSE, FALSE, FALSE, NoPlan, <<>>, <<>>)

Target(path, exists, dir, chart, ext, plan, files) ==
  [path |-> path, exists |-> exists, readable |-> TRUE, dir |-> dir, chart |-> chart, ext |-> ext,
   plan |-> plan, files |-> files]

InfraJob(type, target, tool) == [cmd |-> "infra", type |-> type, target |-> target, tool |-> tool]

Changes ==
  [class : {"data", "iam", "network", "other"},
   actions : {<<>>, <<"no-op">>, <<"read">>, <<"create">>, <<"update">>, <<"delete">>, <<"delete", "create">>}]

Plans == {Plan(TRUE, FALSE, c) : c \in UNION {[1..n -> Changes] : n \in 1..2}}
         \cup {NoPlan, Plan(TRUE, FALSE, <<>>), Plan(TRUE, TRUE, <<>>)}

PlanJobs ==
  {InfraJob("", Target("t", TRUE, FALSE, FALSE, ".json", plan, {}), NoTool) : plan \in Plans}
  \cup {InfraJob("", Target("t", TRUE, FALSE, FALSE, ".tfplan", NoPlan, {}), Tool(there, ok, TRUE, plan, <<>>, <<>>)) :
          there \in BOOLEAN, ok \in BOOLEAN, plan \in {p \in Plans : Len(p.changes) < 2}}

HelmJobs ==
  {InfraJob(type, Target(path, path # "", TRUE, path = "t", "", NoPlan, {}),
            Tool(there, ok, json, NoPlan, releases, lines)) :
     type \in {"", "helm"}, path \in {"", ".", "t"}, there \in BOOLEAN, ok \in BOOLEAN, json \in BOOLEAN,
     releases \in {<<>>, <<"deployed">>, <<"deployed", "superseded">>, <<"superseded", "failed">>},
     lines \in UNION {[1..n -> {"ERROR", "WARNING", "INFO", "other"}] : n \in 0..2}}

Files ==
  {[name |-> "f", where |-> where, yaml |-> yaml, readable |-> readable, docs |-> docs] :
     where \in {"walked", "skipped", "unreadable"}, yaml \in BOOLEAN, readable \in BOOLEAN,
     docs \in {<<>>,
               <<Manifest("Deployment", "m", "v1", 1, EmptyPod)>>,
               <<[Manifest("Pod", "", "v1", 0, EmptyPod) EXCEPT !.parses = FALSE],
                 Manifest("Pod", "m", "deprecated", 0, EmptyPod)>>,
               <<Manifest("Pod", "m", "v1", 0, Pod(FALSE, 0, NoContext,
                   <<Container("app", NoContext, TRUE, "latest")>>))>>}}

Walked == {[f EXCEPT !.name = "g"] : f \in {f \in Files : f.where = "walked" /\ f.yaml}}

FileJobs ==
  {InfraJob(type, Target("t", exists, TRUE, FALSE, "", NoPlan, {f, g}), NoTool) :
     type \in {"", "k8s", "odd", "terraform"}, exists \in BOOLEAN, f \in Files, g \in Walked}
  \cup {InfraJob("", Target("t", TRUE, FALSE, FALSE, ".yaml", NoPlan, {f}), NoTool) : f \in Files}

\* The same with a target that does not open.
Closed(j) == [j EXCEPT !.target.readable = FALSE]

MCInfraJobs ==
  PlanJobs \cup HelmJobs \cup FileJobs
    \cup {Closed(j) : j \in {j \in PlanJobs \cup FileJobs : j.target.path = "t" /\ j.target.exists}}
=============================================================================
