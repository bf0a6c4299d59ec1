-------------------------------- MODULE PodRules --------------------------------
(***************************************************************************)
(* The rules about pods and their containers, which tend holds three       *)
(* times: `security audit` has them for manifests (k8s_local.go) and for   *)
(* the pods of a cluster (k8s_live.go), `infra validate` has others, of    *)
(* which one is the same, for manifests (k8s_yaml.go).                     *)
(* A manifest parses or does not; it has a kind, a name, an apiVersion     *)
(* that may be deprecated, replicas and spec[place], the pod spec at each  *)
(* of three places.                                                        *)
(* A security context is a record, "unset" where a field is not given, or  *)
(* NoContext, which only a pod of the cluster can have.                    *)
(***************************************************************************)
EXTENDS Integers, Sequences, FiniteSets, SequencesExt

NoContext == [privileged |-> "unset", uid |-> "unset", nonRoot |-> "nil context"]

Places == {"spec", "template", "jobTemplate"}
EmptyPod == [hostNetwork |-> FALSE, hostPID |-> FALSE, hostPaths |-> 0,
             context |-> [privileged |-> "unset", uid |-> "unset", nonRoot |-> "unset"],
             containers |-> <<>>]

\* What a pod, its containers and a manifest are.
Flags == {"unset", "true", "false"}
SecurityContexts == {NoContext} \cup [privileged : Flags, uid : STRING, nonRoot : Flags]
ContainerSpecs ==
  [list : {"app", "init", "ephemeral"}, context : SecurityContexts, limits : BOOLEAN, probe : BOOLEAN,
   image : {"", "untagged", "latest", "pinned"}, requests : BOOLEAN, liveness : BOOLEAN]
PodSpecs ==
  [hostNetwork : BOOLEAN, hostPID : BOOLEAN, hostPaths : Nat,
   context : SecurityContexts, containers : Seq(ContainerSpecs)]
ManifestDocs ==
  [parses : BOOLEAN, kind : STRING, name : STRING, api : STRING, replicas : Nat,
   spec : [Places -> PodSpecs]]

\* Mutant: the pod spec of a CronJob is looked for where a Job has it.
PlaceOf_NoCron(kind) ==
  IF kind \in {"CronJob", "Deployment", "StatefulSet", "DaemonSet", "ReplicaSet", "Job"}
  THEN "template" ELSE "spec"

\* podSpec: where the pod spec of a kind is.
PlaceOf(kind) ==
  IF kind = "CronJob" THEN "jobTemplate"
  ELSE IF kind \in {"Deployment", "StatefulSet", "DaemonSet", "ReplicaSet", "Job"} THEN "template"
  ELSE "spec"

\* infraManifest.containers, which has a table of its own.
InfraPlaceOf(kind) ==
  CASE kind = "CronJob" -> "jobTemplate"
    [] kind \in {"Deployment", "StatefulSet", "DaemonSet", "ReplicaSet", "Job"} -> "template"
    [] OTHER -> "spec"

-----------------------------------------------------------------------------
(* Security.                                                               *)

\* isRunningAsRoot: the container's fields override the pod's; a user decides.
RunsAsRoot(pod, own) ==
  LET over(field) == IF own # NoContext /\ own[field] # "unset" THEN own[field]
                     ELSE IF pod # NoContext THEN pod[field] ELSE "unset"
  IN IF over("uid") # "unset" THEN over("uid") = "0" ELSE over("nonRoot") # "true"

\* Mutant: the rule about limits forgets that ephemeral containers have none.
ContainerRules_AllLimited(c, pod) ==
  {r \in {"K8S004", "K8S005", "K8S006", "K8S007"} :
     \/ r = "K8S004" /\ c.context # NoContext /\ c.context.privileged = "true"
     \/ r = "K8S005" /\ RunsAsRoot(pod, c.context)
     \/ r = "K8S006" /\ ~c.limits
     \/ r = "K8S007" /\ c.list = "app" /\ ~c.probe}

\* checkLiveContainer: the rules container c of a pod of the cluster breaks.
ContainerRules(c, pod) ==
  {r \in {"K8S004", "K8S005", "K8S006", "K8S007"} :
     \/ r = "K8S004" /\ c.context # NoContext /\ c.context.privileged = "true"
     \/ r = "K8S005" /\ RunsAsRoot(pod, c.context)
     \/ r = "K8S006" /\ c.list # "ephemeral" /\ ~c.limits
     \/ r = "K8S007" /\ c.list = "app" /\ ~c.probe}

\* An image without a colon or with the tag latest.  "pinned" is any other, also
\* one whose only colon is that of the registry's port.
Unpinned(image) == image \in {"", "untagged", "latest"}

\* checkLocalContainer: contexts are always there, if only with nothing set.
LocalContainerRules(c, pod) ==
  {r \in {"K8S004", "K8S005", "K8S006", "K8S007", "K8S008"} :
     \/ r = "K8S004" /\ c.context.privileged = "true"
     \/ r = "K8S005" /\ RunsAsRoot(pod, c.context)
     \/ r = "K8S006" /\ c.list # "ephemeral" /\ ~c.limits
     \/ r = "K8S007" /\ c.list = "app" /\ ~c.probe
     \/ r = "K8S008" /\ Unpinned(c.image)}

\* Findings are pairs <<where, rule>>; where is 0 for the pod, i for its i-th
\* container and -v for its v-th hostPath volume.
PodLevel(pod) ==
  LET shared == {r \in {"K8S001", "K8S002"} :
                   (r = "K8S001" /\ pod.hostNetwork) \/ (r = "K8S002" /\ pod.hostPID)}
  IN ({0} \X shared) \cup {<<-v, "K8S003">> : v \in 1..pod.hostPaths}

OfContainers(broken) == UNION {{i} \X broken[i] : i \in DOMAIN broken}

\* checkPodSecurity.
LiveFindings(pod) ==
  PodLevel(pod)
  \cup OfContainers([i \in DOMAIN pod.containers |-> ContainerRules(pod.containers[i], pod.context)])

\* A manifest gives "unset" fields where the cluster has no context.
Decoded(context) == IF context = NoContext THEN EmptyPod.context ELSE context
DecodedContainer(c) == [c EXCEPT !.context = Decoded(@)]
DecodedPod(pod) ==
  [pod EXCEPT !.context = Decoded(@),
              !.containers = [i \in DOMAIN @ |-> DecodedContainer(@[i])]]

\* checkManifestDoc.
LocalFindings(m) ==
  LET pod == DecodedPod(m.spec[PlaceOf(m.kind)])
  IN IF ~m.parses \/ m.kind = "" THEN {}
     ELSE PodLevel(pod)
          \cup OfContainers([i \in DOMAIN pod.containers |->
                               LocalContainerRules(pod.containers[i], pod.context)])

-----------------------------------------------------------------------------
(* Infrastructure.                                                         *)

\* checkInfraDoc: the rules manifest m breaks.  Init and ephemeral containers
\* are not looked at.
InfraFindings(m) ==
  LET pod == m.spec[InfraPlaceOf(m.kind)]
      broken(c) == {r \in {"K8S104", "K8S105", "K8S106"} :
                      \/ r = "K8S104" /\ Unpinned(c.image) /\ c.image # ""
                      \/ r = "K8S105" /\ ~c.requests
                      \/ r = "K8S106" /\ ~c.liveness}
      own == {r \in {"K8S101", "K8S102", "K8S103"} :
                \/ r = "K8S101" /\ m.name = ""
                \/ r = "K8S102" /\ m.api = "deprecated"
                \/ r = "K8S103" /\ m.kind = "Deployment" /\ m.replicas = 1}
      app == {i \in DOMAIN pod.containers : pod.containers[i].list = "app"}
  IN IF ~m.parses \/ (m.kind = "" /\ m.api = "") THEN {}
     ELSE ({0} \X own) \cup UNION {{i} \X broken(pod.containers[i]) : i \in app}
=============================================================================
