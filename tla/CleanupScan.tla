----------------------------- MODULE CleanupScan -----------------------------
(***************************************************************************)
(* `tend cleanup scan`: four goroutines ask a Kubernetes cluster for idle  *)
(* pods, claims, config maps and namespaces while the cluster changes.     *)
(* Each scanner writes only its own result; K8sScanner.Scan then puts the  *)
(* results together.  The claim scanner makes two list calls and the       *)
(* namespace scanner up to four for each namespace: none of them sees the  *)
(* cluster as it is at a single moment.                                    *)
(***************************************************************************)
EXTENDS Integers, Sequences, FiniteSets, SequencesExt

CONSTANTS Objects,       \* the objects the cluster may hold
          Namespaces,
          System,        \* systemNamespaces of the pod and config map scanners
          Skipped,       \* skipNamespaces, and those created within a day
          Scopes,        \* bound: the values of --namespace tried
          MaxResources,  \* cleanup.max_resources
          MaxChanges     \* bound: changes of the cluster during a scan

All == "all namespaces"

\* isNamespaceEmpty asks for these, in this order.
Asked == <<"pod", "deployment", "statefulset", "service">>
ObjectKinds == Range(Asked) \cup {"claim", "configmap"}

\* idle: by its own status and age the object is one to list.  mounts: the
\* claim a pod uses.  A claim that is not idle is bound and a day old.  Kind,
\* namespace and name tell objects apart.
ASSUME CleanupAssumption ==
  /\ IsFiniteSet(Objects) /\ IsFiniteSet(Namespaces)
  /\ \A o \in Objects :
       /\ o.kind \in ObjectKinds /\ o.ns \in Namespaces
       /\ o.idle \in BOOLEAN
       /\ \A p \in Objects : <<o.kind, o.ns, o.name>> = <<p.kind, p.ns, p.name>> => o = p
  /\ All \notin Namespaces /\ Scopes \subseteq Namespaces \cup {All}
  /\ MaxResources \in Nat \ {0} /\ MaxChanges \in Nat

\* The scanners.
Kinds == {"pods", "claims", "configmaps", "namespaces"}

VARIABLES
  scope,     \* --namespace, or All
  live,      \* the objects in the cluster now
  changes,   \* how often the cluster has changed
  steady,    \* objects that were there all the time
  seen,      \* objects that were there at some time
  bare,      \* namespaces that held nothing Asked for at some time
  pc,        \* where each scanner is
  claims,    \* the claims of the first list call of the claim scanner
  todo,      \* namespaces to check; the first is the one being checked
  asked,     \* position in Asked of the next question
  found,     \* found[k]: the resources of scanner k
  partial,   \* namespaces that could not be checked
  ended,     \* the context: deadline or signal
  main,      \* "wait", "print", "done"
  plan,      \* plan.Resources
  warnings,  \* plan.Warnings
  exit       \* the exit code, -1 before it ends

cluster == <<live, changes, steady, seen, bare>>
answer  == <<plan, warnings, exit>>
vars == <<scope, cluster, pc, claims, todo, asked, found, partial, ended, main, answer>>

InScope(ns) == scope \in {All, ns}
InCluster(kind) == {o \in live : o.kind = kind /\ InScope(o.ns)}

\* A line of the plan.
Entry(o)      == <<o.kind, o.ns, o.name>>
NsEntry(ns)   == <<"namespace", ns, ns>>
Entries       == {Entry(o) : o \in Objects} \cup {NsEntry(ns) : ns \in Namespaces}

Content(objects, ns) == {o \in objects : o.ns = ns /\ o.kind \in Range(Asked)}

TypeOK ==
  /\ scope \in Scopes
  /\ live \subseteq seen /\ steady \subseteq live /\ seen \subseteq Objects
  /\ changes \in 0..MaxChanges
  /\ bare \subseteq Namespaces
  /\ pc \in [Kinds -> {"list", "mounts", "check", "ok", "failed"}]
  /\ claims \subseteq Objects
  /\ Range(todo) \subseteq Namespaces
  /\ asked \in DOMAIN Asked
  /\ found \in [Kinds -> SUBSET Entries]
  /\ partial \subseteq Namespaces
  /\ ended \in BOOLEAN
  /\ main \in {"wait", "print", "done"}
  /\ Range(plan) \subseteq Entries /\ Len(plan) <= MaxResources
  /\ warnings \subseteq Kinds \cup Namespaces
  /\ exit \in {-1, 0, 1, 2}

Init ==
  /\ scope \in Scopes
  /\ live \in SUBSET Objects
  /\ changes = 0
  /\ steady = live /\ seen = live
  /\ bare = {ns \in Namespaces : Content(live, ns) = {}}
  /\ pc = [k \in Kinds |-> "list"]
  /\ claims = {} /\ todo = <<>> /\ asked = 1
  /\ found = [k \in Kinds |-> {}]
  /\ partial = {}
  /\ ended = FALSE
  /\ main = "wait"
  /\ plan = <<>> /\ warnings = {} /\ exit = -1

-----------------------------------------------------------------------------
(* The cluster goes on while it is scanned.                                *)

Becomes(objects) ==
  /\ main = "wait" /\ changes < MaxChanges
  /\ live' = objects
  /\ changes' = changes + 1
  /\ steady' = steady \cap objects
  /\ seen' = seen \cup objects
  /\ bare' = bare \cup {ns \in Namespaces : Content(objects, ns) = {}}
  /\ UNCHANGED <<scope, pc, claims, todo, asked, found, partial, ended, main, answer>>

\* What is new is too young to be a stale claim or config map.
Create(o) == o \notin live /\ o.kind \in Range(Asked) /\ Becomes(live \cup {o})
Delete(o) == o \in live /\ Becomes(live \ {o})

-----------------------------------------------------------------------------
(* The scanners.  A list call answers with the cluster of one moment, or   *)
(* fails; under an ended context it fails.                                 *)

Returns(k, entries) ==
  /\ pc' = [pc EXCEPT ![k] = "ok"]
  /\ found' = [found EXCEPT ![k] = entries]

ListPods ==
  /\ pc["pods"] = "list" /\ ~ended
  /\ Returns("pods", {Entry(o) : o \in {p \in InCluster("pod") :
                                           p.idle /\ p.ns \notin System}})
  /\ UNCHANGED <<scope, cluster, claims, todo, asked, partial, ended, main, answer>>

ListConfigMaps ==
  /\ pc["configmaps"] = "list" /\ ~ended
  /\ Returns("configmaps", {Entry(o) : o \in {m \in InCluster("configmap") :
                                                 m.idle /\ m.ns \notin System}})
  /\ UNCHANGED <<scope, cluster, claims, todo, asked, partial, ended, main, answer>>

ListClaims ==
  /\ pc["claims"] = "list" /\ ~ended
  /\ claims' = InCluster("claim")
  /\ pc' = [pc EXCEPT !["claims"] = "mounts"]
  /\ UNCHANGED <<scope, cluster, todo, asked, found, partial, ended, main, answer>>

\* Mutant: the namespace is not part of the key.
Mounted_ByName(c) == \E p \in InCluster("pod") : p.mounts = c.name

\* mounted is keyed by namespace/name.
Mounted(c) == \E p \in InCluster("pod") : p.ns = c.ns /\ p.mounts = c.name

ListMounts ==
  /\ pc["claims"] = "mounts" /\ ~ended
  /\ Returns("claims", {Entry(c) : c \in {d \in claims : d.idle \/ ~Mounted(d)}})
  /\ UNCHANGED <<scope, cluster, claims, todo, asked, partial, ended, main, answer>>

\* The loop over the namespaces goes on with ns, or is over.
CheckRest(rest) ==
  /\ todo' = rest
  /\ asked' = 1
  /\ pc' = [pc EXCEPT !["namespaces"] = IF rest = <<>> THEN "ok" ELSE "check"]

ListNamespaces ==
  /\ pc["namespaces"] = "list" /\ ~ended
  /\ CheckRest(SetToSeq({ns \in Namespaces : InScope(ns) /\ ns \notin Skipped}))
  /\ UNCHANGED <<scope, cluster, claims, found, partial, ended, main, answer>>

\* Mutant: services are not asked for.
Ask_NoServices ==
  /\ pc["namespaces"] = "check" /\ ~ended
  /\ LET ns == Head(todo)
         some == \E o \in live : o.ns = ns /\ o.kind = Asked[asked]
     IN IF some
        THEN CheckRest(Tail(todo)) /\ UNCHANGED found
        ELSE IF asked < Len(Asked) - 1
        THEN asked' = asked + 1 /\ UNCHANGED <<todo, pc, found>>
        ELSE /\ CheckRest(Tail(todo))
             /\ found' = [found EXCEPT !["namespaces"] = @ \cup {NsEntry(ns)}]
  /\ UNCHANGED <<scope, cluster, claims, partial, ended, main, answer>>

\* One question of isNamespaceEmpty: an object found settles the namespace,
\* and so does the last question answered with none.
Ask ==
  /\ pc["namespaces"] = "check" /\ ~ended
  /\ LET ns == Head(todo)
         some == \E o \in live : o.ns = ns /\ o.kind = Asked[asked]
     IN IF some
        THEN CheckRest(Tail(todo)) /\ UNCHANGED found
        ELSE IF asked < Len(Asked)
        THEN asked' = asked + 1 /\ UNCHANGED <<todo, pc, found>>
        ELSE /\ CheckRest(Tail(todo))
             /\ found' = [found EXCEPT !["namespaces"] = @ \cup {NsEntry(ns)}]
  /\ UNCHANGED <<scope, cluster, claims, partial, ended, main, answer>>

\* Mutant: a failed question is asked again.
AskFails_Retry ==
  /\ pc["namespaces"] = "check"
  /\ partial' = partial \cup {Head(todo)}
  /\ UNCHANGED <<scope, cluster, pc, claims, todo, asked, found, ended, main, answer>>

\* A question that fails leaves this namespace unchecked, not the others.
AskFails ==
  /\ pc["namespaces"] = "check"
  /\ partial' = partial \cup {Head(todo)}
  /\ CheckRest(Tail(todo))
  /\ UNCHANGED <<scope, cluster, claims, found, ended, main, answer>>

ListFails(k) ==
  /\ pc[k] \in {"list", "mounts"}
  /\ pc' = [pc EXCEPT ![k] = "failed"]
  /\ UNCHANGED <<scope, cluster, claims, todo, asked, found, partial, ended, main, answer>>

Listing == ListPods \/ ListClaims \/ ListMounts \/ ListConfigMaps \/ ListNamespaces \/ Ask
Failing(k) == ListFails(k) \/ (k = "namespaces" /\ AskFails)

-----------------------------------------------------------------------------
(* The end of Scan and of runCleanupScan.                                  *)

Failed == {k \in Kinds : pc[k] = "failed"}

\* The results one after the other, in the order of the slice in Scan.
Results(k) == SetToSeq(found[k])
AllResults == Results("pods") \o Results("claims") \o Results("configmaps") \o Results("namespaces")

\* Mutant: the list is not cut.
Assemble_NoLimit ==
  /\ main = "wait"
  /\ \A k \in Kinds : pc[k] \in {"ok", "failed"}
  /\ Failed # Kinds
  /\ plan' = AllResults
  /\ warnings' = Failed \cup partial
  /\ main' = "print"
  /\ UNCHANGED <<scope, cluster, pc, claims, todo, asked, found, partial, ended, exit>>

\* Mutant: what could not be checked of a scanner that answers is not told.
Assemble_NoPartial ==
  /\ main = "wait"
  /\ \A k \in Kinds : pc[k] \in {"ok", "failed"}
  /\ Failed # Kinds
  /\ plan' = IF Len(AllResults) > MaxResources THEN SubSeq(AllResults, 1, MaxResources) ELSE AllResults
  /\ warnings' = Failed
  /\ main' = "print"
  /\ UNCHANGED <<scope, cluster, pc, claims, todo, asked, found, partial, ended, exit>>

\* wg.Wait() returns; results are put together in the order of the slice,
\* each failure becomes a warning, and the list is cut at the limit.
Assemble ==
  /\ main = "wait"
  /\ \A k \in Kinds : pc[k] \in {"ok", "failed"}
  /\ Failed # Kinds
  /\ plan' = IF Len(AllResults) > MaxResources THEN SubSeq(AllResults, 1, MaxResources) ELSE AllResults
  /\ warnings' = Failed \cup partial
  /\ main' = "print"
  /\ UNCHANGED <<scope, cluster, pc, claims, todo, asked, found, partial, ended, exit>>

\* Every scanner failed: Scan returns the errors and no plan.
GiveUp ==
  /\ main = "wait" /\ Failed = Kinds
  /\ main' = "done" /\ exit' = 1
  /\ UNCHANGED <<scope, cluster, pc, claims, todo, asked, found, partial, ended, plan, warnings>>

PrintPlan ==
  /\ main = "print"
  /\ \E written \in BOOLEAN :
       exit' = IF ~written THEN 1 ELSE IF plan # <<>> THEN 2 ELSE 0
  /\ main' = "done"
  /\ UNCHANGED <<scope, cluster, pc, claims, todo, asked, found, partial, ended, plan, warnings>>

\* The deadline of context.WithTimeout, or a signal.
ContextEnds ==
  /\ main = "wait" /\ ~ended
  /\ ended' = TRUE
  /\ UNCHANGED <<scope, cluster, pc, claims, todo, asked, found, partial, main, answer>>

Exited == main = "done" /\ UNCHANGED vars

Next ==
  \/ \E o \in Objects : Create(o) \/ Delete(o)
  \/ Listing
  \/ \E k \in Kinds : Failing(k)
  \/ Assemble \/ GiveUp \/ PrintPlan
  \/ ContextEnds
  \/ Exited

\* The API server owes no answer.  The deadline comes, a call under an ended
\* context returns, and the main goroutine runs.
Fairness ==
  /\ WF_vars(ContextEnds)
  /\ \A k \in Kinds : WF_vars(ended /\ Failing(k))
  /\ WF_vars(Assemble \/ GiveUp \/ PrintPlan)

Spec == Init /\ [][Next]_vars /\ Fairness

-----------------------------------------------------------------------------
(* Properties.                                                             *)

\* What is in use throughout the scan is never put up for cleanup, whatever
\* else changes between the list calls: no claim a pod mounts all the time
\* is orphaned, and no namespace that holds an object all the time is empty.
InUseNeverListed ==
  \A e \in Range(plan) :
    /\ e[1] = "namespace" => Content(steady, e[2]) = {}
    /\ \A c \in Objects : e = Entry(c) /\ c.kind = "claim" /\ ~c.idle =>
         ~ \E p \in steady : p.kind = "pod" /\ p.ns = c.ns /\ p.mounts = c.name

\* Idle for the whole scan, so any order of the calls should find it.
IdleThroughout ==
  {Entry(o) : o \in {s \in steady :
     /\ InScope(s.ns)
     /\ s.kind \in {"pod", "configmap"} => s.idle /\ s.ns \notin System
     /\ s.kind = "claim" => s.idle \/ ~ \E p \in seen :
          p.kind = "pod" /\ p.ns = s.ns /\ p.mounts = s.name
     /\ s.kind \in {"pod", "claim", "configmap"}}}
  \cup {NsEntry(ns) : ns \in {n \in Namespaces :
     InScope(n) /\ n \notin Skipped /\ Content(seen, n) = {}}}

ScannerOf(e) ==
  CASE e[1] = "pod" -> "pods" [] e[1] = "claim" -> "claims"
    [] e[1] = "configmap" -> "configmaps" [] e[1] = "namespace" -> "namespaces"

\* Where the results of a scanner stand in the list.
Place == [pods |-> 1, claims |-> 2, configmaps |-> 3, namespaces |-> 4]

\* A warning names the scanner of e, or the namespace it is about.
Warned(e) == ScannerOf(e) \in warnings \/ (e[1] = "namespace" /\ e[2] \in warnings)

\* e fell to the cut of Scan: the list is full without it, of results of its
\* own scanner and of those in front.
CutOff(e) ==
  /\ Len(plan) = MaxResources
  /\ \A f \in Range(plan) : Place[ScannerOf(f)] <= Place[ScannerOf(e)]

Reported == main = "print" \/ exit \in {0, 2}

\* What is idle for the whole scan is in the plan, or a warning names what
\* could not be looked at; otherwise it fell to the cut, which takes the end
\* of the list only.  The cut itself is silent: client.go makes it without a
\* warning, and limits.yaml says so ("silently dropped").  Nothing else that
\* goes wrong in a scan loses a resource without a word.
LostOnlyToTheCut ==
  Reported => \A e \in IdleThroughout : e \in Range(plan) \/ Warned(e) \/ CutOff(e)

\* COMMANDS.md: exit code "0 no idle resources".  A command that ends with 0
\* has found nothing, the cut included, and its warnings name the scanner or
\* the namespace of whatever was idle all the time.
ZeroMeansNoneIdle == exit = 0 => \A e \in IdleThroughout : Warned(e)

\* The command ends even if the cluster never answers.
ScanEnds == <>(main = "done")

\* COMMANDS.md lists a namespace that "has no pods, Deployments, StatefulSets,
\* or Services" as Empty: there was a moment of the scan when it had none.
EmptyWasEmpty == \A ns \in Namespaces : NsEntry(ns) \in Range(plan) => ns \in bare
=============================================================================
