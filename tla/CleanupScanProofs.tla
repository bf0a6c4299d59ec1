--------------------------- MODULE CleanupScanProofs ---------------------------
(***************************************************************************)
(* Proofs about `tend cleanup scan`, for every cluster, any number of      *)
(* changes during the scan and any limit of the list.                      *)
(***************************************************************************)
EXTENDS CleanupScan, SequenceTheorems, FiniteSetTheorems, TLAPS

Uses(p, c) == p.kind = "pod" /\ p.ns = c.ns /\ p.mounts = c.name

\* A scanner of one call: what it answers is of its kind, and has everything
\* idle that has been there from the beginning.
ListInv(k, kind) ==
  /\ \A e \in found[k] : e[1] = kind
  /\ pc[k] = "ok" =>
       \A o \in steady : o.kind = kind /\ InScope(o.ns) /\ o.idle /\ o.ns \notin System =>
         Entry(o) \in found[k]

\* The claim scanner knows all claims that have been there from the beginning;
\* of these it lists none that a pod has used from the beginning, and all that
\* no pod has used at any time.
ClaimsInv ==
  /\ \A c \in claims : c.kind = "claim" /\ InScope(c.ns)
  /\ pc["claims"] \in {"mounts", "ok"} =>
       \A o \in steady : o.kind = "claim" /\ InScope(o.ns) => o \in claims
  /\ \A e \in found["claims"] : \E d \in Objects :
       e = Entry(d) /\ d.kind = "claim" /\ (d.idle \/ \A p \in steady : ~Uses(p, d))
  /\ pc["claims"] = "ok" =>
       \A o \in steady :
         o.kind = "claim" /\ InScope(o.ns) /\ (o.idle \/ \A p \in seen : ~Uses(p, o)) =>
           Entry(o) \in found["claims"]

\* What the namespace scanner may still say of the namespace at hand: nothing
\* it has asked for has been there from the beginning.  A namespace it is done
\* with is listed, could not be checked, or held something.
NamespacesInv ==
  /\ pc["namespaces"] = "check" =>
       /\ todo # <<>>
       /\ \A i \in 1..(asked - 1) : \A o \in steady : o.ns = Head(todo) => o.kind # Asked[i]
  /\ pc["namespaces"] = "ok" => todo = <<>>
  /\ \A e \in found["namespaces"] : \E ns \in Namespaces :
       e = NsEntry(ns) /\ Content(steady, ns) = {}
  /\ pc["namespaces"] \in {"check", "ok"} =>
       \A ns \in Namespaces : InScope(ns) /\ ns \notin Skipped =>
         \/ ns \in Range(todo) \/ NsEntry(ns) \in found["namespaces"] \/ ns \in partial
         \/ Content(seen, ns) # {}

\* The plan is made of the results once all scanners are over; what it lacks
\* of them was cut from their end.
PlanInv ==
  /\ main = "wait" => plan = <<>>
  /\ main # "wait" => \A k \in Kinds : pc[k] \in {"ok", "failed"}
  /\ \A e \in Range(plan) : \E k \in Kinds : e \in found[k]
  /\ Reported =>
       /\ main # "wait" /\ warnings = Failed \cup partial
       /\ \A k \in Kinds : \A e \in found[k] : e \in Range(plan) \/ CutOff(e)
  /\ exit = 0 => plan = <<>>

Types ==
  /\ scope \in Scopes
  /\ live \subseteq seen /\ steady \subseteq live /\ seen \subseteq Objects
  /\ changes \in 0..MaxChanges
  /\ bare \subseteq Namespaces
  /\ pc \in [Kinds -> {"list", "mounts", "check", "ok", "failed"}]
  /\ claims \subseteq Objects
  /\ todo \in Seq(Namespaces)
  /\ asked \in 1..4
  /\ found \in [Kinds -> SUBSET Entries]
  /\ partial \subseteq Namespaces
  /\ ended \in BOOLEAN
  /\ main \in {"wait", "print", "done"}
  /\ plan \in Seq(Entries) /\ Len(plan) <= MaxResources
  /\ warnings \subseteq Kinds \cup Namespaces
  /\ exit \in {-1, 0, 1, 2}

ScannersInv ==
  ListInv("pods", "pod") /\ ListInv("configmaps", "configmap") /\ ClaimsInv /\ NamespacesInv

IInv == Types /\ ScannersInv /\ PlanInv

-----------------------------------------------------------------------------
(* The operators.                                                          *)

\* The four questions about a namespace.
LEMMA Questions ==
  /\ Len(Asked) = 4 /\ DOMAIN Asked = 1..4
  /\ Range(Asked) = {Asked[1], Asked[2], Asked[3], Asked[4]}
  /\ Asked[1] = "pod" /\ Asked[2] = "deployment" /\ Asked[3] = "statefulset" /\ Asked[4] = "service"
  BY DEF Asked, Range

\* An element of a sequence.
LEMMA Element ==
  ASSUME NEW S, NEW q \in Seq(S)
  PROVE  /\ Len(q) \in Nat /\ DOMAIN q = 1..Len(q) /\ Range(q) \subseteq S
         /\ q = <<>> <=> Len(q) = 0
<1>1. Len(q) \in Nat /\ DOMAIN q = 1..Len(q)
  BY LenProperties
<1>2. q = <<>> <=> Len(q) = 0
  BY <1>1, EmptySeq
<1> QED
  BY <1>1, <1>2, ElementOfSeq DEF Range

\* An empty sequence has no elements.
LEMMA NoElements == Range(<<>>) = {} /\ Len(<<>>) = 0 /\ \A S : <<>> \in Seq(S)
<1>1. Len(<<>>) = 0 /\ \A S : <<>> \in Seq(S)
  BY EmptySeq
<1>2. DOMAIN <<>> = 1..0
  BY <1>1, Element
<1> QED
  BY <1>1, <1>2 DEF Range

\* The elements of a sequence without its first.
LEMMA Rest ==
  ASSUME NEW S, NEW q \in Seq(S), q # <<>>
  PROVE  /\ Head(q) \in S /\ Tail(q) \in Seq(S)
         /\ \A x \in Range(q) : x = Head(q) \/ x \in Range(Tail(q))
<1>1. Len(q) \in Nat /\ DOMAIN q = 1..Len(q) /\ Len(q) # 0
  BY Element
<1>2. /\ Head(q) \in S /\ Tail(q) \in Seq(S) /\ Len(Tail(q)) = Len(q) - 1
      /\ \A i \in 1..Len(Tail(q)) : Tail(q)[i] = q[i + 1]
  BY HeadTailProperties
<1>3. DOMAIN Tail(q) = 1..(Len(q) - 1)
  BY <1>2, Element
<1>4. ASSUME NEW x \in Range(q), x # Head(q) PROVE x \in Range(Tail(q))
  <2>1. PICK i \in 1..Len(q) : x = q[i]
    BY <1>1 DEF Range
  <2>2. i # 1
    BY <1>4, <2>1
  <2>3. PICK j \in 1..(Len(q) - 1) : j = i - 1
    BY <1>1, <2>1, <2>2
  <2>4. Tail(q)[j] = x
    BY <1>2, <2>1, <2>3
  <2> QED
    BY <1>3, <2>4 DEF Range
<1> QED
  BY <1>2, <1>4

\* A finite set, put into a sequence, has the same elements.
LEMMA Sequenced ==
  ASSUME NEW S, IsFiniteSet(S)
  PROVE  SetToSeq(S) \in Seq(S) /\ Range(SetToSeq(S)) = S
<1>1. Cardinality(S) \in Nat /\ ExistsBijection(1..Cardinality(S), S)
  BY FS_CardinalityType
<1>2. \E f \in [1..Cardinality(S) -> S] : IsInjective(f)
  BY <1>1 DEF ExistsBijection, Bijection, Injection
<1>3. SetToSeq(S) \in [1..Cardinality(S) -> S] /\ IsInjective(SetToSeq(S))
  BY <1>2 DEF SetToSeq
<1>4. SetToSeq(S) \in Injection(1..Cardinality(S), S)
  BY <1>3 DEF Injection
<1>5. IsFiniteSet(1..Cardinality(S)) /\ Cardinality(1..Cardinality(S)) = Cardinality(S)
  BY <1>1, FS_Interval
<1>6. SetToSeq(S) \in Surjection(1..Cardinality(S), S)
  BY <1>4, <1>5, FS_Injection
<1>7. Range(SetToSeq(S)) = S
  BY <1>3, <1>6 DEF Surjection, Range
<1>8. SetToSeq(S) \in Seq(S)
  BY <1>1, <1>3, SeqDef
<1> QED
  BY <1>7, <1>8

\* Two sequences one after the other have the elements of both.
LEMMA Appended ==
  ASSUME NEW S, NEW q \in Seq(S), NEW r \in Seq(S)
  PROVE  q \o r \in Seq(S) /\ Range(q \o r) = Range(q) \cup Range(r)
<1>1. /\ q \o r \in Seq(S) /\ Len(q \o r) = Len(q) + Len(r)
      /\ \A i \in 1..(Len(q) + Len(r)) :
           (q \o r)[i] = IF i <= Len(q) THEN q[i] ELSE r[i - Len(q)]
  BY ConcatProperties
<1>2. Len(q) \in Nat /\ DOMAIN q = 1..Len(q) /\ Len(r) \in Nat /\ DOMAIN r = 1..Len(r)
  BY Element
<1>3. DOMAIN (q \o r) = 1..(Len(q) + Len(r))
  BY <1>1, Element
<1>4. ASSUME NEW x \in Range(q \o r) PROVE x \in Range(q) \cup Range(r)
  <2>1. PICK i \in 1..(Len(q) + Len(r)) : x = (q \o r)[i]
    BY <1>3 DEF Range
  <2>2. CASE i <= Len(q)
    BY <1>1, <1>2, <2>1, <2>2 DEF Range
  <2>3. CASE ~(i <= Len(q))
    <3>1. i - Len(q) \in DOMAIN r /\ x = r[i - Len(q)]
      BY <1>1, <1>2, <2>1, <2>3
    <3> QED
      BY <3>1 DEF Range
  <2> QED
    BY <2>2, <2>3
<1>5. ASSUME NEW x \in Range(q) PROVE x \in Range(q \o r)
  <2>1. PICK i \in DOMAIN q : x = q[i]
    BY DEF Range
  <2>2. i \in 1..(Len(q) + Len(r)) /\ (q \o r)[i] = x
    BY <1>1, <1>2, <2>1
  <2> QED
    BY <1>3, <2>2 DEF Range
<1>6. ASSUME NEW x \in Range(r) PROVE x \in Range(q \o r)
  <2>1. PICK i \in DOMAIN r : x = r[i]
    BY DEF Range
  <2>2. PICK k \in 1..(Len(q) + Len(r)) : k = Len(q) + i
    BY <1>2
  <2>3. ~(k <= Len(q)) /\ k - Len(q) = i
    BY <1>2, <2>2
  <2>4. (q \o r)[k] = x
    BY <1>1, <2>1, <2>3
  <2> QED
    BY <1>3, <2>4 DEF Range
<1> QED
  BY <1>1, <1>4, <1>5, <1>6

\* There are finitely many lines a plan could have.
LEMMA FiniteEntries == IsFiniteSet(Entries)
<1>1. IsFiniteSet({Entry(o) : o \in Objects})
  <2>1. [o \in Objects |-> Entry(o)] \in Surjection(Objects, {Entry(o) : o \in Objects})
    BY DEF Surjection
  <2> QED
    BY <2>1, CleanupAssumption, FS_Surjection
<1>2. IsFiniteSet({NsEntry(ns) : ns \in Namespaces})
  <2>1. [ns \in Namespaces |-> NsEntry(ns)]
          \in Surjection(Namespaces, {NsEntry(ns) : ns \in Namespaces})
    BY DEF Surjection
  <2> QED
    BY <2>1, CleanupAssumption, FS_Surjection
<1> QED
  BY <1>1, <1>2, FS_Union DEF Entries

\* In a list the scanners stand in their places.
Sorted(q) == \A i, j \in 1..Len(q) : i <= j => Place[ScannerOf(q[i])] <= Place[ScannerOf(q[j])]

\* A list of one scanner does.
LEMMA SortedOne ==
  ASSUME NEW S, NEW q \in Seq(S), NEW k \in Kinds, \A e \in Range(q) : ScannerOf(e) = k
  PROVE  Sorted(q)
<1>1. DOMAIN q = 1..Len(q)
  BY Element
<1>2. \A i \in 1..Len(q) : ScannerOf(q[i]) = k
  BY <1>1 DEF Range
<1>3. Place[k] \in Nat
  BY DEF Place, Kinds
<1> QED
  BY <1>2, <1>3 DEF Sorted

\* So do two lists one after the other, of scanners in their places.
LEMMA SortedBoth ==
  ASSUME NEW S, NEW q \in Seq(S), NEW r \in Seq(S), Sorted(q), Sorted(r),
         \A x \in Range(q) : \A y \in Range(r) : Place[ScannerOf(x)] <= Place[ScannerOf(y)]
  PROVE  Sorted(q \o r)
<1>1. /\ Len(q \o r) = Len(q) + Len(r)
      /\ \A i \in 1..(Len(q) + Len(r)) :
           (q \o r)[i] = IF i <= Len(q) THEN q[i] ELSE r[i - Len(q)]
  BY ConcatProperties
<1>2. Len(q) \in Nat /\ DOMAIN q = 1..Len(q) /\ Len(r) \in Nat /\ DOMAIN r = 1..Len(r)
  BY Element
<1>3. SUFFICES ASSUME NEW i \in 1..(Len(q) + Len(r)), NEW j \in 1..(Len(q) + Len(r)), i <= j
               PROVE  Place[ScannerOf((q \o r)[i])] <= Place[ScannerOf((q \o r)[j])]
  BY <1>1 DEF Sorted
<1>4. CASE j <= Len(q)
  BY <1>1, <1>2, <1>3, <1>4 DEF Sorted
<1>5. CASE i <= Len(q) /\ ~(j <= Len(q))
  <2>1. i \in DOMAIN q /\ j - Len(q) \in DOMAIN r
    BY <1>2, <1>3, <1>5
  <2>2. q[i] \in Range(q) /\ r[j - Len(q)] \in Range(r)
    BY <2>1 DEF Range
  <2> QED
    BY <1>1, <1>5, <2>2
<1>6. CASE ~(i <= Len(q))
  <2>1. i - Len(q) \in 1..Len(r) /\ j - Len(q) \in 1..Len(r) /\ i - Len(q) <= j - Len(q)
    BY <1>2, <1>3, <1>6
  <2>2. (q \o r)[i] = r[i - Len(q)] /\ (q \o r)[j] = r[j - Len(q)]
    BY <1>1, <1>2, <1>3, <1>6
  <2> QED
    BY <2>1, <2>2 DEF Sorted
<1> QED
  BY <1>2, <1>3, <1>4, <1>5, <1>6

\* The results put together are what the scanners found, in the places of
\* the scanners.
LEMMA Together ==
  ASSUME found \in [Kinds -> SUBSET Entries],
         \A k \in Kinds : \A e \in found[k] : ScannerOf(e) = k
  PROVE  /\ AllResults \in Seq(Entries)
         /\ Range(AllResults) = UNION {found[k] : k \in Kinds}
         /\ Sorted(AllResults)
<1>1. ASSUME NEW k \in Kinds
      PROVE  Results(k) \in Seq(Entries) /\ Range(Results(k)) = found[k]
  <2>1. found[k] \subseteq Entries
    OBVIOUS
  <2>2. IsFiniteSet(found[k])
    BY <2>1, FiniteEntries, FS_Subset
  <2>3. Results(k) \in Seq(found[k]) /\ Range(Results(k)) = found[k]
    BY <2>2, Sequenced DEF Results
  <2> QED
    BY <2>1, <2>3, SeqMonotonic
<1>2. PICK p, c, m, n : p = Results("pods") /\ c = Results("claims") /\ m = Results("configmaps")
                        /\ n = Results("namespaces")
  OBVIOUS
<1>3. /\ p \in Seq(Entries) /\ c \in Seq(Entries) /\ m \in Seq(Entries) /\ n \in Seq(Entries)
      /\ Range(p) = found["pods"] /\ Range(c) = found["claims"]
      /\ Range(m) = found["configmaps"] /\ Range(n) = found["namespaces"]
  BY <1>1, <1>2 DEF Kinds
<1>4. /\ \A e \in Range(p) : ScannerOf(e) = "pods"
      /\ \A e \in Range(c) : ScannerOf(e) = "claims"
      /\ \A e \in Range(m) : ScannerOf(e) = "configmaps"
      /\ \A e \in Range(n) : ScannerOf(e) = "namespaces"
  BY <1>3 DEF Kinds
<1>5. Sorted(p) /\ Sorted(c) /\ Sorted(m) /\ Sorted(n)
  BY <1>3, <1>4, SortedOne DEF Kinds
<1>6. /\ \A e \in Range(p) : Place[ScannerOf(e)] = 1
      /\ \A e \in Range(c) : Place[ScannerOf(e)] = 2
      /\ \A e \in Range(m) : Place[ScannerOf(e)] = 3
      /\ \A e \in Range(n) : Place[ScannerOf(e)] = 4
  BY <1>4 DEF Place
<1>7. PICK q : q = p \o c
  OBVIOUS
<1>8. q \in Seq(Entries) /\ Range(q) = Range(p) \cup Range(c)
  BY <1>3, <1>7, Appended
<1>9. Sorted(q)
  <2>1. \A x \in Range(p) : \A y \in Range(c) : Place[ScannerOf(x)] <= Place[ScannerOf(y)]
    BY <1>6
  <2> QED
    BY <1>3, <1>5, <1>7, <2>1, SortedBoth
<1>10. PICK r : r = q \o m
  OBVIOUS
<1>11. r \in Seq(Entries) /\ Range(r) = Range(q) \cup Range(m)
  BY <1>3, <1>8, <1>10, Appended
<1>12. \A e \in Range(q) : Place[ScannerOf(e)] \in 1..2
  BY <1>6, <1>8
<1>13. Sorted(r)
  <2>1. \A x \in Range(q) : \A y \in Range(m) : Place[ScannerOf(x)] <= Place[ScannerOf(y)]
    BY <1>6, <1>12
  <2> QED
    BY <1>3, <1>5, <1>8, <1>9, <1>10, <2>1, SortedBoth
<1>14. \A e \in Range(r) : Place[ScannerOf(e)] \in 1..3
  BY <1>6, <1>11, <1>12
<1>15. AllResults = r \o n
  BY <1>2, <1>7, <1>10 DEF AllResults
<1>16. AllResults \in Seq(Entries) /\ Range(AllResults) = Range(r) \cup Range(n)
  BY <1>3, <1>11, <1>15, Appended
<1>17. Sorted(AllResults)
  <2>1. \A x \in Range(r) : \A y \in Range(n) : Place[ScannerOf(x)] <= Place[ScannerOf(y)]
    BY <1>6, <1>14
  <2> QED
    BY <1>3, <1>5, <1>11, <1>13, <1>15, <2>1, SortedBoth
<1>18. UNION {found[k] : k \in Kinds}
        = found["pods"] \cup found["claims"] \cup found["configmaps"] \cup found["namespaces"]
  BY DEF Kinds
<1> QED
  BY <1>3, <1>8, <1>11, <1>16, <1>17, <1>18

-----------------------------------------------------------------------------
(* What one scanner knows does not depend on the others.                   *)

\* A scanner of one call, while others work, the cluster changes, or after it
\* has failed.
LEMMA ListRests ==
  ASSUME NEW k, NEW kind, ListInv(k, kind), UNCHANGED scope, steady' \subseteq steady,
         pc'[k] = pc[k] \/ pc'[k] = "failed", found'[k] = found[k]
  PROVE  ListInv(k, kind)'
  BY DEF ListInv, InScope

\* The same for the scanner of claims, between its two calls too.
LEMMA ClaimsRest ==
  ASSUME ClaimsInv, UNCHANGED <<scope, claims>>, steady' \subseteq steady, seen \subseteq seen',
         pc'["claims"] = pc["claims"] \/ pc'["claims"] = "failed", found'["claims"] = found["claims"]
  PROVE  ClaimsInv'
<1>1. (\A c \in claims : c.kind = "claim" /\ InScope(c.ns))'
  BY DEF ClaimsInv, InScope
<1>2. (pc["claims"] \in {"mounts", "ok"} =>
         \A o \in steady : o.kind = "claim" /\ InScope(o.ns) => o \in claims)'
  BY DEF ClaimsInv, InScope
<1>3. (\A e \in found["claims"] : \E d \in Objects :
         e = Entry(d) /\ d.kind = "claim" /\ (d.idle \/ \A p \in steady : ~Uses(p, d)))'
  BY DEF ClaimsInv
<1>4. (pc["claims"] = "ok" =>
         \A o \in steady :
           o.kind = "claim" /\ InScope(o.ns) /\ (o.idle \/ \A p \in seen : ~Uses(p, o)) =>
             Entry(o) \in found["claims"])'
  BY DEF ClaimsInv, InScope
<1> QED
  BY <1>1, <1>2, <1>3, <1>4 DEF ClaimsInv

\* The same for the scanner of namespaces, in the middle of its loop too.
LEMMA NamespacesRest ==
  ASSUME NamespacesInv, UNCHANGED <<scope, todo, asked, partial>>,
         steady' \subseteq steady, seen \subseteq seen',
         pc'["namespaces"] = pc["namespaces"] \/ pc'["namespaces"] = "failed",
         found'["namespaces"] = found["namespaces"]
  PROVE  NamespacesInv'
<1>1. (pc["namespaces"] = "check" =>
         /\ todo # <<>>
         /\ \A i \in 1..(asked - 1) : \A o \in steady : o.ns = Head(todo) => o.kind # Asked[i])'
  BY DEF NamespacesInv
<1>2. (pc["namespaces"] = "ok" => todo = <<>>)'
  BY DEF NamespacesInv
<1>3. \A ns : /\ Content(steady, ns) = {} => Content(steady', ns) = {}
              /\ Content(seen, ns) # {} => Content(seen', ns) # {}
  BY DEF Content
<1>4. (\A e \in found["namespaces"] : \E ns \in Namespaces :
         e = NsEntry(ns) /\ Content(steady, ns) = {})'
  BY <1>3 DEF NamespacesInv
<1>5. (pc["namespaces"] \in {"check", "ok"} =>
         \A ns \in Namespaces : InScope(ns) /\ ns \notin Skipped =>
           \/ ns \in Range(todo) \/ NsEntry(ns) \in found["namespaces"] \/ ns \in partial
           \/ Content(seen, ns) # {})'
  BY <1>3 DEF NamespacesInv, InScope
<1> QED
  BY <1>1, <1>2, <1>4, <1>5 DEF NamespacesInv

\* As long as there is no plan, nothing has to be said about it.
LEMMA NoPlanYet ==
  ASSUME IInv, main = "wait", UNCHANGED <<main, plan, exit>>
  PROVE  PlanInv'
<1>1. plan = <<>> /\ ~Reported
  BY DEF IInv, PlanInv
<1>2. Range(plan) = {}
  BY <1>1, NoElements
<1> QED
  BY <1>1, <1>2 DEF PlanInv, Reported, Range

\* A result tells which scanner it is of.
LEMMA FoundBy ==
  ASSUME ScannersInv, NEW k \in Kinds, NEW e \in found[k]
  PROVE  ScannerOf(e) = k
<1>1. CASE k = "pods" \/ k = "configmaps"
  <2>1. e[1] = IF k = "pods" THEN "pod" ELSE "configmap"
    BY <1>1 DEF ScannersInv, ListInv
  <2> QED
    BY <1>1, <2>1 DEF ScannerOf
<1>2. CASE k = "claims"
  <2>1. e[1] = "claim"
    BY <1>2 DEF ScannersInv, ClaimsInv, Entry
  <2> QED
    BY <1>2, <2>1 DEF ScannerOf
<1>3. CASE k = "namespaces"
  <2>1. e[1] = "namespace"
    BY <1>3 DEF ScannersInv, NamespacesInv, NsEntry
  <2> QED
    BY <1>3, <2>1 DEF ScannerOf
<1> QED
  BY <1>1, <1>2, <1>3 DEF Kinds

-----------------------------------------------------------------------------
(* Steps.                                                                  *)

\* A scan starts with nothing found and no plan.
LEMMA InitInv == Init => IInv
<1> SUFFICES ASSUME Init PROVE IInv
  OBVIOUS
<1> USE DEF Init
<1>1. /\ changes \in 0..MaxChanges /\ asked \in 1..4
      /\ plan \in Seq(Entries) /\ Len(plan) <= MaxResources /\ todo \in Seq(Namespaces)
  BY NoElements, CleanupAssumption
<1>2. Types
  BY <1>1 DEF Types
<1>3. ScannersInv
  BY DEF ScannersInv, ListInv, ClaimsInv, NamespacesInv, Kinds
<1>4. PlanInv
  BY NoElements DEF PlanInv, Reported
<1> QED
  BY <1>2, <1>3, <1>4 DEF IInv

\* The cluster changes.
LEMMA BecomesKeeps ==
  ASSUME IInv, NEW o \in Objects, Create(o) \/ Delete(o)
  PROVE  IInv'
<1>1. PICK objects \in SUBSET Objects : Becomes(objects)
  BY DEF IInv, Types, Create, Delete
<1>2. /\ UNCHANGED <<scope, pc, claims, todo, asked, found, partial, ended, main, answer>>
      /\ main = "wait" /\ steady' \subseteq steady /\ seen \subseteq seen'
  BY <1>1 DEF Becomes
<1>3. Types'
  BY <1>1, <1>2, CleanupAssumption DEF IInv, Types, Becomes, answer
<1>4. ScannersInv'
  BY <1>2, ListRests, ClaimsRest, NamespacesRest DEF IInv, ScannersInv
<1>5. PlanInv'
  BY <1>2, NoPlanYet DEF answer
<1> QED
  BY <1>3, <1>4, <1>5 DEF IInv

\* An entry is one of the entries.
LEMMA IsEntry == (\A o \in Objects : Entry(o) \in Entries) /\ (\A ns \in Namespaces : NsEntry(ns) \in Entries)
  BY DEF Entries

\* The one call of the pod scanner or of the config map scanner.
LEMMA ListKeeps ==
  ASSUME IInv, NEW k, NEW kind,
         (k = "pods" /\ kind = "pod") \/ (k = "configmaps" /\ kind = "configmap"),
         pc[k] = "list",
         Returns(k, {Entry(o) : o \in {p \in InCluster(kind) : p.idle /\ p.ns \notin System}}),
         UNCHANGED <<scope, cluster, claims, todo, asked, partial, ended, main, answer>>
  PROVE  IInv'
<1>1. (k = "pods" /\ kind = "pod") \/ (k = "configmaps" /\ kind = "configmap")
  OBVIOUS
<1>2. Types /\ ScannersInv /\ k \in Kinds
  BY <1>1 DEF IInv, Kinds
<1>3. main = "wait"
  BY <1>1, <1>2 DEF IInv, PlanInv
<1>4. PICK entries :
        entries = {Entry(o) : o \in {p \in InCluster(kind) : p.idle /\ p.ns \notin System}}
  OBVIOUS
<1>5. /\ pc' = [pc EXCEPT ![k] = "ok"] /\ found' = [found EXCEPT ![k] = entries]
      /\ entries \subseteq Entries /\ \A e \in entries : e[1] = kind
  BY <1>1, <1>2, <1>4, IsEntry DEF Returns, InCluster, Types, Entry
<1>6. UNCHANGED <<scope, live, changes, steady, seen, bare, claims, todo, asked, partial, ended,
                  main, plan, warnings, exit>>
  BY DEF cluster, answer
<1>7. Types'
  BY <1>2, <1>5, <1>6 DEF Types
<1>8. /\ pc'[k] = "ok" /\ found'[k] = entries
      /\ \A j \in Kinds : j # k => pc'[j] = pc[j] /\ found'[j] = found[j]
  BY <1>2, <1>5 DEF Types
<1>9. ListInv(k, kind)'
  <2>1. \A o \in steady : o.kind = kind /\ InScope(o.ns) /\ o.idle /\ o.ns \notin System =>
          Entry(o) \in entries
    BY <1>2, <1>4 DEF Types, InCluster
  <2> QED
    BY <1>5, <1>6, <1>8, <2>1 DEF ListInv, InScope
<1>10. ScannersInv'
  <2>1. ClaimsInv'
    BY <1>1, <1>2, <1>6, <1>8, ClaimsRest DEF ScannersInv, Kinds
  <2>2. NamespacesInv'
    BY <1>1, <1>2, <1>6, <1>8, NamespacesRest DEF ScannersInv, Kinds
  <2>3. k # "pods" => ListInv("pods", "pod")'
    BY <1>2, <1>6, <1>8, ListRests DEF ScannersInv, Kinds
  <2>4. k # "configmaps" => ListInv("configmaps", "configmap")'
    BY <1>2, <1>6, <1>8, ListRests DEF ScannersInv, Kinds
  <2> QED
    BY <1>1, <1>9, <2>1, <2>2, <2>3, <2>4 DEF ScannersInv
<1> QED
  BY <1>3, <1>6, <1>7, <1>10, NoPlanYet DEF IInv

\* What the main goroutine has to do with a step of a scanner: nothing.
LEMMA StillWaiting ==
  ASSUME IInv, NEW k \in Kinds, pc[k] \notin {"ok", "failed"}
  PROVE  main = "wait"
  BY DEF IInv, PlanInv, Types

\* The first call of the claim scanner.
LEMMA ListClaimsKeeps ==
  ASSUME IInv, ListClaims
  PROVE  IInv'
<1>1. Types /\ ScannersInv /\ pc["claims"] = "list" /\ "claims" \in Kinds
  BY DEF IInv, ListClaims, Kinds
<1>2. /\ UNCHANGED <<scope, live, changes, steady, seen, bare, todo, asked, found, partial, ended,
                     main, plan, warnings, exit>>
      /\ claims' = InCluster("claim") /\ pc' = [pc EXCEPT !["claims"] = "mounts"]
  BY DEF ListClaims, cluster, answer
<1>3. /\ pc'["claims"] = "mounts" /\ \A j \in Kinds : j # "claims" => pc'[j] = pc[j]
  BY <1>1, <1>2 DEF Types
<1>4. Types'
  BY <1>1, <1>2 DEF Types, InCluster
<1>5. ClaimsInv'
  <2>1. \A c \in claims' : c.kind = "claim" /\ InScope(c.ns)'
    BY <1>2 DEF InCluster, InScope
  <2>2. \A o \in steady : o.kind = "claim" /\ InScope(o.ns)' => o \in claims'
    BY <1>1, <1>2 DEF InCluster, InScope, Types
  <2>3. \A e \in found["claims"] : \E d \in Objects :
          e = Entry(d) /\ d.kind = "claim" /\ (d.idle \/ \A p \in steady : ~Uses(p, d))
    BY <1>1 DEF ScannersInv, ClaimsInv
  <2> QED
    BY <1>2, <1>3, <2>1, <2>2, <2>3 DEF ClaimsInv
<1>6. ScannersInv'
  <2>1. ListInv("pods", "pod")' /\ ListInv("configmaps", "configmap")'
    BY <1>1, <1>2, <1>3, ListRests DEF ScannersInv, Kinds
  <2>2. NamespacesInv'
    BY <1>1, <1>2, <1>3, NamespacesRest DEF ScannersInv, Kinds
  <2> QED
    BY <1>5, <2>1, <2>2 DEF ScannersInv
<1> QED
  BY <1>1, <1>2, <1>4, <1>6, NoPlanYet, StillWaiting DEF IInv

\* The second: a pod that has been there all the time is among the answers, and
\* an answer has been there at some time.
LEMMA ListMountsKeeps ==
  ASSUME IInv, ListMounts
  PROVE  IInv'
<1>1. Types /\ ScannersInv /\ ClaimsInv /\ pc["claims"] = "mounts" /\ "claims" \in Kinds
  BY DEF IInv, ScannersInv, ListMounts, Kinds
<1>2. PICK entries : entries = {Entry(c) : c \in {d \in claims : d.idle \/ ~Mounted(d)}}
  OBVIOUS
<1>3. /\ UNCHANGED <<scope, live, changes, steady, seen, bare, claims, todo, asked, partial, ended,
                     main, plan, warnings, exit>>
      /\ found' = [found EXCEPT !["claims"] = entries] /\ pc' = [pc EXCEPT !["claims"] = "ok"]
  BY <1>2 DEF ListMounts, Returns, cluster, answer
<1>4. entries \subseteq Entries
  BY <1>1, <1>2, IsEntry DEF Types
<1>5. Types'
  BY <1>1, <1>3, <1>4 DEF Types
<1>6. /\ pc'["claims"] = "ok" /\ found'["claims"] = entries
      /\ \A j \in Kinds : j # "claims" => pc'[j] = pc[j] /\ found'[j] = found[j]
  BY <1>1, <1>3 DEF Types
<1>7. ASSUME NEW c \in claims
      PROVE  /\ ~Mounted(c) => \A p \in steady : ~Uses(p, c)
             /\ Mounted(c) => \E p \in seen : Uses(p, c)
  <2>1. InScope(c.ns) /\ steady \subseteq live /\ live \subseteq seen
    BY <1>1 DEF ClaimsInv, Types
  <2> QED
    BY <2>1 DEF Mounted, InCluster, Uses, InScope
<1>8. ClaimsInv'
  <2>1. ASSUME NEW e \in entries
        PROVE  \E d \in Objects :
                 e = Entry(d) /\ d.kind = "claim" /\ (d.idle \/ \A p \in steady : ~Uses(p, d))
    <3>1. PICK d \in claims : e = Entry(d) /\ (d.idle \/ ~Mounted(d))
      BY <1>2
    <3> QED
      BY <1>1, <1>7, <3>1 DEF ClaimsInv, Types
  <2>2. ASSUME NEW o \in steady, o.kind = "claim", InScope(o.ns),
               o.idle \/ \A p \in seen : ~Uses(p, o)
        PROVE  Entry(o) \in entries
    <3>1. o \in claims
      BY <1>1, <2>2 DEF ClaimsInv
    <3> QED
      BY <1>2, <1>7, <2>2, <3>1
  <2>3. \A c \in claims : c.kind = "claim" /\ InScope(c.ns)
    BY <1>1 DEF ClaimsInv
  <2>4. \A o \in steady : o.kind = "claim" /\ InScope(o.ns) => o \in claims
    BY <1>1 DEF ClaimsInv
  <2> QED
    BY <1>3, <1>6, <2>1, <2>2, <2>3, <2>4 DEF ClaimsInv, InScope
<1>9. ScannersInv'
  <2>1. ListInv("pods", "pod")' /\ ListInv("configmaps", "configmap")'
    BY <1>1, <1>3, <1>6, ListRests DEF ScannersInv, Kinds
  <2>2. NamespacesInv'
    BY <1>1, <1>3, <1>6, NamespacesRest DEF ScannersInv, Kinds
  <2> QED
    BY <1>8, <2>1, <2>2 DEF ScannersInv
<1> QED
  BY <1>1, <1>3, <1>5, <1>9, NoPlanYet, StillWaiting DEF IInv

\* A call that fails.
LEMMA ListFailsKeeps ==
  ASSUME IInv, NEW k \in Kinds, ListFails(k)
  PROVE  IInv'
<1>1. Types /\ ScannersInv /\ pc[k] \in {"list", "mounts"}
  BY DEF IInv, ListFails
<1>2. /\ UNCHANGED <<scope, live, changes, steady, seen, bare, claims, todo, asked, found, partial,
                     ended, main, plan, warnings, exit>>
      /\ pc' = [pc EXCEPT ![k] = "failed"]
  BY DEF ListFails, cluster, answer
<1>3. Types'
  BY <1>1, <1>2 DEF Types
<1>4. \A j \in Kinds : pc'[j] = pc[j] \/ pc'[j] = "failed"
  BY <1>1, <1>2 DEF Types
<1>5. ScannersInv'
  BY <1>1, <1>2, <1>4, ListRests, ClaimsRest, NamespacesRest DEF ScannersInv, Kinds
<1> QED
  BY <1>1, <1>2, <1>3, <1>5, NoPlanYet, StillWaiting DEF IInv

\* The namespaces, one question at a time.
LEMMA NamespaceStepKeeps ==
  ASSUME IInv, pc["namespaces"] \notin {"ok", "failed"}, Types', NamespacesInv',
         UNCHANGED <<scope, live, changes, steady, seen, bare, claims, ended, main, plan, warnings, exit>>,
         \A j \in Kinds : j # "namespaces" => pc'[j] = pc[j] /\ found'[j] = found[j]
  PROVE  IInv'
<1>1. ListInv("pods", "pod")' /\ ListInv("configmaps", "configmap")'
  BY ListRests DEF IInv, ScannersInv, Kinds
<1>2. ClaimsInv'
  BY ClaimsRest DEF IInv, ScannersInv, Kinds
<1>3. "namespaces" \in Kinds
  BY DEF Kinds
<1> QED
  BY <1>1, <1>2, <1>3, NoPlanYet, StillWaiting DEF IInv, ScannersInv

\* The loop goes on with the rest, or is over.
LEMMA Onward ==
  ASSUME Types, NEW rest \in Seq(Namespaces), CheckRest(rest), UNCHANGED <<scope, steady, seen>>,
         \A e \in found'["namespaces"] : \E ns \in Namespaces :
           e = NsEntry(ns) /\ Content(steady, ns) = {},
         \A ns \in Namespaces : InScope(ns) /\ ns \notin Skipped =>
           \/ ns \in Range(rest) \/ NsEntry(ns) \in found'["namespaces"] \/ ns \in partial'
           \/ Content(seen, ns) # {}
  PROVE  /\ NamespacesInv'
         /\ todo' \in Seq(Namespaces) /\ asked' \in 1..4
         /\ pc' \in [Kinds -> {"list", "mounts", "check", "ok", "failed"}]
         /\ \A j \in Kinds : j # "namespaces" => pc'[j] = pc[j]
<1>1. /\ todo' = rest /\ asked' = 1 /\ "namespaces" \in Kinds
      /\ pc' = [pc EXCEPT !["namespaces"] = IF rest = <<>> THEN "ok" ELSE "check"]
  BY DEF CheckRest, Kinds
<1>2. /\ pc'["namespaces"] = IF rest = <<>> THEN "ok" ELSE "check"
      /\ \A j \in Kinds : j # "namespaces" => pc'[j] = pc[j]
      /\ pc' \in [Kinds -> {"list", "mounts", "check", "ok", "failed"}]
  BY <1>1 DEF Types
<1>3. (pc["namespaces"] = "check" =>
         /\ todo # <<>>
         /\ \A i \in 1..(asked - 1) : \A o \in steady : o.ns = Head(todo) => o.kind # Asked[i])'
  <2>1. \A i \in 1..(asked' - 1) : FALSE
    BY <1>1
  <2> QED
    BY <1>1, <1>2, <2>1
<1>4. (pc["namespaces"] = "ok" => todo = <<>>)'
  BY <1>1, <1>2
<1>5. (\A ns \in Namespaces : InScope(ns) /\ ns \notin Skipped =>
         \/ ns \in Range(todo) \/ NsEntry(ns) \in found["namespaces"] \/ ns \in partial
         \/ Content(seen, ns) # {})'
  BY <1>1 DEF InScope
<1>6. (\A e \in found["namespaces"] : \E ns \in Namespaces :
         e = NsEntry(ns) /\ Content(steady, ns) = {})'
  OBVIOUS
<1>7. NamespacesInv'
  BY <1>3, <1>4, <1>5, <1>6 DEF NamespacesInv
<1> QED
  BY <1>1, <1>2, <1>7

\* The call that lists them.
LEMMA ListNamespacesKeeps ==
  ASSUME IInv, ListNamespaces
  PROVE  IInv'
<1>1. Types /\ NamespacesInv /\ pc["namespaces"] = "list" /\ "namespaces" \in Kinds
  BY DEF IInv, ScannersInv, ListNamespaces, Kinds
<1>2. PICK rest : rest = SetToSeq({ns \in Namespaces : InScope(ns) /\ ns \notin Skipped})
  OBVIOUS
<1>3. /\ UNCHANGED <<scope, live, changes, steady, seen, bare, claims, found, partial, ended, main,
                     plan, warnings, exit>>
      /\ CheckRest(rest)
  BY <1>2 DEF ListNamespaces, cluster, answer
<1>4. rest \in Seq(Namespaces) /\ Range(rest) = {ns \in Namespaces : InScope(ns) /\ ns \notin Skipped}
  <2>1. PICK S \in SUBSET Namespaces : S = {ns \in Namespaces : InScope(ns) /\ ns \notin Skipped}
    OBVIOUS
  <2>2. IsFiniteSet(S)
    BY CleanupAssumption, FS_Subset
  <2>3. rest \in Seq(S) /\ Range(rest) = S
    BY <1>2, <2>1, <2>2, Sequenced
  <2> QED
    BY <2>1, <2>3, SeqMonotonic
<1>5. /\ NamespacesInv'
      /\ todo' \in Seq(Namespaces) /\ asked' \in 1..4
      /\ pc' \in [Kinds -> {"list", "mounts", "check", "ok", "failed"}]
      /\ \A j \in Kinds : j # "namespaces" => pc'[j] = pc[j]
  <2>1. \A e \in found'["namespaces"] : \E ns \in Namespaces :
          e = NsEntry(ns) /\ Content(steady, ns) = {}
    BY <1>1, <1>3 DEF NamespacesInv
  <2>2. \A ns \in Namespaces : InScope(ns) /\ ns \notin Skipped => ns \in Range(rest)
    BY <1>4
  <2> QED
    BY <1>1, <1>3, <1>4, <2>1, <2>2, Onward
<1>6. Types'
  BY <1>1, <1>3, <1>5 DEF Types
<1> QED
  BY <1>1, <1>3, <1>5, <1>6, NamespaceStepKeeps

\* An answer that settles the namespace at hand, or the last of the four.
LEMMA AskKeeps ==
  ASSUME IInv, Ask
  PROVE  IInv'
<1>1. Types /\ NamespacesInv /\ pc["namespaces"] = "check" /\ "namespaces" \in Kinds
  BY DEF IInv, ScannersInv, Ask, Kinds
<1>2. todo \in Seq(Namespaces) /\ todo # <<>> /\ asked \in 1..4 /\ steady \subseteq live /\ live \subseteq seen
  BY <1>1 DEF Types, NamespacesInv
<1>3. PICK ns, rest : ns = Head(todo) /\ rest = Tail(todo)
  OBVIOUS
<1>4. /\ ns \in Namespaces /\ rest \in Seq(Namespaces)
      /\ \A x \in Range(todo) : x = ns \/ x \in Range(rest)
  BY <1>2, <1>3, Rest
<1>5. UNCHANGED <<scope, live, changes, steady, seen, bare, claims, partial, ended, main, plan,
                  warnings, exit>>
  BY DEF Ask, cluster, answer
<1>6. /\ \A e \in found["namespaces"] : \E n \in Namespaces :
           e = NsEntry(n) /\ Content(steady, n) = {}
      /\ \A n \in Namespaces : InScope(n) /\ n \notin Skipped =>
           \/ n = ns \/ n \in Range(rest) \/ NsEntry(n) \in found["namespaces"] \/ n \in partial
           \/ Content(seen, n) # {}
      /\ \A i \in 1..(asked - 1) : \A o \in steady : o.ns = ns => o.kind # Asked[i]
  BY <1>1, <1>3, <1>4 DEF NamespacesInv
<1>7. CASE /\ \E o \in live : o.ns = ns /\ o.kind = Asked[asked]
           /\ CheckRest(rest) /\ UNCHANGED found
  <2>1. Content(seen, ns) # {}
    BY <1>2, <1>7, Questions DEF Content
  <2>2. /\ NamespacesInv'
        /\ todo' \in Seq(Namespaces) /\ asked' \in 1..4
        /\ pc' \in [Kinds -> {"list", "mounts", "check", "ok", "failed"}]
        /\ \A j \in Kinds : j # "namespaces" => pc'[j] = pc[j]
    <3>1. \A n \in Namespaces : InScope(n) /\ n \notin Skipped =>
            \/ n \in Range(rest) \/ NsEntry(n) \in found'["namespaces"] \/ n \in partial'
            \/ Content(seen, n) # {}
      BY <1>5, <1>6, <1>7, <2>1
    <3>2. \A e \in found'["namespaces"] : \E n \in Namespaces :
            e = NsEntry(n) /\ Content(steady, n) = {}
      BY <1>6, <1>7
    <3> QED
      BY <1>1, <1>4, <1>5, <1>7, <3>1, <3>2, Onward
  <2>3. Types'
    BY <1>1, <1>5, <1>7, <2>2 DEF Types
  <2> QED
    BY <1>1, <1>5, <1>7, <2>2, <2>3, NamespaceStepKeeps
<1>8. CASE /\ ~ \E o \in live : o.ns = ns /\ o.kind = Asked[asked]
           /\ asked < 4 /\ asked' = asked + 1 /\ UNCHANGED <<todo, pc, found>>
  <2>1. \A o \in steady : o.ns = ns => o.kind # Asked[asked]
    BY <1>2, <1>8
  <2>2. \A i \in 1..(asked' - 1) : i \in 1..(asked - 1) \/ i = asked
    BY <1>2, <1>8
  <2>3. \A i \in 1..(asked' - 1) : \A o \in steady : o.ns = ns => o.kind # Asked[i]
    BY <1>6, <2>1, <2>2
  <2>4. NamespacesInv'
    <3>1. (\A e \in found["namespaces"] : \E n \in Namespaces :
             e = NsEntry(n) /\ Content(steady, n) = {})'
      BY <1>5, <1>6, <1>8
    <3>2. (pc["namespaces"] \in {"check", "ok"} =>
             \A n \in Namespaces : InScope(n) /\ n \notin Skipped =>
               \/ n \in Range(todo) \/ NsEntry(n) \in found["namespaces"] \/ n \in partial
               \/ Content(seen, n) # {})'
      BY <1>1, <1>5, <1>8 DEF NamespacesInv, InScope
    <3>3. (pc["namespaces"] = "check" =>
             /\ todo # <<>>
             /\ \A i \in 1..(asked - 1) : \A o \in steady : o.ns = Head(todo) => o.kind # Asked[i])'
      BY <1>2, <1>3, <1>5, <1>8, <2>3
    <3>4. (pc["namespaces"] = "ok" => todo = <<>>)'
      BY <1>1, <1>8
    <3> QED
      BY <3>1, <3>2, <3>3, <3>4 DEF NamespacesInv
  <2>5. Types'
    <3>1. asked' \in 1..4
      BY <1>2, <1>8
    <3> QED
      BY <1>1, <1>5, <1>8, <3>1 DEF Types
  <2> QED
    BY <1>1, <1>5, <1>8, <2>4, <2>5, NamespaceStepKeeps
<1>9. CASE /\ ~ \E o \in live : o.ns = ns /\ o.kind = Asked[asked]
           /\ asked = 4 /\ CheckRest(rest)
           /\ found' = [found EXCEPT !["namespaces"] = @ \cup {NsEntry(ns)}]
  <2>1. \A o \in steady : o.ns = ns => o.kind \notin {Asked[1], Asked[2], Asked[3], Asked[4]}
    <3>1. \A o \in steady : o.ns = ns => o.kind # Asked[4]
      BY <1>2, <1>9
    <3>2. 1 \in 1..(asked - 1) /\ 2 \in 1..(asked - 1) /\ 3 \in 1..(asked - 1)
      BY <1>9
    <3> QED
      BY <1>6, <3>1, <3>2
  <2>2. Content(steady, ns) = {}
    BY <2>1, Questions DEF Content
  <2>3. /\ found'["namespaces"] = found["namespaces"] \cup {NsEntry(ns)}
        /\ \A j \in Kinds : j # "namespaces" => found'[j] = found[j]
        /\ found' \in [Kinds -> SUBSET Entries]
    BY <1>1, <1>4, <1>9, IsEntry DEF Types
  <2>4. /\ NamespacesInv'
        /\ todo' \in Seq(Namespaces) /\ asked' \in 1..4
        /\ pc' \in [Kinds -> {"list", "mounts", "check", "ok", "failed"}]
        /\ \A j \in Kinds : j # "namespaces" => pc'[j] = pc[j]
    <3>1. \A n \in Namespaces : InScope(n) /\ n \notin Skipped =>
            \/ n \in Range(rest) \/ NsEntry(n) \in found'["namespaces"] \/ n \in partial'
            \/ Content(seen, n) # {}
      BY <1>5, <1>6, <2>3
    <3>2. \A e \in found'["namespaces"] : \E n \in Namespaces :
            e = NsEntry(n) /\ Content(steady, n) = {}
      BY <1>4, <1>6, <2>2, <2>3
    <3> QED
      BY <1>1, <1>4, <1>5, <1>9, <3>1, <3>2, Onward
  <2>5. Types'
    BY <1>1, <1>5, <2>3, <2>4 DEF Types
  <2> QED
    BY <1>1, <1>5, <2>3, <2>4, <2>5, NamespaceStepKeeps
<1>10. asked < 4 \/ asked = 4
  BY <1>2
<1> QED
  BY <1>3, <1>7, <1>8, <1>9, <1>10, Questions DEF Ask

\* A question that fails leaves a warning.
LEMMA AskFailsKeeps ==
  ASSUME IInv, AskFails
  PROVE  IInv'
<1>1. Types /\ NamespacesInv /\ pc["namespaces"] = "check" /\ "namespaces" \in Kinds
  BY DEF IInv, ScannersInv, AskFails, Kinds
<1>2. todo \in Seq(Namespaces) /\ todo # <<>>
  BY <1>1 DEF Types, NamespacesInv
<1>3. PICK ns, rest : ns = Head(todo) /\ rest = Tail(todo)
  OBVIOUS
<1>4. /\ ns \in Namespaces /\ rest \in Seq(Namespaces)
      /\ \A x \in Range(todo) : x = ns \/ x \in Range(rest)
  BY <1>2, <1>3, Rest
<1>5. /\ UNCHANGED <<scope, live, changes, steady, seen, bare, claims, found, ended, main, plan,
                     warnings, exit>>
      /\ partial' = partial \cup {ns} /\ CheckRest(rest)
  BY <1>3 DEF AskFails, cluster, answer
<1>6. /\ NamespacesInv'
      /\ todo' \in Seq(Namespaces) /\ asked' \in 1..4
      /\ pc' \in [Kinds -> {"list", "mounts", "check", "ok", "failed"}]
      /\ \A j \in Kinds : j # "namespaces" => pc'[j] = pc[j]
  <2>1. \A n \in Namespaces : InScope(n) /\ n \notin Skipped =>
          \/ n \in Range(rest) \/ NsEntry(n) \in found'["namespaces"] \/ n \in partial'
          \/ Content(seen, n) # {}
    BY <1>1, <1>4, <1>5 DEF NamespacesInv
  <2>2. \A e \in found'["namespaces"] : \E n \in Namespaces :
          e = NsEntry(n) /\ Content(steady, n) = {}
    BY <1>1, <1>5 DEF NamespacesInv
  <2> QED
    BY <1>1, <1>4, <1>5, <2>1, <2>2, Onward
<1>7. Types'
  BY <1>1, <1>4, <1>5, <1>6 DEF Types
<1> QED
  BY <1>1, <1>5, <1>6, <1>7, NamespaceStepKeeps

\* The list is cut at its limit, and only there.
LEMMA AssembleKeeps ==
  ASSUME IInv, Assemble
  PROVE  IInv'
<1>1. Types /\ ScannersInv /\ main = "wait"
  BY DEF IInv, Assemble
<1>2. /\ \A k \in Kinds : pc[k] \in {"ok", "failed"}
      /\ warnings' = Failed \cup partial /\ main' = "print"
      /\ UNCHANGED <<scope, live, changes, steady, seen, bare, pc, claims, todo, asked, found, partial,
                     ended, exit>>
  BY DEF Assemble, cluster
<1>3. PICK all : all = AllResults
  OBVIOUS
<1>4. /\ all \in Seq(Entries) /\ Range(all) = UNION {found[k] : k \in Kinds}
      /\ Sorted(all)
  BY <1>1, <1>3, Together, FoundBy DEF Types
<1>5. Len(all) \in Nat /\ DOMAIN all = 1..Len(all)
  BY <1>4, Element
<1>6. /\ plan' \in Seq(Entries) /\ Len(plan') <= MaxResources /\ Range(plan') \subseteq Range(all)
      /\ \A e \in Range(all) : e \in Range(plan') \/ CutOff(e)'
  <2>1. CASE Len(all) > MaxResources
    <3>1. plan' = SubSeq(all, 1, MaxResources)
      BY <1>3, <2>1 DEF Assemble
    <3>2. 1 \in Int /\ MaxResources \in Int /\ 1 <= MaxResources /\ \A i \in 1..MaxResources : all[i] \in Entries
      BY <1>4, <1>5, <2>1, CleanupAssumption, ElementOfSeq
    <3>3. /\ plan' \in Seq(Entries) /\ Len(plan') = MaxResources
          /\ \A i \in 1..MaxResources : plan'[i] = all[i]
      BY <3>1, <3>2, SubSeqProperties
    <3>4. DOMAIN plan' = 1..MaxResources
      BY <3>3, Element
    <3>5. Range(plan') \subseteq Range(all)
      BY <1>5, <2>1, <3>2, <3>3, <3>4 DEF Range
    <3>6. ASSUME NEW e \in Range(all), e \notin Range(plan') PROVE CutOff(e)'
      <4>1. PICK i \in 1..Len(all) : e = all[i]
        BY <1>5 DEF Range
      <4>2. ~(i <= MaxResources)
        BY <3>3, <3>4, <3>6, <4>1 DEF Range
      <4>3. ASSUME NEW f \in Range(plan') PROVE Place[ScannerOf(f)] <= Place[ScannerOf(e)]
        <5>1. PICK j \in 1..MaxResources : f = all[j]
          BY <3>3, <3>4 DEF Range
        <5>2. j \in 1..Len(all) /\ j <= i
          BY <1>5, <2>1, <3>2, <4>2
        <5> QED
          BY <1>4, <4>1, <5>1, <5>2 DEF Sorted
      <4> QED
        BY <3>3, <4>3 DEF CutOff
    <3> QED
      BY <3>2, <3>3, <3>5, <3>6
  <2>2. CASE ~(Len(all) > MaxResources)
    <3>1. plan' = all
      BY <1>3, <2>2 DEF Assemble
    <3> QED
      BY <1>4, <1>5, <2>2, <3>1, CleanupAssumption
  <2> QED
    BY <2>1, <2>2
<1>7. Types'
  <2>1. warnings' \subseteq Kinds \cup Namespaces
    BY <1>1, <1>2 DEF Types, Failed
  <2> QED
    BY <1>1, <1>2, <1>6, <2>1 DEF Types
<1>8. ScannersInv'
  BY <1>1, <1>2, ListRests, ClaimsRest, NamespacesRest DEF ScannersInv
<1>9. PlanInv'
  <2>1. \A e \in Range(plan') : \E k \in Kinds : e \in found[k]
    BY <1>4, <1>6
  <2>2. \A k \in Kinds : \A e \in found[k] : e \in Range(plan') \/ CutOff(e)'
    BY <1>4, <1>6
  <2>3. Failed' = Failed
    BY <1>2 DEF Failed
  <2>4. exit' # 0
    BY <1>1, <1>2 DEF IInv, PlanInv, Reported
  <2>5. (\A k \in Kinds : \A e \in found[k] : e \in Range(plan) \/ CutOff(e))'
    BY <1>2, <2>2
  <2> QED
    BY <1>2, <2>1, <2>3, <2>4, <2>5 DEF PlanInv
<1> QED
  BY <1>7, <1>8, <1>9 DEF IInv

\* The end of the command, and of the context.
LEMMA EndKeeps ==
  ASSUME IInv, GiveUp \/ PrintPlan \/ ContextEnds \/ UNCHANGED vars
  PROVE  IInv'
<1>1. Types /\ ScannersInv /\ PlanInv
  BY DEF IInv
<1>2. UNCHANGED <<scope, live, changes, steady, seen, bare, pc, claims, todo, asked, found, partial,
                  plan, warnings>>
  BY DEF GiveUp, PrintPlan, ContextEnds, vars, cluster, answer
<1>3. /\ ended' \in BOOLEAN /\ main' \in {"wait", "print", "done"} /\ exit' \in {-1, 0, 1, 2}
  BY <1>1 DEF Types, GiveUp, PrintPlan, ContextEnds, vars, answer
<1>4. Types'
  BY <1>1, <1>2, <1>3 DEF Types
<1>5. ScannersInv'
  BY <1>1, <1>2, ListRests, ClaimsRest, NamespacesRest DEF ScannersInv
<1>6. Failed' = Failed
  BY <1>2 DEF Failed
<1>7. \A e : CutOff(e)' <=> CutOff(e)
  BY <1>2 DEF CutOff
<1>8. Reported => (\A k \in Kinds : \A e \in found[k] : e \in Range(plan) \/ CutOff(e))'
  BY <1>1, <1>2, <1>7 DEF PlanInv
<1>9. PlanInv'
  <2>1. CASE GiveUp
    <3>1. \A k \in Kinds : pc[k] \in {"ok", "failed"}
      BY <2>1 DEF GiveUp, Failed
    <3>2. main' = "done" /\ exit' = 1 /\ ~Reported'
      BY <2>1 DEF GiveUp, Reported
    <3> QED
      BY <1>1, <1>2, <3>1, <3>2 DEF PlanInv
  <2>2. CASE PrintPlan
    <3>1. main = "print" /\ main' = "done" /\ Reported /\ (exit' = 0 => plan = <<>>)
      BY <2>2 DEF PrintPlan, Reported
    <3> QED
      BY <1>1, <1>2, <1>6, <1>8, <3>1 DEF PlanInv
  <2>3. CASE ContextEnds \/ UNCHANGED vars
    <3>1. main' = main /\ exit' = exit
      BY <2>3 DEF ContextEnds, vars, answer
    <3> QED
      BY <1>1, <1>2, <1>6, <1>8, <3>1 DEF PlanInv, Reported
  <2> QED
    BY <2>1, <2>2, <2>3
<1> QED
  BY <1>4, <1>5, <1>9 DEF IInv

-----------------------------------------------------------------------------
(* The theorems.                                                           *)

\* The inductive invariant: every step of the scan and of the cluster keeps it.
LEMMA StepInv == IInv /\ [Next]_vars => IInv'
<1> SUFFICES ASSUME IInv, [Next]_vars PROVE IInv'
  OBVIOUS
<1>1. CASE ListPods
  BY <1>1, ListKeeps DEF ListPods
<1>2. CASE ListConfigMaps
  BY <1>2, ListKeeps DEF ListConfigMaps
<1> QED
  BY <1>1, <1>2, BecomesKeeps, ListClaimsKeeps, ListMountsKeeps, ListNamespacesKeeps, AskKeeps,
     AskFailsKeeps, ListFailsKeeps, AssembleKeeps, EndKeeps DEF Next, Listing, Failing, Exited

\* It holds throughout.
LEMMA Invariance == Spec => []IInv
  BY InitInv, StepInv, PTL DEF Spec

\* Types; the list of resources stays within its limit.
THEOREM TypeCorrect == Spec => []TypeOK
<1>1. IInv => TypeOK
  <2> SUFFICES ASSUME IInv PROVE TypeOK
    OBVIOUS
  <2>1. Range(todo) \subseteq Namespaces /\ Range(plan) \subseteq Entries
    BY Element DEF IInv, Types
  <2>2. asked \in DOMAIN Asked
    BY Questions DEF IInv, Types
  <2> QED
    BY <2>1, <2>2 DEF IInv, Types, TypeOK
<1> QED
  BY <1>1, Invariance, PTL

\* Whatever happens between the calls of a scan, no claim that a pod uses
\* throughout and no namespace with an object that is there throughout is
\* put up for cleanup.
THEOREM NothingInUseListed == Spec => []InUseNeverListed
<1>1. IInv => InUseNeverListed
  <2> SUFFICES ASSUME IInv, NEW e \in Range(plan)
               PROVE  /\ e[1] = "namespace" => Content(steady, e[2]) = {}
                      /\ \A c \in Objects : e = Entry(c) /\ c.kind = "claim" /\ ~c.idle =>
                           ~ \E p \in steady : p.kind = "pod" /\ p.ns = c.ns /\ p.mounts = c.name
    BY DEF InUseNeverListed
  <2>1. PICK k \in Kinds : e \in found[k]
    BY DEF IInv, PlanInv
  <2>2. CASE k = "pods" \/ k = "configmaps"
    <3>1. e[1] \notin {"namespace", "claim"}
      BY <2>1, <2>2 DEF IInv, ScannersInv, ListInv
    <3> QED
      BY <3>1 DEF Entry
  <2>3. CASE k = "claims"
    <3>1. PICK d \in Objects :
            e = Entry(d) /\ d.kind = "claim" /\ (d.idle \/ \A p \in steady : ~Uses(p, d))
      BY <2>1, <2>3 DEF IInv, ScannersInv, ClaimsInv
    <3>2. ASSUME NEW c \in Objects, e = Entry(c) PROVE c = d
      BY <3>1, <3>2, CleanupAssumption DEF Entry
    <3> QED
      BY <3>1, <3>2 DEF Entry, Uses
  <2>4. CASE k = "namespaces"
    <3>1. PICK ns \in Namespaces : e = NsEntry(ns) /\ Content(steady, ns) = {}
      BY <2>1, <2>4 DEF IInv, ScannersInv, NamespacesInv
    <3> QED
      BY <3>1 DEF NsEntry, Entry
  <2> QED
    BY <2>2, <2>3, <2>4 DEF Kinds
<1> QED
  BY <1>1, Invariance, PTL

\* The scanners together know all that is idle for the whole scan, except
\* what a warning is about.
LEMMA IdleKnown ==
  ASSUME IInv, Reported, NEW e \in IdleThroughout
  PROVE  Warned(e) \/ e \in Range(plan) \/ CutOff(e)
<1> SUFFICES ASSUME ~Warned(e) PROVE \E k \in Kinds : e \in found[k]
  BY DEF IInv, PlanInv
<1> USE DEF Warned
<1>1. /\ \A k \in Kinds : pc[k] = "ok" \/ k \in warnings
      /\ partial \subseteq warnings
  BY DEF IInv, PlanInv, Failed
<1>2. CASE \E o \in steady : e = Entry(o) /\ o.kind \in {"pod", "configmap"}
                             /\ InScope(o.ns) /\ o.idle /\ o.ns \notin System
  <2>1. PICK o \in steady : e = Entry(o) /\ o.kind \in {"pod", "configmap"}
                            /\ InScope(o.ns) /\ o.idle /\ o.ns \notin System
    BY <1>2
  <2>2. CASE o.kind = "pod"
    <3>1. ScannerOf(e) = "pods"
      BY <2>1, <2>2 DEF ScannerOf, Entry
    <3>2. pc["pods"] = "ok" => e \in found["pods"]
      BY <2>1, <2>2 DEF IInv, ScannersInv, ListInv
    <3> QED
      BY <1>1, <3>1, <3>2 DEF Kinds
  <2>3. CASE o.kind = "configmap"
    <3>1. ScannerOf(e) = "configmaps"
      BY <2>1, <2>3 DEF ScannerOf, Entry
    <3>2. pc["configmaps"] = "ok" => e \in found["configmaps"]
      BY <2>1, <2>3 DEF IInv, ScannersInv, ListInv
    <3> QED
      BY <1>1, <3>1, <3>2 DEF Kinds
  <2> QED
    BY <2>1, <2>2, <2>3
<1>3. CASE \E o \in steady : e = Entry(o) /\ o.kind = "claim" /\ InScope(o.ns)
                             /\ (o.idle \/ \A p \in seen : ~Uses(p, o))
  <2>1. PICK o \in steady : e = Entry(o) /\ o.kind = "claim" /\ InScope(o.ns)
                            /\ (o.idle \/ \A p \in seen : ~Uses(p, o))
    BY <1>3
  <2>2. ScannerOf(e) = "claims"
    BY <2>1 DEF ScannerOf, Entry
  <2>3. pc["claims"] = "ok" => e \in found["claims"]
    BY <2>1 DEF IInv, ScannersInv, ClaimsInv
  <2> QED
    BY <1>1, <2>2, <2>3 DEF Kinds
<1>4. CASE \E ns \in Namespaces : e = NsEntry(ns) /\ InScope(ns) /\ ns \notin Skipped
                                  /\ Content(seen, ns) = {}
  <2>1. PICK ns \in Namespaces : e = NsEntry(ns) /\ InScope(ns) /\ ns \notin Skipped
                                 /\ Content(seen, ns) = {}
    BY <1>4
  <2>2. ScannerOf(e) = "namespaces" /\ e[1] = "namespace" /\ e[2] = ns
    BY <2>1 DEF ScannerOf, NsEntry
  <2>3. pc["namespaces"] = "ok" => e \in found["namespaces"] \/ ns \in partial
    <3>1. Range(<<>>) = {}
      BY NoElements
    <3> QED
      BY <2>1, <3>1 DEF IInv, ScannersInv, NamespacesInv
  <2> QED
    BY <1>1, <2>2, <2>3 DEF Kinds
<1> QED
  BY <1>2, <1>3, <1>4 DEF IdleThroughout, Uses

\* What is idle for the whole scan is in the plan, or a warning is about it,
\* or it was cut from the end of the list.
THEOREM NothingElseLost == Spec => []LostOnlyToTheCut
<1>1. IInv => LostOnlyToTheCut
  BY IdleKnown DEF LostOnlyToTheCut
<1> QED
  BY <1>1, Invariance, PTL

\* A command that ends with 0 has told of all it could not look at, and
\* nothing else was idle for the whole scan.
THEOREM NoneIdleAtZero == Spec => []ZeroMeansNoneIdle
<1>1. IInv => ZeroMeansNoneIdle
  <2> SUFFICES ASSUME IInv, exit = 0, NEW e \in IdleThroughout PROVE Warned(e)
    BY DEF ZeroMeansNoneIdle
  <2>1. plan = <<>> /\ Reported
    BY DEF IInv, PlanInv, Reported
  <2>2. Range(plan) = {} /\ Len(plan) # MaxResources
    BY <2>1, NoElements, CleanupAssumption
  <2> QED
    BY <2>1, <2>2, IdleKnown DEF CutOff
<1> QED
  BY <1>1, Invariance, PTL
=============================================================================
